------------------------- MODULE MCServiceLinkedRole -------------------------
(* Small instances of ServiceLinkedRole for TLC. *)
EXTENDS ServiceLinkedRole

CONSTANTS d1, d2

Budgeted(e, f, p, c, d) == [edit |-> e, fault |-> f, patch |-> p, crash |-> c, drift |-> d]
SLRBudget == Budgeted(2, 1, 1, 1, 2)
TaskBudget == Budgeted(0, 0, 0, 0, 1)

RoleSpecs == {[description |-> d, used |-> FALSE, task |-> "none"] : d \in {d1, d2, None}}
=============================================================================
