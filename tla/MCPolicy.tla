------------------------------ MODULE MCPolicy ------------------------------
(* Small instances of Policy for TLC. *)
EXTENDS Policy

CONSTANTS d1, d2, bad, k1, k2, v1, v2, plain, other

SpecOf(doc, t1, t2, desc) ==
    [doc |-> doc, tags |-> [k \in TagKeys |-> IF k = k1 THEN t1 ELSE t2], desc |-> desc]

Budgeted(e, f, p, c, d) == [edit |-> e, fault |-> f, patch |-> p, crash |-> c, drift |-> d]
PolicyBudget == Budgeted(3, 1, 1, 1, 1)

\* The tag k1 changes its value, k2 comes and goes, and one document is refused.
EditSpecs ==
    {SpecOf(d1, v1, None, plain), SpecOf(d2, v2, v1, plain), SpecOf(bad, v1, None, plain)}
=============================================================================
