-------------------------- MODULE MCInstanceProfile --------------------------
(* Small instances of InstanceProfile for TLC. *)
EXTENDS InstanceProfile

CONSTANTS r1, r2, k1, k2, sys, v1, v2

Budgeted(e, f, p, c, d) == [edit |-> e, fault |-> f, patch |-> p, crash |-> c, drift |-> d]
ProfileBudget == Budgeted(2, 1, 0, 1, 1)

SpecOf(r, t1, t2) ==
    [role |-> r,
     tags |-> [k \in TagKeys |-> IF k = k1 THEN t1 ELSE IF k = k2 THEN t2 ELSE None]]

\* Another role, no role, another value, another key.
ProfileSpecs ==
    {SpecOf(r1, v1, None), SpecOf(r2, v2, None), SpecOf(None, None, v1), SpecOf(r2, v1, v2)}
=============================================================================
