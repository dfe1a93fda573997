------------------------------- MODULE MCRole -------------------------------
(* Small instances of Role for TLC. *)
EXTENDS Role, TLC

CONSTANTS p1, p2, p3, n1, n2, k1, k2, sys, v1, v2, d1, d2, bad, raw, s1, s2, huge, slash, team, e1, e2

\* "raw" stands for a document with a '+' or a '%xx' in it.
MCUnescape == [d \in Docs |-> IF d = raw THEN d2 ELSE d]

Budgeted(e, f, c, d) == [edit |-> e, fault |-> f, crash |-> c, drift |-> d]
OneOfEach == Budgeted(1, 1, 1, 1)
EditBudget == Budgeted(1, 0, 0, 0)

SpecOf(pols, i1, i2, t1, t2, bnd, doc, ses, path, dsc) ==
    [policies |-> pols,
     inline   |-> [n \in InlineNames |-> IF n = n1 THEN i1 ELSE i2],
     tags     |-> [k \in TagKeys |-> IF k = k1 THEN t1 ELSE IF k = k2 THEN t2 ELSE None],
     boundary |-> bnd,
     assume   |-> doc,
     session  |-> ses,
     path     |-> path,
     description |-> dsc]

\* Every field changes between the first two, in every way it can; the third is
\* refused by IAM in its trust policy, the last in an inline one and its session.
UpdateSpecs ==
    {SpecOf({p1, p2}, d1, d2, v1, None, None, d1, None, None, e1),
     SpecOf({p2, p3}, raw, None, v2, v1, p1, d2, s2, team, None),
     SpecOf({p2}, d1, None, v1, None, None, bad, None, team, e2),
     SpecOf({p1}, bad, None, None, None, p1, d1, huge, slash, e1)}

\* For the disagreement: another tag value.
ChangeSpecs == {SpecOf({}, d1, None, v, None, None, d1, None, None, e1) : v \in {v1, v2}}
=============================================================================
