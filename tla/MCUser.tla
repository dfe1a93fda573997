------------------------------- MODULE MCUser -------------------------------
(* A small instance of User for TLC. *)
EXTENDS User

CONSTANTS p1, p2, n1, n2, d1, d2, bad, esc, pa, pb, k1, k2, sys, own, v1

Budgeted(e, f, p, c, d) == [edit |-> e, fault |-> f, patch |-> p, crash |-> c, drift |-> d]
UserBudget == Budgeted(1, 1, 0, 0, 1)

\* One document is another one when it is unescaped.
UnescapeDoc == [d \in {d1, d2, bad, esc} |-> IF d = esc THEN d1 ELSE d]

OwnTag == own :> v1

T(k, v) == [key |-> k, value |-> v]

SpecOf(P, w1, w2, tags, b, path) ==
    [policies |-> P, inline |-> (n1 :> w1 @@ n2 :> w2), tags |-> tags, boundary |-> b,
     path |-> path]

\* Other policies, documents, tags, boundary and path; a document that is malformed; a
\* key given twice, a value that changes and is not given, a tag that the controller
\* would add.
UserSpecs ==
    {SpecOf({p1}, d1, None, <<T(k1, v1)>>, p1, None),
     SpecOf({p1, p2}, d2, None, <<T(k2, v1), T(k1, Nil)>>, None, pb),
     SpecOf({p2}, bad, esc, <<T(k1, v1), T(k1, Nil), T(own, Empty)>>, p1, pa)}
=============================================================================
