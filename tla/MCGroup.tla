------------------------------- MODULE MCGroup -------------------------------
(* A small instance of Group for TLC. *)
EXTENDS Group, TLC

CONSTANTS p1, p2, n1, n2, d1, d2, bad, esc, pa, pb

Budgeted(e, f, p, c, d) == [edit |-> e, fault |-> f, patch |-> p, crash |-> c, drift |-> d]
GroupBudget == Budgeted(1, 1, 0, 1, 1)

\* One document has an escape that is none.
UnescapeDoc == [d \in {d1, d2, bad, esc} |-> IF d = esc THEN None ELSE d]

SpecOf(P, w1, w2, path) ==
    [policies |-> P, inline |-> (n1 :> w1 @@ n2 :> w2), path |-> path]

\* Other policies, another document, another name, another path; a document that is
\* malformed and one that has no meaning when unescaped.
GroupSpecs ==
    {SpecOf({p1}, d1, None, None), SpecOf({p2}, d2, d1, pb), SpecOf({p1, p2}, bad, None, pa),
     SpecOf({p2}, None, esc, pb)}
=============================================================================
