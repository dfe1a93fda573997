---------------------------- MODULE MCReferences ----------------------------
(* A small instance of References for TLC. *)
EXTENDS References, TLC

CONSTANTS p, q, r, i

SmallBudget == [edit |-> 1, trouble |-> 1]

\* The policy q is never there.
CRCreations == p :> 1 @@ q :> 0 @@ r :> 1 @@ i :> 1

SpecOf(refs, ids, bad) == [refs |-> refs, ids |-> ids, bad |-> bad]

\* The role refers to a policy, to one that is missing, to both, to none while it is malformed,
\* or by references and ids at once; the profile refers to the role.
CRSpecs ==
    p :> {SpecOf({}, {}, FALSE)}
    @@ q :> {SpecOf({}, {}, FALSE)}
    @@ r :> {SpecOf({p}, {}, FALSE), SpecOf({q}, {}, FALSE), SpecOf({p, q}, {}, FALSE),
             SpecOf({}, {}, TRUE), SpecOf({p}, {q}, FALSE)}
    @@ i :> {SpecOf({r}, {}, FALSE)}
=============================================================================
