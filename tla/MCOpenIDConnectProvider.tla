----------------------- MODULE MCOpenIDConnectProvider -----------------------
(* Small instances of OpenIDConnectProvider for TLC. *)
EXTENDS OpenIDConnectProvider

CONSTANTS t1, t2, c1, c2, bad, k1, k2, sys, v1, v2

Budgeted(e, f, p, c, d) == [edit |-> e, fault |-> f, patch |-> p, crash |-> c, drift |-> d]
OneOfEach == Budgeted(1, 1, 1, 1, 1)
LateInitBudget == Budgeted(0, 1, 0, 0, 0)

SpecOf(t, c, w1, w2) ==
    [thumbprints |-> t, clients |-> c,
     tags |-> [k \in TagKeys |-> IF k = k1 THEN w1 ELSE IF k = k2 THEN w2 ELSE None]]

\* No thumbprints, other ones, another client, one that is refused, another tag value
\* and another key.
ProviderSpecs ==
    {SpecOf(None, {c1}, v1, None), SpecOf(t2, {c2}, v2, None), SpecOf(t1, {c1, c2}, None, v1),
     SpecOf(t1, {c2, bad}, None, v1)}

BareSpecs == {SpecOf(None, {c1}, None, None)}
=============================================================================
