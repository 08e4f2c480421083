------------------------------ MODULE MCOutbox ------------------------------
(* Small instances of Outbox: two tenants, one with a backlog of two.      *)
EXTENDS Outbox, TLC

CONSTANTS a1, a2, b1, A, B, p1, p2

OneEach     == {a1}
Backlog     == {a1, a2, b1}
TenantOfAll == (a1 :> A @@ a2 :> A @@ b1 :> B)
TenantOfOne == (a1 :> A)
PollerSymmetry == Permutations(Pollers)
=============================================================================
