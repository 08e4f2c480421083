--------------------------- MODULE MCProvisioning ---------------------------
(* Small instances of Provisioning: one or two steps of one employee.      *)
EXTENDS Provisioning, TLC

CONSTANTS e1, r1, r2, w1, w2, w3

OwnerOfOne    == (r1 :> e1)
NoDependency  == (r1 :> {})
OwnerOfTwo    == (r1 :> e1 @@ r2 :> e1)
SecondOnFirst == (r1 :> {} @@ r2 :> {r1})
WorkerSymmetry == Permutations(Workers)
=============================================================================
