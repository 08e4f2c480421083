----------------------------- MODULE MCPayments -----------------------------
(* Small instances of Payments: two employees of one or two teams.         *)
EXTENDS Payments, TLC

CONSTANTS e1, e2, t1, t2, c1, c2

Together == (e1 :> t1 @@ e2 :> t1)
Alone    == (e1 :> t1)
CapsApart   == (e1 :> 2 @@ e2 :> 3)
BudgetsApart == (t1 :> 2 @@ t2 :> 3)
CapAlone    == (e1 :> 2)
BudgetAlone == (t1 :> 2)
CallSymmetry == Permutations(Calls)
=============================================================================
