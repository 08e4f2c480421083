------------------------------ MODULE MCWakes ------------------------------
(* An instance of Wakes for TLC: two seats of one company, one of them with *)
(* a cadence, the other with a promise.                                     *)
EXTENDS Wakes, TLC

CONSTANTS c1, s1, s2, a2

OneCompany == s1 :> c1 @@ s2 :> c1
OfTheOther == a2 :> s2
ByName     == s1 :> 1 @@ s2 :> 2 @@ a2 :> 3
=============================================================================
