--------------------------- MODULE MCSequenceRuns ---------------------------
(* An instance of SequenceRuns for TLC: two letters in a row, a wait, and a *)
(* branch on whether the second was read, back to the first if it was not.  *)
EXTENDS SequenceRuns

Write        == [kind |-> "email", hours |-> 0, then |-> 1, otherwise |-> 1]
Rest(h)      == [Write EXCEPT !.kind = "wait", !.hours = h]
Fork(yes, no) == [Write EXCEPT !.kind = "branch", !.then = yes, !.otherwise = no]

InARow == <<Write, Write, Rest(1), Fork(5, 1)>>
=============================================================================
