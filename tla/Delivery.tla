------------------------------ MODULE Delivery ------------------------------
(***************************************************************************)
(* What the outbox promises to the business transaction that writes an     *)
(* event, with no pollers, claims or leases in it: an event is tried a     *)
(* bounded number of times between two interventions of an operator, its   *)
(* state change is committed exactly once if it is ever published, a       *)
(* published event is never touched again, and attempts are only ever      *)
(* handed back to an event that had used all of them.                      *)
(* Outbox.tla implements it (theorem and run in Outbox_proofs, MCOutbox).  *)
(***************************************************************************)
EXTENDS Integers

CONSTANTS Events, MaxAttempts

VARIABLE item   \* [Events -> [status, tries, effects]]

Item == [status  : {"absent", "pending", "published"},
         tries   : 0..MaxAttempts,
         effects : {0, 1}]

Submit(i, j)  == /\ i.status = "absent"
                 /\ j = [status |-> "pending", tries |-> 0, effects |-> 0]
Try(i, j)     == /\ i.status = "pending" /\ i.tries < MaxAttempts
                 /\ j = [i EXCEPT !.tries = i.tries + 1]
Publish(i, j) == /\ i.status = "pending"
                 /\ j = [status |-> "published", tries |-> i.tries, effects |-> 1]
Bury(i, j)    == /\ i.status = "pending"
                 /\ j = [i EXCEPT !.tries = MaxAttempts]
Revive(i, j)  == /\ i.status = "pending" /\ i.tries = MaxAttempts
                 /\ j = [i EXCEPT !.tries = 0]

Init == item = [e \in Events |-> [status |-> "absent", tries |-> 0, effects |-> 0]]

\* One transaction of the outbox may move several events: a claim takes a
\* batch, an operator revives a pile.
Next ==
  /\ item' \in [Events -> Item]
  /\ \A e \in Events :
       \/ item'[e] = item[e]
       \/ Submit(item[e], item'[e])  \/ Try(item[e], item'[e])
       \/ Publish(item[e], item'[e]) \/ Bury(item[e], item'[e])
       \/ Revive(item[e], item'[e])

Spec == Init /\ [][Next]_item
=============================================================================
