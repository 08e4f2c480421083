---------------------------- MODULE SequenceRuns ----------------------------
(* Sequences: a run is one contact's position in a list of steps, held by   *)
(* app/sequence.rs and moved by loops/sequence.rs. A step that writes only   *)
(* books a promise; the initiative loop (module Wakes) rings it, the turn    *)
(* it wakes sends a letter, has it held for review or declines, and the      *)
(* run learns what came of it from rows that others write later, if at all. *)
(*                                                                          *)
(* A loop lists the runs that are due and then advances them one by one,     *)
(* each in a transaction of its own, at the instant the listing was given.   *)
(* Every other writer (the turn, the founder, the correspondent) commits     *)
(* in between. Left out: the wording of letters and variants, the feed, the  *)
(* rest of the catalogue of turns, and a seat that is not at work.           *)
EXTENDS Naturals, Sequences, FiniteSets

CONSTANTS
  Runs,           \* one run per contact
  Program,        \* the steps: [kind, hours, then, otherwise]
  Loops,          \* processes running loops/sequence.rs
  MaxReplays,     \* MAX_REPLAYS
  MaxTouches,     \* MAX_TOUCHES
  SendDeadline,   \* SEND_DEADLINE
  WakePoll,       \* WAKE_POLL
  Overnight,      \* from any instant to the next day's budget
  Ceiling,        \* from a wake to the lifting of the subscription's ceiling
  MaxTime,        \* bound of the model: the last instant
  MaxMishaps,     \* bound of the model: rows that are never written
  MaxActs         \* bound of the model: acts of the founder and the contact

Never == MaxTime + SendDeadline + Overnight + Ceiling + WakePoll + 1

ASSUME SequenceRunsAssumption ==
  /\ Program # <<>>
  /\ Program \in Seq([kind : {"email", "wait", "branch"}, hours : Nat,
                      then : Nat, otherwise : Nat])
  /\ \A i \in DOMAIN Program :
       {Program[i].then, Program[i].otherwise} \subseteq 1..(Len(Program) + 1)
  /\ {MaxReplays, MaxTouches, SendDeadline, WakePoll, Overnight, Ceiling,
      MaxTime, MaxMishaps, MaxActs} \subseteq Nat
  /\ MaxTime > 0

VARIABLES
  clock,
  run,       \* sequence_runs, with the thread's touches and its last letter
  promises,  \* appointments.sequence_run_id, in the order they were booked
  contact,   \* what the address and the suppression list allow
  opened,    \* runs whose last letter was seen (message_events)
  charter,   \* the seat has one
  turn,      \* the wake in hand: which promise, and how far
  review,    \* the letter held for the founder
  leaving,   \* an unenrolment that has read its run
  listed,    \* what a loop has still to advance
  now,       \* the instant its tick was given
  writers,   \* history: turns, and approvals, that wrote for the current step
  held,      \* history: runs of which a letter was ever held for review
  behind,    \* history: runs of which a promise was booked behind others
  mishaps, acts

rows    == <<run, promises>>
world   == <<contact, opened, charter>>
hands   == <<turn, review, leaving>>
loops   == <<listed, now>>
history == <<writers, held, behind>>
bounds  == <<mishaps, acts>>
vars    == <<clock, rows, world, hands, loops, history, bounds>>

Instants == 0..Never
States   == {"active", "done", "replied", "stopped"}
Reasons  == {"none", "suppressed", "max_touches", "not_sent", "declined", "unenrolled"}
Outcomes == {"turn", "error", "limited", "over_budget", "no_charter", "no_work"}
NoLetter == [state |-> "none", wake |-> 0]
Asleep   == [i |-> 0, stage |-> "asleep"]

Position == [state : States, reason : Reasons, step : 1..(Len(Program) + 1),
             nextAt : Nat, sentAt : Nat, threaded : BOOLEAN, touches : Nat]
Promise  == [at : Nat, rang : Instants, threaded : BOOLEAN,
             outcome : Outcomes \cup {"null", "cancelled"},
             heard : {"nothing", "question", "refusal"}]
Letter   == [state : {"none", "pending", "denied", "redeemed", "left"}, wake : Nat]
\* A turn that was told the step has done nothing yet, has held back, or has
\* written: the first letter, and any further one, is to be chased yet.
Stages   == {"asleep", "unbriefed", "briefed", "acting", "left", "wrote", "further"}

TypeOK ==
  /\ clock \in 0..MaxTime
  /\ run \in [Runs -> Position]
  /\ promises \in [Runs -> Seq(Promise)]
  /\ contact \in [Runs -> {"reachable", "suppressed"}]
  /\ opened \subseteq Runs /\ charter \in BOOLEAN
  /\ turn \in [Runs -> [i : Nat, stage : Stages]]
  /\ review \in [Runs -> Letter]
  /\ leaving \subseteq Runs
  /\ listed \in [Loops -> SUBSET Runs] /\ now \in [Loops -> 0..MaxTime]
  /\ writers \in [Runs -> Nat] /\ held \subseteq Runs /\ behind \subseteq Runs
  /\ mishaps \in 0..MaxMishaps /\ acts \in 0..MaxActs

\* sentAt is 0, before every instant a promise is booked at, until a letter
\* has gone: '-infinity'.
Enrolled == [state |-> "active", reason |-> "none", step |-> 1, nextAt |-> 1,
             sentAt |-> 0, threaded |-> FALSE, touches |-> 0]

Init ==
  /\ clock = 1
  /\ run = [r \in Runs |-> Enrolled]
  /\ promises = [r \in Runs |-> <<>>]
  /\ contact = [r \in Runs |-> "reachable"]
  /\ opened = {} /\ charter \in BOOLEAN
  /\ turn = [r \in Runs |-> Asleep]
  /\ review = [r \in Runs |-> NoLetter]
  /\ leaving = {}
  /\ listed = [l \in Loops |-> {}] /\ now = [l \in Loops |-> 0]
  /\ writers = [r \in Runs |-> 0] /\ held = {} /\ behind = {}
  /\ mishaps = 0 /\ acts = 0

-----------------------------------------------------------------------------
(* The run, as advance reads it under its lock.                            *)

Active(r) == run[r].state = "active"
Kind(r)   == IF run[r].step \in DOMAIN Program THEN Program[run[r].step].kind ELSE "end"
Step(r)   == Program[run[r].step]

\* STEP_PROMISES: the promises of the current step, told by the last letter,
\* in the order of their hours.
Current(r) == {i \in DOMAIN promises[r] : promises[r][i].at > run[r].sentAt}
Earlier(r, i, j) ==
  promises[r][i].at < promises[r][j].at \/ (promises[r][i].at = promises[r][j].at /\ i < j)
Latest(r) == CHOOSE i \in Current(r) : \A j \in Current(r) \ {i} : Earlier(r, j, i)
Last(r)   == promises[r][Latest(r)]
Rung(r) == {i \in Current(r) : promises[r][i].rang # Never}
FirstWake(r) == promises[r][CHOOSE i \in Rung(r) : \A j \in Rung(r) \ {i} : Earlier(r, i, j)].rang
Deadline(r)  == FirstWake(r) + SendDeadline
Replays(r)   == {i \in Current(r) : \E j \in Current(r) : Earlier(r, j, i)}

Stop(r, state, reason) ==
  run' = [run EXCEPT ![r].state = state, ![r].reason = reason, ![r].nextAt = Never]
Goto(r, step, at) == run' = [run EXCEPT ![r].step = step, ![r].nextAt = at]
\* A listing may be older than the last letter or the last promise by the time
\* its run is advanced: advance asks for the state again, not for next_at.
Book(r, at) ==
  /\ promises' = [promises EXCEPT ![r] = Append(@,
       [at |-> at, rang |-> Never, threaded |-> run[r].threaded, outcome |-> "null",
        heard |-> "nothing"])]
  /\ behind' = IF at > run[r].sentAt /\ \A i \in DOMAIN promises[r] : promises[r][i].at <= at
               THEN behind ELSE behind \cup {r}
  /\ UNCHANGED <<writers, held>>

BooksNothing == UNCHANGED <<promises, history>>

Earliest(a, b) == IF a < b THEN a ELSE b

-----------------------------------------------------------------------------
(* loops/sequence.rs: tick lists what is due, advance takes one of them.   *)

Tick(l) ==
  LET due == {r \in Runs : Active(r) /\ run[r].nextAt <= clock} IN
  /\ listed[l] = {} /\ due # {}
  /\ listed' = [listed EXCEPT ![l] = due]
  /\ now' = [now EXCEPT ![l] = clock]
  /\ UNCHANGED <<clock, rows, world, hands, history, bounds>>

\* Every step of an advance: the run is struck off the list.
Takes(l, r) ==
  /\ r \in listed[l]
  /\ listed' = [listed EXCEPT ![l] = @ \ {r}]
  /\ now' = [now EXCEPT ![l] = IF listed'[l] = {} THEN 0 ELSE @]
  /\ UNCHANGED <<clock, world, hands, bounds>>

\* No row that is active, or the transaction is rolled back.
LeftAsItIs(l, r) ==
  /\ Takes(l, r)
  /\ ~Active(r)
  /\ UNCHANGED <<rows, history>>

\* Who writes for the next step counts afresh.
Afresh(r) == writers' = [writers EXCEPT ![r] = 0] /\ UNCHANGED <<held, behind>>

\* Where a branch goes on what was seen of the last letter.
Target(r) == IF r \in opened THEN Step(r).then ELSE Step(r).otherwise

\* The end of the list, a Wait and a Branch.
Moves(l, r) ==
  /\ Takes(l, r) /\ Active(r)
  /\ \/ Kind(r) = "end" /\ Stop(r, "done", "none")
     \/ Kind(r) = "wait" /\ Goto(r, run[r].step + 1, now[l] + Step(r).hours)
     \/ /\ Kind(r) = "branch"
        /\ Goto(r, Target(r), now[l])
  /\ Afresh(r)
  /\ UNCHANGED promises

Writes(l, r) == Takes(l, r) /\ Active(r) /\ Kind(r) = "email"

\* suppressed, inactive, max_touches: asked before anything is booked.
Unwelcome(r) ==
  \/ contact[r] = "suppressed"
  \/ run[r].threaded /\ run[r].touches >= MaxTouches
Leave(l, r) ==
  /\ Writes(l, r) /\ Unwelcome(r)
  /\ Stop(r, "stopped", IF contact[r] = "suppressed" THEN "suppressed" ELSE "max_touches")
  /\ BooksNothing

FirstPromise(l, r) ==
  /\ Writes(l, r) /\ ~Unwelcome(r)
  /\ Current(r) = {}
  /\ Book(r, now[l])
  /\ Goto(r, run[r].step, now[l] + WakePoll)

Unrung(r) == Current(r) # {} /\ Last(r).rang = Never
StillToRing(l, r) ==
  /\ Writes(l, r) /\ ~Unwelcome(r)
  /\ Unrung(r)
  /\ Goto(r, run[r].step, now[l] + WakePoll)
  /\ BooksNothing

\* The last promise has rung: "rejouer, ou pas".
Judges(l, r) == Writes(l, r) /\ ~Unwelcome(r) /\ Current(r) # {} /\ ~Unrung(r)
Open(l, r)   == Judges(l, r) /\ now[l] < Deadline(r)
PollAgain(l, r) == Goto(r, run[r].step, Earliest(now[l] + WakePoll, Deadline(r)))

Overdue(l, r) ==
  /\ Judges(l, r) /\ now[l] >= Deadline(r)
  /\ Stop(r, "stopped", "not_sent")
  /\ BooksNothing

\* Nothing recorded yet: the turn is going on.
TurnGoesOn(l, r) ==
  /\ Open(l, r) /\ Last(r).outcome = "null"
  /\ PollAgain(l, r)
  /\ BooksNothing

\* asked_founder, then letter_status, of what happened since the wake.
Questioned(r) == Last(r).heard = "question"
HeldLetter(r, state) == review[r].state = state /\ review[r].wake = Latest(r)
Declined(l, r) ==
  /\ Open(l, r) /\ Last(r).outcome # "null"
  /\ Questioned(r) \/ HeldLetter(r, "denied")
  /\ Stop(r, "stopped", "declined")
  /\ BooksNothing

LetterIsHeld(l, r) ==
  /\ Open(l, r) /\ Last(r).outcome # "null" /\ ~Questioned(r)
  /\ HeldLetter(r, "pending")
  /\ PollAgain(l, r)
  /\ BooksNothing

Settles(l, r) ==
  /\ Open(l, r) /\ Last(r).outcome # "null" /\ ~Questioned(r)
  /\ ~HeldLetter(r, "pending") /\ ~HeldLetter(r, "denied")

NoCharter(l, r) ==
  /\ Settles(l, r) /\ Last(r).outcome = "no_charter" /\ ~charter
  /\ PollAgain(l, r)
  /\ BooksNothing

\* When the cause may have gone, or Never when it will not.
Again(l, r) ==
  LET o == Last(r).outcome IN
  CASE o = "over_budget" -> now[l] + Overnight
    [] o = "turn" /\ Last(r).heard = "refusal" -> now[l] + Overnight
    [] o = "turn" /\ Last(r).heard # "refusal" /\ Replays(r) = {} -> now[l]
    [] o = "error" -> now[l]
    [] o = "limited" -> Last(r).rang + Ceiling
    [] o = "no_charter" /\ charter -> now[l]
    [] OTHER -> Never

MayReplay(l, r) ==
  /\ Last(r).outcome = "limited" \/ Cardinality(Replays(r)) < MaxReplays
  /\ Again(l, r) <= Deadline(r)

Replay(l, r) ==
  /\ Settles(l, r) /\ (Last(r).outcome = "no_charter" => charter)
  /\ MayReplay(l, r)
  /\ Book(r, Again(l, r))
  /\ Goto(r, run[r].step, Again(l, r) + WakePoll)

GiveUp(l, r) ==
  /\ Settles(l, r) /\ (Last(r).outcome = "no_charter" => charter)
  /\ ~MayReplay(l, r)
  /\ Stop(r, "stopped", "not_sent")
  /\ BooksNothing

Advance(l, r) ==
  \/ LeftAsItIs(l, r) \/ Moves(l, r) \/ Leave(l, r) \/ FirstPromise(l, r)
  \/ StillToRing(l, r) \/ Overdue(l, r) \/ TurnGoesOn(l, r) \/ Declined(l, r)
  \/ LetterIsHeld(l, r) \/ NoCharter(l, r) \/ Replay(l, r) \/ GiveUp(l, r)

-----------------------------------------------------------------------------
(* The wake and its turn (loops/initiative.rs, turn.rs, effects.rs).       *)

Mishap == mishaps < MaxMishaps /\ mishaps' = mishaps + 1 /\ UNCHANGED acts
Act    == acts < MaxActs /\ acts' = acts + 1 /\ UNCHANGED mishaps
Stage(r, to) == turn' = [turn EXCEPT ![r].stage = to]

\* A promise rings, and brief reads the run: nothing to say of a run that
\* has ended or is not at a letter.
Ring(r, i) ==
  /\ turn[r] = Asleep
  /\ promises[r][i].rang = Never /\ promises[r][i].at <= clock
  /\ promises' = [promises EXCEPT ![r][i].rang = clock]
  /\ turn' = [turn EXCEPT ![r] =
       [i |-> i, stage |-> IF Active(r) /\ Kind(r) = "email" THEN "briefed" ELSE "unbriefed"]]
  /\ UNCHANGED <<clock, run, world, review, leaving, loops, history, bounds>>

\* send_email answers: the letter is gone, and nothing here knows yet. perform
\* looks at no earlier letter: a turn may write again.
Acting(r) == turn[r].stage \in {"briefed", "acting", "wrote"} /\ contact[r] = "reachable"
Send(r) ==
  /\ Acting(r)
  /\ IF turn[r].stage = "wrote"
     THEN Stage(r, "further") /\ UNCHANGED writers
     ELSE Stage(r, "left") /\ writers' = [writers EXCEPT ![r] = @ + 1]
  /\ UNCHANGED <<clock, rows, world, review, leaving, loops, held, behind, bounds>>

\* Instead of sending: held for review, refused as one stranger too many, or
\* a question to the founder, which advance asks about before any refusal.
Hears(r, what) == IF promises[r][turn[r].i].heard = "question" THEN "question" ELSE what
HoldsBack(r) ==
  /\ Acting(r)
  /\ Stage(r, IF turn[r].stage = "wrote" THEN "wrote" ELSE "acting")
  /\ \/ /\ review[r] = NoLetter
        /\ review' = [review EXCEPT ![r] = [state |-> "pending", wake |-> turn[r].i]]
        /\ held' = held \cup {r}
        /\ UNCHANGED promises
     \/ /\ \E what \in {"question", "refusal"} :
             promises' = [promises EXCEPT ![r][turn[r].i].heard = Hears(r, what)]
        /\ UNCHANGED <<review, held>>
  /\ UNCHANGED <<clock, run, world, leaving, loops, writers, behind, bounds>>

\* sequence::sent, in the transaction of chase that puts the letter on its
\* thread: the run whose rung promise it answers moves on. No two instants are
\* the same: the clock moves with the letter's.
Mut_EndedToo(r) == Rung(r) # {}
Mut_KnownThread(r) == Active(r) /\ Rung(r) # {} /\ run[r].threaded
Awaited(r) == Active(r) /\ Rung(r) # {}
Sent(r) ==
  /\ run' = [run EXCEPT ![r] = IF Awaited(r)
       THEN [run[r] EXCEPT !.step = Earliest(run[r].step + 1, Len(Program) + 1),
                           !.sentAt = clock, !.nextAt = clock, !.threaded = TRUE,
                           !.touches = run[r].touches + 1]
       ELSE [run[r] EXCEPT !.touches = run[r].touches + 1]]
  /\ opened' = IF Awaited(r) THEN opened \ {r} ELSE opened
  /\ IF Awaited(r) THEN Afresh(r) ELSE UNCHANGED history
  /\ clock < MaxTime /\ clock' = clock + 1
  /\ UNCHANGED <<promises, contact, charter, leaving, loops>>

Chase(r) ==
  /\ turn[r].stage \in {"left", "further"}
  /\ Stage(r, "wrote")
  /\ \/ Sent(r) /\ UNCHANGED bounds
     \/ Mishap /\ UNCHANGED <<clock, rows, world, leaving, loops, history>>
  /\ UNCHANGED review

\* record writes what became of the wake, or is lost.
Ends(r) ==
  /\ turn[r].stage \in {"briefed", "unbriefed", "acting", "wrote"}
  /\ turn' = [turn EXCEPT ![r] = Asleep]
  /\ \/ /\ \E o \in Outcomes :
             /\ turn[r].stage \in {"acting", "wrote"} => o \in {"turn", "error", "limited"}
             /\ o = "no_charter" => ~charter
             /\ promises' = [promises EXCEPT ![r][turn[r].i].outcome = o]
        /\ UNCHANGED bounds
     \/ Mishap /\ UNCHANGED promises
  /\ UNCHANGED <<clock, run, world, review, leaving, loops, history>>

-----------------------------------------------------------------------------
(* The founder, the contact and the clock.                                 *)

\* The route of an approved letter: redeemed, sent, then chased.
Decide(r, to) ==
  /\ review[r].state = "pending"
  /\ Act
  /\ review' = [review EXCEPT ![r].state = to]
  /\ UNCHANGED <<clock, rows, world, turn, leaving, loops, history>>

Deliver(r) ==
  /\ review[r].state = "redeemed"
  /\ \/ /\ review' = [review EXCEPT ![r].state = "left"]
        /\ writers' = [writers EXCEPT ![r] = @ + 1]
        /\ UNCHANGED bounds
     \/ /\ Mishap
        /\ review' = [review EXCEPT ![r] = NoLetter]
        /\ UNCHANGED writers
  /\ UNCHANGED <<clock, rows, world, turn, leaving, loops, held, behind>>

ChaseApproved(r) ==
  /\ review[r].state = "left"
  /\ review' = [review EXCEPT ![r] = NoLetter]
  /\ \/ Sent(r) /\ UNCHANGED bounds
     \/ Mishap /\ UNCHANGED <<clock, rows, world, leaving, loops, history>>
  /\ UNCHANGED turn

\* A promise that is still to come.
ToCome(r, i) == promises[r][i].rang = Never /\ promises[r][i].at > clock

\* inbound::land of an answer on the thread: the run is replied, and the
\* promises of the thread that are still to come are cancelled.
Replied(r) ==
  /\ run[r].threaded
  /\ Act
  /\ IF Active(r) THEN Stop(r, "replied", "none") ELSE UNCHANGED run
  /\ promises' = [promises EXCEPT ![r] = [i \in DOMAIN promises[r] |->
       IF ToCome(r, i) /\ promises[r][i].threaded
       THEN [promises[r][i] EXCEPT !.rang = clock, !.outcome = "cancelled"]
       ELSE promises[r][i]]]
  /\ UNCHANGED <<clock, world, hands, loops, history>>

\* unenroll reads the run first ...
UnenrollReads(r) ==
  /\ Active(r) /\ r \notin leaving
  /\ Act
  /\ leaving' = leaving \cup {r}
  /\ UNCHANGED <<clock, rows, world, turn, review, loops, history>>

\* ... then stops it by its id and settles every promise that has not rung.
Mut_DueForgotten(r) ==
  /\ r \in leaving
  /\ leaving' = leaving \ {r}
  /\ Stop(r, "stopped", "unenrolled")
  /\ promises' = [promises EXCEPT ![r] = [i \in DOMAIN promises[r] |->
       IF ToCome(r, i)
       THEN [promises[r][i] EXCEPT !.rang = clock, !.outcome = "cancelled"]
       ELSE promises[r][i]]]
  /\ UNCHANGED <<clock, world, turn, review, loops, history, bounds>>
Unenroll(r) ==
  /\ r \in leaving
  /\ leaving' = leaving \ {r}
  /\ Stop(r, "stopped", "unenrolled")
  /\ promises' = [promises EXCEPT ![r] = [i \in DOMAIN promises[r] |->
       IF promises[r][i].rang = Never
       THEN [promises[r][i] EXCEPT !.rang = clock,
               !.outcome = IF ToCome(r, i) THEN "cancelled" ELSE "no_work"]
       ELSE promises[r][i]]]
  /\ UNCHANGED <<clock, world, turn, review, loops, history, bounds>>

\* Rows that others write and advance reads.
Suppress(r) ==
  /\ contact[r] = "reachable"
  /\ Act
  /\ contact' = [contact EXCEPT ![r] = "suppressed"]
  /\ UNCHANGED <<clock, rows, opened, charter, hands, loops, history>>

Seen(r) ==
  /\ run[r].threaded /\ r \notin opened
  /\ Act
  /\ opened' = opened \cup {r}
  /\ UNCHANGED <<clock, rows, contact, charter, hands, loops, history>>

PutCharter ==
  /\ ~charter /\ charter' = TRUE
  /\ Act
  /\ UNCHANGED <<clock, rows, contact, opened, hands, loops, history>>

Elapse ==
  /\ clock < MaxTime
  /\ clock' = clock + 1
  /\ UNCHANGED <<rows, world, hands, loops, history, bounds>>

Next ==
  \/ \E l \in Loops : Tick(l) \/ \E r \in Runs : Advance(l, r)
  \/ \E r \in Runs :
       \/ \E i \in DOMAIN promises[r] : Ring(r, i)
       \/ Send(r) \/ HoldsBack(r) \/ Chase(r) \/ Ends(r)
       \/ Decide(r, "redeemed") \/ Decide(r, "denied") \/ Deliver(r) \/ ChaseApproved(r)
       \/ Replied(r) \/ UnenrollReads(r) \/ Unenroll(r)
       \/ Suppress(r) \/ Seen(r)
  \/ PutCharter \/ Elapse

Spec == Init /\ [][Next]_vars

-----------------------------------------------------------------------------
(* Properties.                                                             *)

\* A step is written by one turn while every letter that left is recorded, none
\* was held for review and no promise was booked at an instant before the last
\* letter's or the last promise's: no replay of a wake whose turn is still going
\* on, no poll and no second listing of the run writes again (advance). That
\* turn may call send_email as often as it likes, and what it writes after its
\* first letter moves no run: sent finds no promise that has rung since.
OneTurnPerStep ==
  \A r \in Runs : mishaps = 0 /\ r \notin held \cup behind =>
    writers[r] <= 1 /\ (turn[r].stage \in {"wrote", "further"} => ~Awaited(r))

\* A contact taken out of a sequence is not written to by it: no promise of
\* the run is left to ring, whatever advance booked before (unenroll).
UnenrolledIsNotWoken ==
  \A r \in Runs : run[r].reason = "unenrolled" =>
    \A i \in DOMAIN promises[r] : promises[r][i].rang # Never

\* A run that has ended books nothing, moves nowhere and is not revived by a
\* letter, a listing or a reply that was on its way (advance, sent, replied).
EndedIsOver ==
  [][\A r \in Runs : ~Active(r) =>
       /\ run'[r].state # "active" /\ run'[r].step = run[r].step
       /\ Len(promises'[r]) = Len(promises[r])]_vars
=============================================================================
