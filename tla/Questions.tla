----------------------------- MODULE Questions -----------------------------
(***************************************************************************)
(* Messages between employees (app/inbound.rs, send) and the patience loop  *)
(* (loops/patience.rs), which answers a question nobody answered in a day.  *)
(*                                                                         *)
(* send runs in its caller's transaction at READ COMMITTED: the duplicate   *)
(* check, the reservation of the recipient's turn (which locks the day's    *)
(* budget row until the commit), the check of the question still pending,   *)
(* and the insert are statements other transactions come between.  A seat   *)
(* whose policy grants no turns is written to and not woken: nothing is     *)
(* reserved and nothing is locked.                                         *)
(***************************************************************************)
EXTENDS Naturals, FiniteSets

CONSTANTS
  Seats,       \* employees
  Decisions,   \* authorised sends: one idempotency key each
  Kind,        \* of a decision: "order", "question" or "answer"
  Sender, Recipient,
  Question,    \* the question an answer is about, None for the others
  None,
  Turns,       \* processes that execute decisions: turns in flight
  Plans,       \* pairs of a turn and a decision it may execute
  Clocks,      \* replicas of the patience loop
  Cap,         \* max_turns_per_day of a seat; 0 is a seat never woken
  Reaches,     \* the pairs may_message lets talk while both are active
  Day,         \* QUESTION_PATIENCE, and the length of a budget day
  Batch,       \* BATCH: the questions one tick lists (100)
  MaxTime, MaxActs  \* bounds of the model

Questions == {k \in Decisions : Kind[k] = "question"}

\* The key of the clock's answer to a question: silence:<id>.
Silence(q) == <<"silence", q>>
Silences == {Silence(q) : q \in Questions}
Keys == Decisions \cup Silences

ASSUME QuestionsConstants ==
  /\ Sender \in [Decisions -> Seats] /\ Recipient \in [Decisions -> Seats]
  /\ Kind \in [Decisions -> {"order", "question", "answer"}]
  /\ \A k \in Decisions : IF Kind[k] = "answer" THEN Question[k] \in Questions
                          ELSE Question[k] = None
  /\ None \notin Keys
  /\ Decisions \cap Silences = {}
  /\ Cap \in [Seats -> Nat]
  /\ Reaches \subseteq Seats \X Seats
  /\ Day \in Nat \ {0} /\ Batch \in Nat \ {0} /\ MaxTime \in Nat /\ MaxActs \in Nat
  /\ Turns \cap Clocks = {}
  /\ Plans \subseteq Turns \X Decisions

Procs == Turns \cup Clocks

VARIABLES
  now,      \* the hour
  sent,     \* when each key's message was written, None if it was not
  taken,    \* the turns reserved, per seat and day
  tx,       \* the transaction each process has open
  listed,   \* the questions each clock read as due and has not tried yet
  active,   \* the seats whose lifecycle is active
  unusable, \* the seats whose policy layers do not load
  stopped,  \* the company's stop
  acts      \* mishaps and acts of others so far

vars == <<now, sent, taken, tx, listed, active, unusable, stopped, acts>>

Closed == [phase |-> "none", key |-> None, at |-> 0, count |-> 0]

Init ==
  /\ now = 0
  /\ sent = [k \in Keys |-> None]
  /\ taken = [s \in Seats |-> [d \in 0 .. MaxTime \div Day |-> 0]]
  /\ tx = [p \in Procs |-> Closed]
  /\ listed = [c \in Clocks |-> {}]
  /\ active = Seats
  /\ unusable = {}
  /\ stopped = FALSE
  /\ acts = 0

-----------------------------------------------------------------------------
(* What the messages say *)

QuestionOf(k) == IF k \in Silences THEN k[2] ELSE Question[k]
To(k) == IF k \in Silences THEN Sender[k[2]] ELSE Recipient[k]
Wakes(s) == Cap[s] > 0

Sent(k) == sent[k] # None

\* "Unanswered" is derived, never stored: no row names the question.
Answers(q) == {k \in Keys : QuestionOf(k) = q /\ Sent(k)}
Open(q) == Sent(q) /\ Answers(q) = {}

DayOf(t) == t \div Day

\* may_message: an answer is authorised by its question, the rest by the team
\* or the line, between active seats.
MayMessage(k) ==
  \/ Kind[k] = "answer"
  \/ /\ <<Sender[k], Recipient[k]>> \in Reaches
     /\ {Sender[k], Recipient[k]} \subseteq active

\* answerable: this question was put to this employee by this colleague.
Answerable(k) ==
  LET q == Question[k] IN
  Sent(q) /\ Recipient[q] = Sender[k] /\ Sender[q] = Recipient[k]

\* still_pending, at the hour t the call was made: an unanswered question of
\* the same asker to the same colleague, younger than the patience.
StillPending(k, t) ==
  \E q \in Questions :
    /\ Sender[q] = Sender[k] /\ Recipient[q] = Recipient[k]
    /\ Open(q)
    /\ sent[q] + Day > t

-----------------------------------------------------------------------------
(* send *)

\* A call of send passes its first checks; already_sent answers a key that is
\* written, and asks for the same turn event again.
Call(p, k) ==
  tx' = [tx EXCEPT ![p] = [phase |-> "called", key |-> k, at |-> now, count |-> 0]]

\* A turn executes a decision, or executes it again.  The recipient's policy is
\* loaded before anything is priced: one that does not load refuses the message.
Execute(p, k) ==
  /\ <<p, k>> \in Plans
  /\ tx[p] = Closed
  /\ ~Sent(k)
  /\ MayMessage(k)
  /\ Recipient[k] \notin unusable
  /\ Kind[k] = "answer" => Answerable(k)
  /\ Call(p, k)
  /\ UNCHANGED <<now, sent, taken, listed, active, unusable, stopped, acts>>

BudgetRow(p) == <<To(tx[p].key), DayOf(tx[p].at)>>

Mut_NoRowLock(row) == FALSE

\* Reserved and not yet committed: the row is locked.
RowLocked(row) ==
  \E p \in Procs : /\ tx[p].phase \in {"reserved", "clear"}
                   /\ Wakes(To(tx[p].key))
                   /\ BudgetRow(p) = row

Mut_OneTurnTooMany(p) ==
  LET s == To(tx[p].key)
      n == taken[s][DayOf(tx[p].at)] IN
  /\ tx[p].phase = "called"
  /\ IF ~Wakes(s) THEN tx' = [tx EXCEPT ![p].phase = "reserved"]
     ELSE /\ ~RowLocked(BudgetRow(p))
          /\ tx' = [tx EXCEPT ![p] =
                      IF n > Cap[s] THEN Closed
                      ELSE [@ EXCEPT !.phase = "reserved", !.count = n + 1]]
  /\ UNCHANGED <<now, sent, taken, listed, active, unusable, stopped, acts>>

\* turns::reserve takes a turn of the recipient's day, or refuses and the
\* caller rolls back.
Reserve(p) ==
  LET s == To(tx[p].key)
      n == taken[s][DayOf(tx[p].at)] IN
  /\ tx[p].phase = "called"
  /\ IF ~Wakes(s) THEN tx' = [tx EXCEPT ![p].phase = "reserved"]
     ELSE /\ ~RowLocked(BudgetRow(p))
          /\ tx' = [tx EXCEPT ![p] =
                      IF n >= Cap[s] THEN Closed
                      ELSE [@ EXCEPT !.phase = "reserved", !.count = n + 1]]
  /\ UNCHANGED <<now, sent, taken, listed, active, unusable, stopped, acts>>

\* A second question to the same colleague is refused while one is pending.
CheckPending(p) ==
  LET k == tx[p].key IN
  /\ tx[p].phase = "reserved"
  /\ tx' = [tx EXCEPT ![p] =
              IF k \in Questions /\ StillPending(k, tx[p].at) THEN Closed
              ELSE [@ EXCEPT !.phase = "clear"]]
  /\ UNCHANGED <<now, sent, taken, listed, active, unusable, stopped, acts>>

\* The insert and the commit.  A key another transaction wrote meanwhile is a
\* duplicate: nothing is written, and the reservation is committed with it.
Commit(p) ==
  LET k == tx[p].key
      s == To(k) IN
  /\ tx[p].phase = "clear"
  /\ sent' = IF Sent(k) THEN sent ELSE [sent EXCEPT ![k] = tx[p].at]
  /\ taken' = IF Wakes(s) THEN [taken EXCEPT ![s][DayOf(tx[p].at)] = tx[p].count]
              ELSE taken
  /\ tx' = [tx EXCEPT ![p] = Closed]
  /\ UNCHANGED <<now, listed, active, unusable, stopped, acts>>

-----------------------------------------------------------------------------
(* The patience loop *)

\* Waited one day and less than two.
Overdue(q) == Open(q) /\ sent[q] + Day <= now /\ now < sent[q] + 2 * Day

Mut_DueADayLater(q) ==
  Open(q) /\ sent[q] + Day < now /\ Sender[q] \in active /\ ~stopped

Due(q) == Overdue(q) /\ Sender[q] \in active /\ ~stopped

\* A tick lists the Batch oldest of what is due, across the tenants: a question
\* whose answer was refused is due still, and is listed first again.
Tick(c) ==
  /\ tx[c] = Closed /\ listed[c] = {}
  /\ LET due == {q \in Questions : Due(q)} IN
     \E B \in SUBSET due \ {{}} :
       /\ B = due \/ Cardinality(B) = Batch
       /\ Cardinality(B) <= Batch
       /\ \A q \in B, r \in due \ B : sent[q] <= sent[r]
       /\ listed' = [listed EXCEPT ![c] = B]
  /\ UNCHANGED <<now, sent, taken, tx, active, unusable, stopped, acts>>

\* answer_for_silence reads the question again in a transaction of its own and
\* answers in the name of the colleague who did not; send refuses an asker
\* whose policy does not load, and the question stays as it was.
AnswerForSilence(c) ==
  /\ tx[c] = Closed
  /\ \E q \in listed[c] :
       /\ listed' = [listed EXCEPT ![c] = @ \ {q}]
       /\ IF Open(q) /\ sent[q] + Day <= now /\ Sender[q] \notin unusable
          THEN Call(c, Silence(q)) ELSE UNCHANGED tx
  /\ UNCHANGED <<now, sent, taken, active, unusable, stopped, acts>>

Send(p) == Reserve(p) \/ CheckPending(p) \/ Commit(p)

Clock(c) == Tick(c) \/ AnswerForSilence(c) \/ Send(c)

-----------------------------------------------------------------------------
(* The rest of the world *)

Act == acts < MaxActs /\ acts' = acts + 1

\* A process dies: its transaction rolls back, a clock forgets its list.
Crash(p) ==
  /\ Act
  /\ tx[p] # Closed \/ (p \in Clocks /\ listed[p] # {})
  /\ tx' = [tx EXCEPT ![p] = Closed]
  /\ listed' = [c \in Clocks |-> IF c = p THEN {} ELSE listed[c]]
  /\ UNCHANGED <<now, sent, taken, active, unusable, stopped>>

\* The seat's own wakes and the mail it is sent take turns of its day.
SpendElsewhere(s) ==
  /\ Act
  /\ taken[s][DayOf(now)] < Cap[s]
  /\ ~RowLocked(<<s, DayOf(now)>>)
  /\ taken' = [taken EXCEPT ![s][DayOf(now)] = @ + 1]
  /\ UNCHANGED <<now, sent, tx, listed, active, unusable, stopped>>

SetLifecycle(s) ==
  /\ Act
  /\ active' = IF s \in active THEN active \ {s} ELSE active \cup {s}
  /\ UNCHANGED <<now, sent, taken, tx, listed, unusable, stopped>>

\* A layer of the seat's policy is written so that none loads, or mended.
SetPolicy(s) ==
  /\ Act
  /\ unusable' = IF s \in unusable THEN unusable \ {s} ELSE unusable \cup {s}
  /\ UNCHANGED <<now, sent, taken, tx, listed, active, stopped>>

SetStop ==
  /\ Act
  /\ stopped' = ~stopped
  /\ UNCHANGED <<now, sent, taken, tx, listed, active, unusable>>

Advance ==
  /\ now < MaxTime
  /\ now' = now + 1
  /\ UNCHANGED <<sent, taken, tx, listed, active, unusable, stopped, acts>>

Next ==
  \/ \E p \in Turns, k \in Decisions : Execute(p, k)
  \/ \E p \in Procs : Send(p) \/ Crash(p)
  \/ \E c \in Clocks : Tick(c) \/ AnswerForSilence(c)
  \/ \E s \in Seats : SpendElsewhere(s) \/ SetLifecycle(s) \/ SetPolicy(s)
  \/ SetStop
  \/ Advance

Spec == Init /\ [][Next]_vars

\* The loop ticks for ever, a transaction ends, and who waits for a row's lock
\* has it in the end; nothing makes an employee answer, and the hours pass as
\* they please.
FairSpec ==
  /\ Spec
  /\ \A p \in Turns : WF_vars(Send(p))
  /\ \A c \in Clocks : WF_vars(Clock(c)) /\ SF_vars(Reserve(c))

-----------------------------------------------------------------------------
(* Properties *)

TypeOK ==
  /\ now \in 0 .. MaxTime
  /\ sent \in [Keys -> 0 .. MaxTime \cup {None}]
  /\ \A s \in Seats : taken[s] \in [0 .. MaxTime \div Day -> 0 .. Cap[s]]
  /\ tx \in [Procs -> [phase : {"none", "called", "reserved", "clear"},
                       key : Keys \cup {None}, at : 0 .. MaxTime, count : Nat]]
  /\ listed \in [Clocks -> SUBSET Questions]
  /\ active \subseteq Seats /\ unusable \subseteq Seats
  /\ stopped \in BOOLEAN
  /\ acts \in 0 .. MaxActs

\* turns::reserve under send: every message that woke a seat on a day is one
\* of the turns taken from that day, and the day's ceiling holds, however many
\* senders, clocks and retries write at once.
EveryWakeIsPaid ==
  \A s \in Seats, d \in 0 .. MaxTime \div Day :
    /\ Wakes(s) => Cardinality({k \in Keys : To(k) = s /\ Sent(k) /\ DayOf(sent[k]) = d})
                     <= taken[s][d]
    /\ taken[s][d] <= Cap[s]

\* Two questions of one asker to one colleague, both open and both younger
\* than the patience.
Crowded(q, r) ==
  /\ q # r /\ Sender[q] = Sender[r] /\ Recipient[q] = Recipient[r]
  /\ Open(q) /\ Open(r)
  /\ sent[q] + Day > now /\ sent[r] + Day > now

\* "One open question per colleague at a time", for a colleague who is woken
\* and questions of one budget day: the budget row's lock orders the check of
\* the second question after the commit of the first.
OneOpenQuestionADay ==
  \A q, r \in Questions :
    (Crowded(q, r) /\ DayOf(sent[q]) = DayOf(sent[r])) => ~Wakes(Recipient[q])

\* The asker cannot be written to: no turn left to be woken with, or no policy.
Refused(s) == s \in unusable \/ (Wakes(s) /\ taken[s][DayOf(now)] >= Cap[s])

\* Refused questions at least as old fill the list of a tick.
PassedOver(q) ==
  Cardinality({r \in Questions \ {q} :
                 Due(r) /\ sent[r] <= sent[q] /\ Refused(Sender[r])}) >= Batch

\* What waited a day is answered, unless two days pass, the asker or the
\* company is stopped, the asker cannot be written to, or refused questions
\* hold the head of the list: no crash, lost race or other replica leaves it
\* to nobody.
SilenceIsAnswered ==
  \A q \in Questions :
    Overdue(q) ~> \/ ~Overdue(q)
                  \/ Sender[q] \notin active
                  \/ stopped
                  \/ Refused(Sender[q])
                  \/ PassedOver(q)
=============================================================================
