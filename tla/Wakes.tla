------------------------------- MODULE Wakes -------------------------------
(* What makes an employee act without being written to: the cadence of      *)
(* store/initiative.rs, the appointments of store/calendar.rs, the loop of  *)
(* loops/initiative.rs that turns both into turns, and the daily turn       *)
(* budget of store/turns.rs that every such turn is paid from.              *)
(*                                                                          *)
(* Times are ticks of one clock; a day is DayLength of them. A loop's claim *)
(* is one transaction of two statements, each of which reads candidates on  *)
(* a snapshot and then locks and rechecks them, so the steps Tick, Ring and *)
(* Claim of one replica interleave with everybody else's commits.           *)
(* Of an outcome only "turn" and "no_turn" are told apart (no charter, no   *)
(* model, no work, no budget, an error), and it is kept for promises only:  *)
(* a seat's last_outcome feeds nothing. What a turn says and does, and the  *)
(* permits of MAX_CONCURRENT_TENANTS, which only delay, are left out.       *)
EXTENDS Naturals, FiniteSets

CONSTANTS
  Companies,
  Seats,          \* employees
  Appointments,   \* rows of appointments, booked or not yet
  CompanyOf,      \* Seats -> Companies
  OwnerOf,        \* Appointments -> Seats
  IdOf,           \* the order of the primary keys, which breaks ties
  Replicas,       \* processes running the loop over one database
  Batch,          \* BATCH
  Headroom,       \* POLLER_HEADROOM
  Delays,         \* the interval, and the interval with its jitter
  DayLength,      \* ticks of a day
  DailyTurns,     \* max_turns_per_day of the effective policy
  Rhythmic,       \* seats that have a cadence
  Hours,          \* the hours a promise is booked for
  MaxTime,        \* bound of the model: the last instant
  MaxEvents       \* bound of the model: crashes, shutdowns, ceilings and acts of others

Items  == Seats \cup Appointments
Never  == MaxTime + 1
Days   == 0..(MaxTime \div DayLength)
Outcomes == {"turn", "no_turn"}
Horizon == MaxTime + MaxTime

ASSUME WakesAssumption ==
  /\ IsFiniteSet(Seats) /\ IsFiniteSet(Appointments) /\ IsFiniteSet(Replicas)
  /\ Seats \cap Appointments = {}
  /\ CompanyOf \in [Seats -> Companies]
  /\ OwnerOf \in [Appointments -> Seats]
  /\ IdOf \in [Items -> Nat]
  /\ \A x, y \in Items : IdOf[x] = IdOf[y] => x = y
  /\ MaxTime \in Nat
  /\ Delays \subseteq 1..MaxTime /\ Delays # {}
  /\ DayLength \in Nat \ {0}
  /\ Batch \in Nat \ {0} /\ Headroom \in Nat \ {0} /\ DailyTurns \in Nat
  /\ Rhythmic \subseteq Seats /\ Hours \subseteq 0..MaxTime
  /\ MaxEvents \in Nat

VARIABLES
  clock,      \* now
  life,       \* employees.lifecycle
  stopped,    \* companies under a halt or past their window
  nextAt,     \* employee_initiative.next_at
  lastClaim,  \* employee_initiative.last_claimed_at
  appt,       \* appointments: at, rang_at, outcome
  taken,      \* turn_buckets
  phase,      \* of a replica's loop
  now,        \* the instant its tick was given
  listed,     \* its candidates, read on a snapshot
  held,       \* appointments it has marked rung and not yet committed
  job,        \* how far it has brought each wake it claimed, then its outcome
  billed,     \* history: model calls, by the day they were reserved on
  rings,      \* history: wakes handed out per appointment
  cancelled,  \* replicas whose cancellation token is set
  events

rows    == <<nextAt, lastClaim, appt>>
company == <<life, stopped>>
loop    == <<phase, now, listed, held, cancelled>>
history == <<billed, rings>>
vars    == <<clock, company, rows, taken, loop, job, history, events>>

Stages == {"none", "queued", "reserved", "running"} \cup Outcomes

TypeOK ==
  /\ clock \in 0..MaxTime
  /\ life \in [Seats -> {"active", "suspended", "terminated"}]
  /\ stopped \subseteq Companies
  /\ nextAt \in [Rhythmic -> 0..Horizon]
  /\ lastClaim \in [Rhythmic -> 0..Never]
  /\ appt \in [Appointments -> [at      : 0..Horizon,
                                booked  : BOOLEAN,
                                rangAt  : 0..Never,
                                outcome : Outcomes \cup {"null", "cancelled"}]]
  /\ taken \in [Seats -> [Days -> 0..DailyTurns]]
  /\ phase \in [Replicas -> {"idle", "ringing", "claiming", "working", "down"}]
  /\ now \in [Replicas -> 0..MaxTime]
  /\ listed \in [Replicas -> SUBSET [item : Items, seat : Nat, at : 0..Horizon]]
  /\ held \in [Replicas -> SUBSET Appointments]
  /\ job \in [Replicas -> [Items -> Stages]]
  /\ billed \in [Seats -> [Days -> Nat]]
  /\ rings \in [Appointments -> Nat]
  /\ cancelled \subseteq Replicas
  /\ events \in 0..MaxEvents

Blank == [at |-> 0, booked |-> FALSE, rangAt |-> Never, outcome |-> "null"]

Init ==
  /\ clock = 0
  /\ life = [s \in Seats |-> "active"]
  /\ stopped = {}
  /\ nextAt \in [Rhythmic -> Delays]
  /\ lastClaim = [s \in Rhythmic |-> Never]
  /\ appt = [a \in Appointments |-> Blank]
  /\ taken = [s \in Seats |-> [d \in Days |-> 0]]
  /\ phase = [r \in Replicas |-> "idle"]
  /\ now = [r \in Replicas |-> 0]
  /\ listed = [r \in Replicas |-> {}]
  /\ held = [r \in Replicas |-> {}]
  /\ job = [r \in Replicas |-> [x \in Items |-> "none"]]
  /\ billed = [s \in Seats |-> [d \in Days |-> 0]]
  /\ rings = [a \in Appointments |-> 0]
  /\ cancelled = {}
  /\ events = 0

-----------------------------------------------------------------------------
(* The rows, as the claims' queries read them.                             *)

SeatOf(x)      == IF x \in Seats THEN x ELSE OwnerOf[x]
Unrung(a)      == appt[a].booked /\ appt[a].rangAt = Never
Locked(a)      == \E r \in Replicas : a \in held[r]
Wakeable(s)    == life[s] = "active" /\ CompanyOf[s] \notin stopped

\* A row as a claim's snapshot lists it: its place in its company's own queue,
\* its deadline and its key, which is the order of every claim.
Candidate(x, n, t) == [item |-> x, seat |-> n, at |-> t]
Before(c, d) ==
  \/ c.seat < d.seat
  \/ /\ c.seat = d.seat
     /\ c.at < d.at \/ (c.at = d.at /\ IdOf[c.item] < IdOf[d.item])
First(S, n) == {c \in S : Cardinality({d \in S : Before(d, c)}) < n}
Keys(S)     == {c.item : c \in S}

\* calendar::claim_due, seated: DISTINCT ON (tenant_id), so the soonest
\* appointment of each company that is due and may be rung.
Mut_CadencedOnly ==
  LET due == {Candidate(a, 1, appt[a].at) : a \in {b \in Appointments :
                Unrung(b) /\ appt[b].at <= clock /\ Wakeable(OwnerOf[b])
                /\ OwnerOf[b] \in Rhythmic}}
  IN {c \in due : \A d \in due :
        CompanyOf[OwnerOf[d.item]] = CompanyOf[OwnerOf[c.item]] => ~Before(d, c)}
SeatedAppointments ==
  LET due == {Candidate(a, 1, appt[a].at) : a \in {b \in Appointments :
                Unrung(b) /\ appt[b].at <= clock /\ Wakeable(OwnerOf[b])}}
  IN {c \in due : \A d \in due :
        CompanyOf[OwnerOf[d.item]] = CompanyOf[OwnerOf[c.item]] => ~Before(d, c)}

\* The recheck under the lock: due asks again only whether it has rung.
Mut_RungUnchecked(r) == {c \in listed[r] : ~Locked(c.item)}
Ringable(r) == {c \in listed[r] : Unrung(c.item) /\ ~Locked(c.item)}

\* initiative::claim_due, seated: who is due, numbered within the company by
\* deadline (row_number), so that the number first is a round robin.
SeatedSeats(t) ==
  LET due == {Candidate(s, 1, nextAt[s]) : s \in {u \in Rhythmic :
                Wakeable(u) /\ nextAt[u] <= t}}
  IN {[c EXCEPT !.seat = 1 + Cardinality({d \in due :
         CompanyOf[d.item] = CompanyOf[c.item] /\ Before(d, c)})] : c \in due}

\* The recheck under the lock: next_at <= $1 again, of the row now locked.
Mut_DueUnchecked(r) == listed[r]
Claimable(r) == {c \in listed[r] : nextAt[c.item] <= now[r]}

\* BATCH - rung.len()
Room(rung) == Batch - Cardinality(rung)

-----------------------------------------------------------------------------
(* tick: the calendar first, the cadence with what room is left.           *)

Tick(r) ==
  /\ phase[r] = "idle"
  /\ phase' = [phase EXCEPT ![r] = "ringing"]
  /\ now' = [now EXCEPT ![r] = clock]
  /\ listed' = [listed EXCEPT ![r] = SeatedAppointments]
  /\ UNCHANGED <<clock, company, rows, taken, held, cancelled, job, history, events>>

\* The appointments are locked, and the second statement takes its snapshot.
Ring(r) ==
  /\ phase[r] = "ringing"
  /\ phase' = [phase EXCEPT ![r] = "claiming"]
  /\ LET rung == Keys(First(Ringable(r), Batch)) IN
     /\ held' = [held EXCEPT ![r] = rung]
     /\ listed' = [listed EXCEPT ![r] =
                     First(SeatedSeats(now[r]), Room(rung) * Headroom)]
  /\ UNCHANGED <<clock, company, rows, taken, now, cancelled, job, history, events>>

\* The UPDATE and the COMMIT: seats rescheduled,
\* appointments marked rung; every claimed wake is queued.
Claim(r) ==
  /\ phase[r] = "claiming"
  /\ LET beats == Keys(First(Claimable(r), Room(held[r]))) IN
     /\ \E next \in [beats -> Delays] :
          nextAt' = [s \in Rhythmic |->
                       IF s \in beats THEN now[r] + next[s] ELSE nextAt[s]]
     /\ lastClaim' = [s \in Rhythmic |-> IF s \in beats THEN now[r] ELSE lastClaim[s]]
     /\ appt' = [a \in Appointments |->
                   IF a \in held[r] THEN [appt[a] EXCEPT !.rangAt = now[r]] ELSE appt[a]]
     /\ rings' = [a \in Appointments |-> IF a \in held[r] THEN rings[a] + 1 ELSE rings[a]]
     /\ job' = [job EXCEPT ![r] = [x \in Items |->
                  IF x \in beats \cup held[r] THEN "queued" ELSE "none"]]
  /\ phase' = [phase EXCEPT ![r] = "working"]
  /\ held' = [held EXCEPT ![r] = {}]
  /\ listed' = [listed EXCEPT ![r] = {}]
  /\ UNCHANGED <<clock, company, taken, now, cancelled, billed, events>>

\* join_next: the next tick waits for every wake of this one; a loop that was
\* told to stop stops here.
Joined(r) ==
  /\ phase[r] = "working"
  /\ \A x \in Items : job[r][x] = "none"
  /\ phase' = [phase EXCEPT ![r] = IF r \in cancelled THEN "down" ELSE "idle"]
  /\ now' = [now EXCEPT ![r] = 0]
  /\ UNCHANGED <<clock, company, rows, taken, listed, held, cancelled, job,
                 history, events>>

-----------------------------------------------------------------------------
(* handle: one wake of the batch, one at a time within a company, the        *)
(* beats before the appointment.                                           *)

Event == events < MaxEvents /\ events' = events + 1

InHand(r, x) == job[r][x] \notin {"none", "queued"}
Front(r, x) ==
  LET kin == {y \in Items \ {x} : CompanyOf[SeatOf(y)] = CompanyOf[SeatOf(x)]} IN
  /\ job[r][x] = "queued"
  /\ \A y \in kin : ~InHand(r, y)
  /\ x \in Appointments => \A y \in kin \cap Seats : job[r][y] = "none"

\* The token is looked at before each wake.
Start(r, x) == Front(r, x) /\ r \notin cancelled

Move(r, x, stage) == job' = [job EXCEPT ![r][x] = stage]
Day(r) == now[r] \div DayLength

\* A slot of the tick's day is taken while there is one.
HasSlot(s, d) == taken[s][d] < DailyTurns

\* assignment_for finds a turn to take (connected() refuses a stopped company)
\* and turns::reserve commits its slot before the model is called.
ReserveATurn(r, x) ==
  LET s == SeatOf(x) IN
  /\ Start(r, x)
  /\ CompanyOf[s] \notin stopped
  /\ HasSlot(s, Day(r))
  /\ taken' = [taken EXCEPT ![s][Day(r)] = @ + 1]
  /\ Move(r, x, "reserved")
  /\ UNCHANGED <<clock, company, rows, loop, history, events>>

\* There is a reason not to, or no slot, or a read or the commit fails.
Decline(r, x) ==
  /\ Start(r, x)
  /\ Move(r, x, "no_turn")
  /\ UNCHANGED <<clock, company, rows, taken, loop, history, events>>

\* take_turn reaches the model.
CallModel(r, x) ==
  /\ job[r][x] = "reserved"
  /\ Move(r, x, "running")
  /\ billed' = [billed EXCEPT ![SeatOf(x)][Day(r)] = @ + 1]
  /\ UNCHANGED <<clock, company, rows, taken, loop, rings, events>>

\* The turn comes back, or fails (a missing credential before the call, the
\* deadline, the provider, the token ledger); its slot stays taken.
Mut_SlotGivenBack(r, x) ==
  /\ job[r][x] \in {"running", "reserved"}
  /\ Move(r, x, "no_turn")
  /\ taken' = [taken EXCEPT ![SeatOf(x)][Day(r)] = @ - 1]
  /\ UNCHANGED <<clock, company, rows, loop, history, events>>
TurnEnds(r, x) ==
  /\ \/ job[r][x] = "running" /\ \E o \in Outcomes : Move(r, x, o)
     \/ job[r][x] = "reserved" /\ Move(r, x, "no_turn")
  /\ UNCHANGED <<clock, company, rows, taken, loop, history, events>>

\* sleep_until and postpone_until of one company, in one transaction. An
\* appointment another transaction holds is waited for.
Sleep(c, until) ==
  LET mine == {a \in Appointments : /\ Unrung(a)
                                    /\ CompanyOf[OwnerOf[a]] = c
                                    /\ appt[a].at < until}
  IN /\ \A a \in mine : ~Locked(a)
     /\ nextAt' = [s \in Rhythmic |->
                     IF CompanyOf[s] = c /\ nextAt[s] < until THEN until ELSE nextAt[s]]
     /\ appt' = [a \in Appointments |->
                   IF a \in mine THEN [appt[a] EXCEPT !.at = until] ELSE appt[a]]

\* The subscription's ceiling: every seat and every promise of the company
\* waits until it lifts, and the wake is an error.
RateLimited(r, x) ==
  /\ job[r][x] = "running"
  /\ Event
  /\ \E until \in (clock + 1)..MaxTime : Sleep(CompanyOf[SeatOf(x)], until)
  /\ Move(r, x, "no_turn")
  /\ UNCHANGED <<clock, company, lastClaim, taken, loop, history>>

\* appointments_outcome_agrees_with_the_clock: the database refuses a word
\* that contradicts the two instants.
Agrees(a, o) == (o = "cancelled") = (appt[a].rangAt < appt[a].at)

\* record: the word goes to the appointment that woke the seat, or is lost
\* with the connection, the commit or the CHECK.
Record(r, x) ==
  LET o == job[r][x] IN
  /\ o \in Outcomes
  /\ \/ UNCHANGED appt
     \/ /\ x \in Appointments /\ Agrees(x, o)
        /\ appt' = [appt EXCEPT ![x].outcome = o]
  /\ Move(r, x, "none")
  /\ UNCHANGED <<clock, company, nextAt, lastClaim, taken, loop, history, events>>

\* Shutdown: the token is set, and the wakes of the batch not started are
\* passed over.
Cancel(r) ==
  /\ r \notin cancelled
  /\ Event
  /\ cancelled' = cancelled \cup {r}
  /\ phase' = [phase EXCEPT ![r] = IF @ = "idle" THEN "down" ELSE @]
  /\ UNCHANGED <<clock, company, rows, taken, now, listed, held, job, history>>

PassOver(r, x) ==
  /\ Front(r, x)
  /\ r \in cancelled
  /\ Move(r, x, "none")
  /\ UNCHANGED <<clock, company, rows, taken, loop, history, events>>

\* The process dies, or only its claim's transaction is lost: an uncommitted
\* claim rings and reschedules nobody, a committed one is not claimed again.
Crash(r) ==
  /\ phase[r] \notin {"idle", "down"}
  /\ Event
  /\ phase' = [phase EXCEPT ![r] = "down"]
  /\ held' = [held EXCEPT ![r] = {}]
  /\ listed' = [listed EXCEPT ![r] = {}]
  /\ job' = [job EXCEPT ![r] = [x \in Items |-> "none"]]
  /\ now' = [now EXCEPT ![r] = 0]
  /\ UNCHANGED <<clock, company, rows, taken, cancelled, history>>

Restart(r) ==
  /\ phase[r] = "down"
  /\ phase' = [phase EXCEPT ![r] = "idle"]
  /\ cancelled' = cancelled \ {r}
  /\ UNCHANGED <<clock, company, rows, taken, now, listed, held, job, history, events>>

-----------------------------------------------------------------------------
(* Everybody else: the clock, the employees' turns and the founder.        *)

Advance ==
  /\ clock < MaxTime
  /\ clock' = clock + 1
  /\ UNCHANGED <<company, rows, taken, loop, job, history, events>>

\* calendar::book_on, of an hour the caller was given.
Book(a, at) ==
  /\ ~appt[a].booked
  /\ appt' = [appt EXCEPT ![a] = [Blank EXCEPT !.at = at, !.booked = TRUE]]
  /\ UNCHANGED <<clock, company, nextAt, lastClaim, taken, loop, job,
                 history, events>>

\* The rows a cancellation settles, and what it writes on them; it waits for
\* the ones a claim holds.
Settled(S) ==
  LET mine == {a \in S : Unrung(a) /\ appt[a].at > clock} IN
  /\ \A a \in mine : ~Locked(a)
  /\ appt' = [a \in Appointments |->
                IF a \in mine
                THEN [appt[a] EXCEPT !.rangAt = clock, !.outcome = "cancelled"]
                ELSE appt[a]]

\* The correspondent answered: cancel_for_conversation.
Reply(a) ==
  /\ Event
  /\ Unrung(a) /\ appt[a].at > clock
  /\ Settled({a})
  /\ UNCHANGED <<clock, company, nextAt, lastClaim, taken, loop, job,
                 history>>

\* set_lifecycle: a terminated seat's outstanding hours are settled with it.
SetLifecycle(s, to) ==
  /\ Event
  /\ life[s] # "terminated" /\ life[s] # to
  /\ life' = [life EXCEPT ![s] = to]
  /\ IF to = "terminated" THEN Settled({a \in Appointments : OwnerOf[a] = s})
                          ELSE UNCHANGED appt
  /\ UNCHANGED <<clock, stopped, nextAt, lastClaim, taken, loop, job,
                 history>>

\* halt::engage and release, or the window's edges.
SetStop(c) ==
  /\ Event
  /\ stopped' = IF c \in stopped THEN stopped \ {c} ELSE stopped \cup {c}
  /\ UNCHANGED <<clock, life, rows, taken, loop, job, history>>

\* initiative::set, of a cadence there was already.
SetCadence(s) ==
  /\ Event
  /\ \E d \in Delays : nextAt' = [nextAt EXCEPT ![s] = clock + d]
  /\ nextAt' # nextAt
  /\ UNCHANGED <<clock, company, lastClaim, appt, taken, loop, job,
                 history>>

\* The other takers of a slot: a message, an interview, a question.
SpendElsewhere(s) ==
  LET d == clock \div DayLength IN
  /\ Event
  /\ HasSlot(s, d)
  /\ taken' = [taken EXCEPT ![s][d] = @ + 1]
  /\ billed' = [billed EXCEPT ![s][d] = @ + 1]
  /\ UNCHANGED <<clock, company, rows, loop, job, rings>>

-----------------------------------------------------------------------------
Wake(r, x) ==
  \/ ReserveATurn(r, x) \/ Decline(r, x)  \/ PassOver(r, x)
  \/ CallModel(r, x)    \/ TurnEnds(r, x) \/ RateLimited(r, x)
  \/ Record(r, x)

Loop(r) ==
  \/ Tick(r) \/ Ring(r) \/ Claim(r) \/ Joined(r) \/ Restart(r)
  \/ \E x \in Items : Wake(r, x)

Others ==
  \/ Advance
  \/ \E a \in Appointments : Reply(a) \/ \E at \in Hours : Book(a, at)
  \/ \E s \in Seats : \/ SpendElsewhere(s)
                     \/ \E to \in {"active", "suspended", "terminated"} : SetLifecycle(s, to)
  \/ \E s \in Rhythmic : SetCadence(s)
  \/ \E c \in Companies : SetStop(c)

Next ==
  \/ \E r \in Replicas : Loop(r) \/ Cancel(r) \/ Crash(r)
  \/ Others

Spec == Init /\ [][Next]_vars

\* A replica that is up takes its next step and one that is down comes back.
FairSpec == Spec /\ WF_vars(Advance) /\ \A r \in Replicas : WF_vars(Loop(r))

-----------------------------------------------------------------------------
(* Properties.                                                             *)

\* No model call is made on a slot the day's budget does not hold, however
\* turns fail, processes die and other reservers race for the row: the slots
\* of a day are never given back (turns::reserve, reserve_a_turn).
TurnsAreFunded ==
  \A s \in Seats, d \in Days :
    billed[s][d] <= taken[s][d] /\ taken[s][d] <= DailyTurns

\* One promise wakes one turn, however many replicas listed it, and a promise
\* that was cancelled wakes none (calendar::claim_due, cancel_outstanding).
RingsOnce ==
  \A a \in Appointments :
    /\ rings[a] <= 1
    /\ appt[a].outcome = "cancelled" => rings[a] = 0

\* Two beats of one seat are an interval apart, whichever replicas claim them
\* and however old the instant they were given (initiative::claim_due).
BeatsApart ==
  [][\A r \in Replicas, s \in Rhythmic :
       job[r][s] = "none" /\ job'[r][s] = "queued" /\ lastClaim[s] # Never
         => \E d \in Delays : lastClaim'[s] >= lastClaim[s] + d]_vars

\* What is due is taken: an hour that has come rings, and a seat whose beat is
\* due is claimed, while the seat is at work and its company is not stopped,
\* whatever else the company owes (calendar::claim_due, initiative::claim_due).
DueIsTaken ==
  /\ \A a \in Appointments :
       Unrung(a) ~> (~Unrung(a) \/ appt[a].at > clock \/ ~Wakeable(OwnerOf[a]))
  /\ \A s \in Rhythmic :
       (nextAt[s] <= clock) ~> (nextAt[s] > clock \/ ~Wakeable(s))
=============================================================================
