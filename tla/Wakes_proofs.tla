---------------------------- MODULE Wakes_proofs ----------------------------
(***************************************************************************)
(* Proofs about Wakes, for any seats, promises, replicas and batches: the  *)
(* model is called on funded slots only, a promise rings once, and two     *)
(* beats of a seat are an interval apart. Each has an invariant of its own *)
(* over the rows it speaks of; they share what a replica's loop is made of. *)
(***************************************************************************)
EXTENDS Wakes, TLAPS, FiniteSetTheorems

-----------------------------------------------------------------------------
(* The loops *)

Instant == 0 .. MaxTime

\* A tick's instant has come, a claim holds promises, and wakes are in hand
\* only between a claim's commit and the next tick.
Loops ==
  /\ clock \in Instant
  /\ now \in [Replicas -> Instant]
  /\ phase \in [Replicas -> {"idle", "ringing", "claiming", "working", "down"}]
  /\ held \in [Replicas -> SUBSET Appointments]
  /\ job \in [Replicas -> [Items -> Stages]]
  /\ DOMAIN listed = Replicas
  /\ \A r \in Replicas : now[r] <= clock
  /\ \A r \in Replicas : phase[r] = "ringing" => Keys(listed[r]) \subseteq Appointments
  /\ \A r \in Replicas : phase[r] # "working" => \A x \in Items : job[r][x] = "none"

LEMMA LoopsInit == Init => Loops
BY WakesAssumption DEF Init, Loops, Instant, Stages

\* The steps that move no loop.
LEMMA LoopsElsewhere ==
  ASSUME Loops, clock' \in Instant, clock' >= clock, UNCHANGED <<now, phase, held, job, listed>>
  PROVE  Loops'
BY WakesAssumption DEF Loops, Instant, Keys

\* The steps of one wake.
LEMMA LoopsMove ==
  ASSUME Loops, NEW r \in Replicas, NEW x \in Items, NEW stage \in Stages,
         job[r][x] # "none", Move(r, x, stage), UNCHANGED <<clock, loop>>
  PROVE  Loops'
<1>1. job' \in [Replicas -> [Items -> Stages]]
  BY DEF Loops, Move
<1>2. ASSUME NEW q \in Replicas, phase[q] # "working", NEW y \in Items
      PROVE  job'[q][y] = "none"
  <2>1. q # r /\ job'[q] = job[q]
    BY <1>2 DEF Loops, Move
  <2>2. QED
    BY <1>2, <2>1 DEF Loops
<1>3. QED
  BY <1>1, <1>2 DEF Loops, loop, Keys

\* What one wake does to its job.
WakeStep(r, x) == \E stage \in Stages : job[r][x] # "none" /\ Move(r, x, stage) /\ stage # "queued"

LEMMA WakeMoves ==
  ASSUME NEW r \in Replicas, NEW x \in Items, Wake(r, x)
  PROVE  WakeStep(r, x) /\ UNCHANGED <<clock, loop>>
BY DEF Wake, WakeStep, ReserveATurn, Decline, PassOver, CallModel, TurnEnds, RateLimited,
       Record, Start, Front, Outcomes, Stages, loop, InHand

LEMMA RungArePromises ==
  ASSUME Loops, NEW r \in Replicas, phase[r] = "ringing"
  PROVE  /\ Keys(First(Ringable(r), Batch)) \subseteq Appointments
         /\ \A a \in Keys(First(Ringable(r), Batch)) : Unrung(a) /\ ~Locked(a)
BY DEF Loops, Keys, First, Ringable

LEMMA SeatedArePromises == Keys(SeatedAppointments) \subseteq Appointments
BY DEF Keys, SeatedAppointments, Candidate

\* The steps of a replica that are none of a wake's.
LEMMA LoopsReplica ==
  ASSUME Loops, NEW r \in Replicas,
         Tick(r) \/ Ring(r) \/ Claim(r) \/ Joined(r) \/ Restart(r) \/ Cancel(r) \/ Crash(r)
  PROVE  Loops'
<1>0. MaxTime \in Nat /\ 0 \in Instant
  BY WakesAssumption DEF Instant
<1>1. CASE Tick(r)
  <2>1. Keys(listed'[r]) \subseteq Appointments
    BY <1>1, SeatedArePromises DEF Tick, Loops
  <2>2. QED
    BY <1>0, <1>1, <2>1 DEF Tick, Loops, Instant, Keys
<1>2. CASE Ring(r)
  <2>1. held' \in [Replicas -> SUBSET Appointments]
    BY <1>2, RungArePromises DEF Ring, Loops
  <2>2. QED
    BY <1>2, <2>1 DEF Ring, Loops, Keys
<1>3. CASE Claim(r)
  <2>1. PICK mine \in [Items -> {"queued", "none"}] : job' = [job EXCEPT ![r] = mine]
    BY <1>3 DEF Claim
  <2>2. job' \in [Replicas -> [Items -> Stages]]
    BY <2>1 DEF Loops, Stages
  <2>3. ASSUME NEW q \in Replicas, phase'[q] # "working", NEW y \in Items
        PROVE  job'[q][y] = "none"
    BY <1>3, <2>1, <2>3 DEF Claim, Loops
  <2>4. /\ clock' = clock /\ now' = now
        /\ phase' = [phase EXCEPT ![r] = "working"]
        /\ held' = [held EXCEPT ![r] = {}]
        /\ listed' = [listed EXCEPT ![r] = {}]
    BY <1>3 DEF Claim
  <2>5. QED
    BY <2>2, <2>3, <2>4 DEF Loops, Keys
<1>4. CASE Joined(r)
  BY <1>0, <1>4 DEF Joined, Loops, Keys, Instant
<1>5. CASE Restart(r)
  BY <1>5 DEF Restart, Loops, Keys
<1>6. CASE Cancel(r)
  BY <1>6 DEF Cancel, Loops, Keys
<1>7. CASE Crash(r)
  <2>1. job' \in [Replicas -> [Items -> Stages]]
    BY <1>7 DEF Crash, Loops, Stages
  <2>2. QED
    BY <1>0, <1>7, <2>1 DEF Crash, Loops, Keys, Instant
<1>8. QED
  BY <1>1, <1>2, <1>3, <1>4, <1>5, <1>6, <1>7

\* Whose step it is.
ReplicaStep(r) ==
  Tick(r) \/ Ring(r) \/ Claim(r) \/ Joined(r) \/ Restart(r) \/ Cancel(r) \/ Crash(r)

LEMMA NextCases ==
  ASSUME [Next]_vars
  PROVE  \/ \E r \in Replicas : ReplicaStep(r)
         \/ \E r \in Replicas, x \in Items : Wake(r, x)
         \/ Others
         \/ UNCHANGED vars
BY DEF Next, Loop, ReplicaStep

LEMMA OthersStayOut ==
  ASSUME Loops, Others
  PROVE  UNCHANGED <<now, phase, held, job, listed>> /\ clock' \in Instant /\ clock' >= clock
<1>0. MaxTime \in Nat
  BY WakesAssumption
<1>1. CASE Advance
  BY <1>0, <1>1 DEF Advance, Loops, Instant, loop
<1>2. CASE ~Advance
  <2>1. UNCHANGED <<clock, loop, job>>
    <3>1. ASSUME NEW a \in Appointments, Reply(a) PROVE UNCHANGED <<clock, loop, job>>
      BY <3>1 DEF Reply
    <3>2. ASSUME NEW a \in Appointments, NEW at \in Hours, Book(a, at)
          PROVE  UNCHANGED <<clock, loop, job>>
      BY <3>2 DEF Book
    <3>3. ASSUME NEW s \in Seats, SpendElsewhere(s) PROVE UNCHANGED <<clock, loop, job>>
      BY <3>3 DEF SpendElsewhere
    <3>4. ASSUME NEW s \in Seats, NEW to, SetLifecycle(s, to)
          PROVE  UNCHANGED <<clock, loop, job>>
      BY <3>4 DEF SetLifecycle
    <3>5. ASSUME NEW s \in Rhythmic, SetCadence(s) PROVE UNCHANGED <<clock, loop, job>>
      BY <3>5 DEF SetCadence
    <3>6. ASSUME NEW c \in Companies, SetStop(c) PROVE UNCHANGED <<clock, loop, job>>
      BY <3>6 DEF SetStop
    <3>7. QED
      BY <1>2, <3>1, <3>2, <3>3, <3>4, <3>5, <3>6 DEF Others
  <2>2. QED
    BY <1>0, <2>1 DEF loop, Loops, Instant
<1>3. QED
  BY <1>1, <1>2

LEMMA LoopsNext == Loops /\ [Next]_vars => Loops'
<1>. SUFFICES ASSUME Loops, [Next]_vars PROVE Loops'
  OBVIOUS
<1>1. ASSUME NEW r \in Replicas, ReplicaStep(r) PROVE Loops'
  BY <1>1, LoopsReplica DEF ReplicaStep
<1>2. ASSUME NEW r \in Replicas, NEW x \in Items, Wake(r, x) PROVE Loops'
  BY <1>2, WakeMoves, LoopsMove DEF WakeStep
<1>3. CASE Others
  BY <1>3, OthersStayOut, LoopsElsewhere
<1>4. CASE UNCHANGED vars
  BY <1>4, LoopsElsewhere DEF vars, loop, Loops, Instant
<1>5. QED
  BY <1>1, <1>2, <1>3, <1>4, NextCases

\* The loops keep to their phases, as above (loops/initiative.rs, tick).
THEOREM LoopsProved == Spec => []Loops
BY LoopsInit, LoopsNext, PTL DEF Spec

-----------------------------------------------------------------------------
(* The beats *)

\* A seat that was claimed is not due again within an interval.
Spaced(s) ==
  \/ lastClaim[s] = Never
  \/ lastClaim[s] <= clock /\ \E d \in Delays : nextAt[s] >= lastClaim[s] + d

Beats ==
  /\ nextAt \in [Rhythmic -> Nat]
  /\ lastClaim \in [Rhythmic -> Nat]
  /\ \A s \in Rhythmic : Spaced(s)

LEMMA DelaysAreNat == Delays \subseteq Nat /\ Never \in Nat /\ MaxTime \in Nat
BY WakesAssumption DEF Never

LEMMA BeatsInit == Init => Beats
<1>. SUFFICES ASSUME Init PROVE Beats
  OBVIOUS
<1>1. nextAt \in [Rhythmic -> Delays] /\ lastClaim = [s \in Rhythmic |-> Never]
  BY DEF Init
<1>2. nextAt \in [Rhythmic -> Nat] /\ lastClaim \in [Rhythmic -> Nat]
  BY <1>1, DelaysAreNat
<1>3. QED
  BY <1>1, <1>2 DEF Beats, Spaced

\* Time passes, and a deadline moves only away.
LEMMA BeatsLater ==
  ASSUME Beats, Loops, nextAt' \in [Rhythmic -> Nat], clock' \in Nat, clock' >= clock,
         UNCHANGED lastClaim,
         \A s \in Rhythmic : nextAt'[s] >= nextAt[s]
  PROVE  Beats'
<1>1. SUFFICES ASSUME NEW s \in Rhythmic PROVE Spaced(s)'
  BY DEF Beats
<1>2. CASE lastClaim[s] = Never
  BY <1>2 DEF Spaced
<1>3. CASE lastClaim[s] # Never
  <2>1. PICK d \in Delays : lastClaim[s] <= clock /\ nextAt[s] >= lastClaim[s] + d
    BY <1>3 DEF Beats, Spaced
  <2>2. /\ clock \in Nat /\ lastClaim[s] \in Nat /\ d \in Nat
        /\ nextAt[s] \in Nat /\ nextAt'[s] \in Nat
    BY DelaysAreNat DEF Beats, Loops, Instant
  <2>3. lastClaim[s] <= clock' /\ nextAt'[s] >= lastClaim[s] + d
    BY <2>1, <2>2
  <2>4. QED
    BY <2>3 DEF Spaced
<1>4. QED
  BY <1>2, <1>3

\* A claim takes the seats that are due at its instant and reschedules them.
LEMMA BeatsClaim ==
  ASSUME Beats, Loops, NEW r \in Replicas, Claim(r)
  PROVE  /\ Beats'
         /\ \A s \in Rhythmic : job'[r][s] = "queued" =>
              lastClaim'[s] = now[r] /\ nextAt[s] <= now[r]
         /\ \A q \in Replicas \ {r} : job'[q] = job[q]
<1>. DEFINE beats == Keys(First(Claimable(r), Room(held[r])))
<1>1. PICK next \in [beats -> Delays] :
        nextAt' = [s \in Rhythmic |-> IF s \in beats THEN now[r] + next[s] ELSE nextAt[s]]
  BY DEF Claim
<1>2. /\ lastClaim' = [s \in Rhythmic |-> IF s \in beats THEN now[r] ELSE lastClaim[s]]
      /\ job' = [job EXCEPT ![r] = [x \in Items |->
                   IF x \in beats \cup held[r] THEN "queued" ELSE "none"]]
      /\ clock' = clock
  BY DEF Claim
<1>3. \A s \in beats : nextAt[s] <= now[r]
  BY DEF Keys, First, Claimable
<1>. HIDE DEF beats
<1>4. now[r] \in Nat /\ clock \in Nat /\ now[r] <= clock
  BY DelaysAreNat DEF Loops, Instant
<1>5. Beats'
  <2>1. ASSUME NEW s \in Rhythmic, s \in beats
        PROVE  /\ next[s] \in Delays /\ next[s] \in Nat
               /\ nextAt'[s] = now[r] + next[s] /\ lastClaim'[s] = now[r]
    BY <1>1, <1>2, <2>1, DelaysAreNat
  <2>2. ASSUME NEW s \in Rhythmic, s \notin beats
        PROVE  nextAt'[s] = nextAt[s] /\ lastClaim'[s] = lastClaim[s]
    BY <1>1, <1>2, <2>2
  <2>3. \A s \in Rhythmic : nextAt'[s] \in Nat /\ lastClaim'[s] \in Nat
    BY <1>4, <2>1, <2>2 DEF Beats
  <2>4. nextAt' \in [Rhythmic -> Nat] /\ lastClaim' \in [Rhythmic -> Nat]
    BY <1>1, <1>2, <2>3
  <2>5. ASSUME NEW s \in Rhythmic PROVE Spaced(s)'
    <3>1. CASE s \in beats
      <4>1. nextAt'[s] >= lastClaim'[s] + next[s] /\ lastClaim'[s] <= clock'
        BY <1>2, <1>4, <2>1, <3>1
      <4>2. QED
        BY <2>1, <3>1, <4>1 DEF Spaced
    <3>2. CASE s \notin beats
      BY <1>2, <2>2, <3>2 DEF Beats, Spaced
    <3>3. QED
      BY <3>1, <3>2
  <2>6. QED
    BY <2>4, <2>5 DEF Beats
<1>6. ASSUME NEW s \in Rhythmic, job'[r][s] = "queued" PROVE s \in beats
  <2>1. s \in Items /\ s \notin held[r]
    BY WakesAssumption DEF Loops, Items
  <2>2. QED
    BY <1>2, <1>6, <2>1 DEF Loops
<1>7. \A q \in Replicas \ {r} : job'[q] = job[q]
  BY <1>2 DEF Loops
<1>8. QED
  BY <1>2, <1>3, <1>5, <1>6, <1>7

\* The ceiling moves a deadline to a later instant, if it moves it.
LEMMA BeatsSleep ==
  ASSUME Beats, Loops, NEW c, NEW until \in Nat, Sleep(c, until), UNCHANGED <<clock, lastClaim>>
  PROVE  Beats'
<1>1. nextAt' = [s \in Rhythmic |->
                   IF CompanyOf[s] = c /\ nextAt[s] < until THEN until ELSE nextAt[s]]
  BY DEF Sleep
<1>2. nextAt' \in [Rhythmic -> Nat] /\ \A s \in Rhythmic : nextAt'[s] >= nextAt[s]
  BY <1>1 DEF Beats
<1>3. clock' \in Nat /\ clock' >= clock
  BY DelaysAreNat DEF Loops, Instant
<1>4. QED
  BY <1>2, <1>3, BeatsLater

LEMMA BeatsCadence ==
  ASSUME Beats, Loops, NEW s \in Rhythmic, SetCadence(s)
  PROVE  Beats'
<1>1. PICK d \in Delays : nextAt' = [nextAt EXCEPT ![s] = clock + d]
  BY DEF SetCadence
<1>2. clock \in Nat /\ d \in Nat /\ UNCHANGED <<clock, lastClaim>>
  BY DelaysAreNat DEF Loops, Instant, SetCadence
<1>3. nextAt' \in [Rhythmic -> Nat]
  BY <1>1, <1>2 DEF Beats
<1>4. ASSUME NEW u \in Rhythmic PROVE Spaced(u)'
  <2>1. CASE u = s
    <3>1. nextAt'[s] = clock + d /\ lastClaim[s] \in Nat
      BY <1>1 DEF Beats
    <3>2. lastClaim[s] = Never \/ lastClaim[s] <= clock
      BY DEF Beats, Spaced
    <3>3. lastClaim[s] <= clock => nextAt'[s] >= lastClaim[s] + d
      BY <1>2, <3>1
    <3>4. QED
      BY <1>2, <2>1, <3>2, <3>3 DEF Spaced
  <2>2. CASE u # s
    BY <1>1, <1>2, <2>2 DEF Beats, Spaced
  <2>3. QED
    BY <2>1, <2>2
<1>5. QED
  BY <1>2, <1>3, <1>4 DEF Beats

LEMMA BeatsNext == Beats /\ Loops /\ [Next]_vars => Beats'
<1>. SUFFICES ASSUME Beats, Loops, [Next]_vars PROVE Beats'
  OBVIOUS
<1>0. clock \in Nat
  BY DelaysAreNat DEF Loops, Instant
<1>1. CASE UNCHANGED <<nextAt, lastClaim, clock>>
  BY <1>1 DEF Beats, Spaced
<1>2. ASSUME NEW r \in Replicas, ReplicaStep(r) PROVE Beats'
  <2>1. CASE Claim(r)
    BY <2>1, BeatsClaim
  <2>2. CASE ~Claim(r)
    BY <1>1, <1>2, <2>2
    DEF ReplicaStep, Tick, Ring, Joined, Restart, Cancel, Crash, rows
  <2>3. QED
    BY <2>1, <2>2
<1>3. ASSUME NEW r \in Replicas, NEW x \in Items, Wake(r, x) PROVE Beats'
  <2>1. CASE RateLimited(r, x)
    <3>1. PICK until \in (clock + 1) .. MaxTime : Sleep(CompanyOf[SeatOf(x)], until)
      BY <2>1 DEF RateLimited
    <3>2. until \in Nat /\ UNCHANGED <<clock, lastClaim>>
      BY <1>0, <2>1, DelaysAreNat DEF RateLimited
    <3>3. QED
      BY <3>1, <3>2, BeatsSleep
  <2>2. CASE ~RateLimited(r, x)
    BY <1>1, <1>3, <2>2
    DEF Wake, ReserveATurn, Decline, PassOver, CallModel, TurnEnds, Record, rows
  <2>3. QED
    BY <2>1, <2>2
<1>4. CASE Others
  <2>1. CASE Advance
    <3>1. UNCHANGED <<nextAt, lastClaim>> /\ clock' = clock + 1
      BY <2>1 DEF Advance, rows
    <3>2. QED
      BY <1>0, <3>1, BeatsLater DEF Beats
  <2>2. ASSUME NEW a \in Appointments, Reply(a) PROVE Beats'
    BY <1>1, <2>2 DEF Reply
  <2>3. ASSUME NEW a \in Appointments, NEW at \in Hours, Book(a, at) PROVE Beats'
    BY <1>1, <2>3 DEF Book
  <2>4. ASSUME NEW s \in Seats, SpendElsewhere(s) PROVE Beats'
    BY <1>1, <2>4 DEF SpendElsewhere, rows
  <2>5. ASSUME NEW s \in Seats, NEW to, SetLifecycle(s, to) PROVE Beats'
    BY <1>1, <2>5 DEF SetLifecycle
  <2>6. ASSUME NEW s \in Rhythmic, SetCadence(s) PROVE Beats'
    BY <2>6, BeatsCadence
  <2>7. ASSUME NEW c \in Companies, SetStop(c) PROVE Beats'
    BY <1>1, <2>7 DEF SetStop, rows
  <2>8. QED
    BY <1>4, <2>1, <2>2, <2>3, <2>4, <2>5, <2>6, <2>7 DEF Others
<1>5. CASE UNCHANGED vars
  BY <1>1, <1>5 DEF vars, rows
<1>6. QED
  BY <1>2, <1>3, <1>4, <1>5, NextCases

\* Only a claim queues a wake.
LEMMA OnlyClaimsQueue ==
  ASSUME Loops, [Next]_vars, NEW r \in Replicas, NEW x \in Items,
         job[r][x] = "none", job'[r][x] = "queued"
  PROVE  \E q \in Replicas : Claim(q)
<1>1. ASSUME NEW q \in Replicas, ReplicaStep(q), ~Claim(q) PROVE FALSE
  <2>1. CASE Crash(q)
    BY <2>1 DEF Crash, Loops
  <2>2. CASE ~Crash(q)
    BY <1>1, <2>2 DEF ReplicaStep, Tick, Ring, Joined, Restart, Cancel
  <2>3. QED
    BY <2>1, <2>2
<1>2. ASSUME NEW q \in Replicas, NEW y \in Items, Wake(q, y) PROVE FALSE
  <2>1. PICK stage \in Stages : Move(q, y, stage) /\ stage # "queued"
    BY <1>2, WakeMoves DEF WakeStep
  <2>2. QED
    BY <2>1 DEF Move, Loops
<1>3. CASE Others
  BY <1>3, OthersStayOut
<1>4. CASE UNCHANGED vars
  BY <1>4 DEF vars
<1>5. QED
  BY <1>1, <1>2, <1>3, <1>4, NextCases

LEMMA StepsAreApart ==
  ASSUME Beats, Loops, [Next]_vars, NEW r \in Replicas, NEW s \in Rhythmic,
         job[r][s] = "none", job'[r][s] = "queued", lastClaim[s] # Never
  PROVE  \E d \in Delays : lastClaim'[s] >= lastClaim[s] + d
<1>1. s \in Items
  BY WakesAssumption DEF Items
<1>2. PICK q \in Replicas : Claim(q)
  BY <1>1, OnlyClaimsQueue
<1>3. q = r
  BY <1>2, BeatsClaim
<1>4. lastClaim'[s] = now[r] /\ nextAt[s] <= now[r]
  BY <1>2, <1>3, BeatsClaim
<1>5. PICK d \in Delays : nextAt[s] >= lastClaim[s] + d
  BY DEF Beats, Spaced
<1>6. lastClaim[s] \in Nat /\ nextAt[s] \in Nat /\ now[r] \in Nat /\ d \in Nat
  BY DelaysAreNat DEF Beats, Loops, Instant
<1>7. QED
  BY <1>4, <1>5, <1>6

\* Two beats of one seat are an interval apart (initiative::claim_due): what a
\* claim rescheduled is not due at any replica's instant before that.
THEOREM BeatsAreApart == Spec => BeatsApart
<1>1. Beats /\ Loops /\ [Next]_vars =>
        [\A r \in Replicas, s \in Rhythmic :
           job[r][s] = "none" /\ job'[r][s] = "queued" /\ lastClaim[s] # Never
             => \E d \in Delays : lastClaim'[s] >= lastClaim[s] + d]_vars
  BY StepsAreApart
<1>2. QED
  BY <1>1, LoopsProved, BeatsInit, BeatsNext, PTL DEF Spec, BeatsApart

-----------------------------------------------------------------------------
(* The promises *)

\* A promise that has not rung has woken nobody, and no more has a cancelled one.
Rung(a) ==
  /\ rings[a] \in 0 .. 1
  /\ ~appt[a].booked \/ appt[a].rangAt = Never => rings[a] = 0
  /\ appt[a].outcome = "cancelled" => rings[a] = 0 /\ appt[a].rangAt # Never

\* A promise is held by one claim, which will ring it.
Promises ==
  /\ DOMAIN appt = Appointments
  /\ \A a \in Appointments :
       appt[a] = [at      |-> appt[a].at,     booked  |-> appt[a].booked,
                  rangAt  |-> appt[a].rangAt, outcome |-> appt[a].outcome]
  /\ DOMAIN rings = Appointments
  /\ \A a \in Appointments : Rung(a)
  /\ \A r \in Replicas : \A a \in held[r] : Unrung(a)
  /\ \A q, r \in Replicas : q # r => held[q] \cap held[r] = {}

LEMMA PromisesInit == Init => Promises
<1>. SUFFICES ASSUME Init PROVE Promises
  OBVIOUS
<1>1. \A a \in Appointments : appt[a] = Blank /\ rings[a] = 0
  BY DEF Init
<1>2. \A r \in Replicas : held[r] = {}
  BY DEF Init
<1>3. DOMAIN appt = Appointments /\ DOMAIN rings = Appointments
  BY DEF Init
<1>4. ASSUME NEW a \in Appointments
      PROVE  /\ Rung(a)
             /\ appt[a] = [at      |-> appt[a].at,     booked  |-> appt[a].booked,
                           rangAt  |-> appt[a].rangAt, outcome |-> appt[a].outcome]
  BY <1>1 DEF Rung, Blank
<1>5. QED
  BY <1>2, <1>3, <1>4 DEF Promises

LEMMA PromisesStill ==
  ASSUME Promises, UNCHANGED <<appt, rings, held>> PROVE Promises'
BY DEF Promises, Rung, Unrung

\* The rows that are written are not held, and what is written rings nobody.
LEMMA PromisesWritten ==
  ASSUME Promises, Loops, UNCHANGED <<rings, held>>,
         DOMAIN appt' = Appointments,
         \A a \in Appointments :
           \/ appt'[a] = appt[a]
           \/ \E at, booked, rangAt, outcome :
                /\ appt'[a] = [at |-> at, booked |-> booked,
                               rangAt |-> rangAt, outcome |-> outcome]
                /\ \/ booked = appt[a].booked /\ rangAt = appt[a].rangAt
                   \/ ~Locked(a) /\ rings[a] = 0
                /\ outcome = "cancelled" => rings[a] = 0 /\ rangAt # Never
  PROVE  Promises'
<1>1. ASSUME NEW a \in Appointments
      PROVE  /\ Rung(a)'
             /\ appt'[a] = [at      |-> appt'[a].at,     booked  |-> appt'[a].booked,
                            rangAt  |-> appt'[a].rangAt, outcome |-> appt'[a].outcome]
  BY DEF Promises, Rung
<1>2. ASSUME NEW r \in Replicas, NEW a \in held'[r] PROVE Unrung(a)'
  <2>1. a \in held[r] /\ a \in Appointments /\ Locked(a)
    BY <1>2 DEF Loops, Locked
  <2>2. appt'[a].booked = appt[a].booked /\ appt'[a].rangAt = appt[a].rangAt
    BY <2>1
  <2>3. QED
    BY <2>1, <2>2 DEF Promises, Unrung
<1>3. QED
  BY <1>1, <1>2 DEF Promises

\* A claim locks promises nobody else holds.
LEMMA PromisesRing ==
  ASSUME Promises, Loops, NEW r \in Replicas, Ring(r) PROVE Promises'
<1>. DEFINE rung == Keys(First(Ringable(r), Batch))
<1>1. UNCHANGED <<appt, rings>> /\ held' = [held EXCEPT ![r] = rung] /\ phase[r] = "ringing"
  BY DEF Ring, rows, history
<1>2. \A a \in rung : Unrung(a) /\ ~Locked(a)
  BY <1>1, RungArePromises
<1>. HIDE DEF rung
<1>3. \A q \in Replicas : held'[q] = IF q = r THEN rung ELSE held[q]
  BY <1>1 DEF Loops
<1>4. \A q \in Replicas \ {r} : held[q] \cap rung = {}
  BY <1>2 DEF Locked
<1>5. \A q \in Replicas : \A a \in held'[q] : Unrung(a)
  BY <1>2, <1>3 DEF Promises
<1>6. \A p, q \in Replicas : p # q => held'[p] \cap held'[q] = {}
  BY <1>3, <1>4 DEF Promises
<1>7. QED
  BY <1>1, <1>5, <1>6 DEF Promises, Rung, Unrung

\* It commits: what it held has rung, once.
LEMMA PromisesClaim ==
  ASSUME Promises, Loops, NEW r \in Replicas, Claim(r) PROVE Promises'
<1>1. /\ appt' = [a \in Appointments |->
                    IF a \in held[r] THEN [appt[a] EXCEPT !.rangAt = now[r]] ELSE appt[a]]
      /\ rings' = [a \in Appointments |-> IF a \in held[r] THEN rings[a] + 1 ELSE rings[a]]
      /\ held' = [held EXCEPT ![r] = {}]
  BY DEF Claim
<1>2. now[r] # Never
  BY DelaysAreNat DEF Loops, Instant, Never
<1>3. ASSUME NEW a \in Appointments
      PROVE  /\ Rung(a)'
             /\ appt'[a] = [at      |-> appt'[a].at,     booked  |-> appt'[a].booked,
                            rangAt  |-> appt'[a].rangAt, outcome |-> appt'[a].outcome]
  <2>1. CASE a \in held[r]
    <3>1. Unrung(a) /\ rings[a] = 0 /\ appt[a].outcome # "cancelled"
      BY <2>1 DEF Promises, Rung, Unrung
    <3>2. appt'[a] = [at |-> appt[a].at, booked |-> appt[a].booked,
                      rangAt |-> now[r], outcome |-> appt[a].outcome]
      BY <1>1, <2>1 DEF Promises
    <3>3. rings'[a] = 1
      BY <1>1, <2>1, <3>1
    <3>4. QED
      BY <1>2, <3>1, <3>2, <3>3 DEF Rung, Unrung
  <2>2. CASE a \notin held[r]
    BY <1>1, <2>2 DEF Promises, Rung
  <2>3. QED
    BY <2>1, <2>2
<1>4. \A q \in Replicas : held'[q] = IF q = r THEN {} ELSE held[q]
  BY <1>1 DEF Loops
<1>5. ASSUME NEW q \in Replicas, NEW a \in held'[q] PROVE Unrung(a)'
  <2>1. q # r /\ a \in held[q] /\ a \in Appointments /\ a \notin held[r]
    BY <1>4, <1>5 DEF Promises, Loops
  <2>2. appt'[a] = appt[a]
    BY <1>1, <2>1
  <2>3. QED
    BY <2>1, <2>2 DEF Promises, Unrung
<1>6. \A p, q \in Replicas : p # q => held'[p] \cap held'[q] = {}
  BY <1>4 DEF Promises
<1>7. QED
  BY <1>1, <1>3, <1>5, <1>6 DEF Promises

LEMMA PromisesReplica ==
  ASSUME Promises, Loops, NEW r \in Replicas, ReplicaStep(r) PROVE Promises'
<1>1. CASE Ring(r)
  BY <1>1, PromisesRing
<1>2. CASE Claim(r)
  BY <1>2, PromisesClaim
<1>3. CASE Crash(r)
  <2>1. UNCHANGED <<appt, rings>> /\ held' = [held EXCEPT ![r] = {}]
    BY <1>3 DEF Crash, rows, history
  <2>2. QED
    BY <2>1 DEF Promises, Loops, Rung, Unrung
<1>4. CASE Tick(r) \/ Joined(r) \/ Restart(r) \/ Cancel(r)
  BY <1>4, PromisesStill DEF Tick, Joined, Restart, Cancel, rows, history
<1>5. QED
  BY <1>1, <1>2, <1>3, <1>4 DEF ReplicaStep

\* The ceiling waits for the promises a claim holds, and moves their hour only.
LEMMA PromisesSleep ==
  ASSUME Promises, Loops, NEW c, NEW until, Sleep(c, until), UNCHANGED <<rings, held>>
  PROVE  Promises'
<1>. DEFINE mine == {a \in Appointments : Unrung(a) /\ CompanyOf[OwnerOf[a]] = c
                                          /\ appt[a].at < until}
<1>1. /\ \A a \in mine : ~Locked(a)
      /\ appt' = [a \in Appointments |->
                    IF a \in mine THEN [appt[a] EXCEPT !.at = until] ELSE appt[a]]
  BY DEF Sleep
<1>2. \A a \in mine : Unrung(a)
  OBVIOUS
<1>. HIDE DEF mine
<1>3. ASSUME NEW a \in Appointments, a \in mine
      PROVE  /\ appt'[a] = [at |-> until, booked |-> appt[a].booked,
                            rangAt |-> appt[a].rangAt, outcome |-> appt[a].outcome]
             /\ ~Locked(a) /\ rings[a] = 0 /\ appt[a].outcome # "cancelled"
  <2>1. appt'[a] = [appt[a] EXCEPT !.at = until]
    BY <1>1, <1>3
  <2>2. appt'[a] = [at |-> until, booked |-> appt[a].booked,
                    rangAt |-> appt[a].rangAt, outcome |-> appt[a].outcome]
    BY <2>1 DEF Promises
  <2>3. QED
    BY <1>1, <1>2, <1>3, <2>2 DEF Promises, Rung, Unrung
<1>4. \A a \in Appointments \ mine : appt'[a] = appt[a]
  BY <1>1
<1>5. DOMAIN appt' = Appointments
  BY <1>1
<1>6. QED
  BY <1>3, <1>4, <1>5, PromisesWritten

\* A cancellation waits for them too, and settles what has not rung.
LEMMA PromisesSettled ==
  ASSUME Promises, Loops, NEW S \in SUBSET Appointments, Settled(S), UNCHANGED <<rings, held>>
  PROVE  Promises'
<1>. DEFINE mine == {a \in S : Unrung(a) /\ appt[a].at > clock}
<1>1. /\ \A a \in mine : ~Locked(a)
      /\ appt' = [a \in Appointments |->
                    IF a \in mine
                    THEN [appt[a] EXCEPT !.rangAt = clock, !.outcome = "cancelled"]
                    ELSE appt[a]]
  BY DEF Settled
<1>2. \A a \in mine : Unrung(a)
  OBVIOUS
<1>. HIDE DEF mine
<1>3. clock # Never
  BY DelaysAreNat DEF Loops, Instant, Never
<1>4. ASSUME NEW a \in Appointments, a \in mine
      PROVE  /\ appt'[a] = [at |-> appt[a].at, booked |-> appt[a].booked,
                            rangAt |-> clock, outcome |-> "cancelled"]
             /\ ~Locked(a) /\ rings[a] = 0
  <2>1. appt'[a] = [appt[a] EXCEPT !.rangAt = clock, !.outcome = "cancelled"]
    BY <1>1, <1>4
  <2>2. appt'[a] = [at |-> appt[a].at, booked |-> appt[a].booked,
                    rangAt |-> clock, outcome |-> "cancelled"]
    BY <2>1 DEF Promises
  <2>3. QED
    BY <1>1, <1>2, <1>4, <2>2 DEF Promises, Rung, Unrung
<1>5. \A a \in Appointments \ mine : appt'[a] = appt[a]
  BY <1>1
<1>6. DOMAIN appt' = Appointments
  BY <1>1
<1>7. QED
  BY <1>3, <1>4, <1>5, <1>6, PromisesWritten

\* The word on how a wake ended rings nothing and unrings nothing.
LEMMA PromisesRecord ==
  ASSUME Promises, Loops, NEW r \in Replicas, NEW x \in Items, Record(r, x)
  PROVE  Promises'
<1>1. UNCHANGED <<rings, held>>
  BY DEF Record, loop, history
<1>2. CASE UNCHANGED appt
  BY <1>1, <1>2, PromisesStill
<1>3. CASE ~UNCHANGED appt
  <2>1. PICK o \in Outcomes : x \in Appointments /\ appt' = [appt EXCEPT ![x].outcome = o]
    BY <1>3 DEF Record
  <2>2. o # "cancelled"
    BY DEF Outcomes
  <2>3. DOMAIN appt' = Appointments /\ \A a \in Appointments \ {x} : appt'[a] = appt[a]
    BY <2>1 DEF Promises
  <2>4. appt'[x] = [appt[x] EXCEPT !.outcome = o]
    BY <2>1 DEF Promises
  <2>5. appt'[x] = [at |-> appt[x].at, booked |-> appt[x].booked,
                    rangAt |-> appt[x].rangAt, outcome |-> o]
    BY <2>1, <2>4 DEF Promises
  <2>6. QED
    BY <1>1, <2>2, <2>3, <2>5, PromisesWritten
<1>4. QED
  BY <1>2, <1>3

LEMMA PromisesBook ==
  ASSUME Promises, Loops, NEW x \in Appointments, NEW at \in Hours, Book(x, at)
  PROVE  Promises'
<1>1. UNCHANGED <<rings, held>>
  BY DEF Book, loop, history
<1>2. rings[x] = 0 /\ ~Locked(x)
  BY DEF Book, Promises, Rung, Locked, Unrung
<1>3. appt' = [appt EXCEPT ![x] = [Blank EXCEPT !.at = at, !.booked = TRUE]]
  BY DEF Book
<1>4. appt'[x] = [at |-> at, booked |-> TRUE, rangAt |-> Never, outcome |-> "null"]
  BY <1>3 DEF Promises, Blank
<1>5. DOMAIN appt' = Appointments /\ \A a \in Appointments \ {x} : appt'[a] = appt[a]
  BY <1>3 DEF Promises
<1>6. QED
  BY <1>1, <1>2, <1>4, <1>5, PromisesWritten

LEMMA PromisesOthers == ASSUME Promises, Loops, Others PROVE Promises'
<1>1. CASE Advance
  BY <1>1, PromisesStill DEF Advance, rows, loop, history
<1>2. ASSUME NEW a \in Appointments, Reply(a) PROVE Promises'
  <2>1. Settled({a}) /\ UNCHANGED <<rings, held>>
    BY <1>2 DEF Reply, loop, history
  <2>2. QED
    BY <2>1, PromisesSettled
<1>3. ASSUME NEW a \in Appointments, NEW at \in Hours, Book(a, at) PROVE Promises'
  BY <1>3, PromisesBook
<1>4. ASSUME NEW s \in Seats, SpendElsewhere(s) PROVE Promises'
  BY <1>4, PromisesStill DEF SpendElsewhere, rows, loop
<1>5. ASSUME NEW s \in Seats, NEW to, SetLifecycle(s, to) PROVE Promises'
  <2>1. UNCHANGED <<rings, held>>
    BY <1>5 DEF SetLifecycle, loop, history
  <2>2. UNCHANGED appt \/ Settled({a \in Appointments : OwnerOf[a] = s})
    BY <1>5 DEF SetLifecycle
  <2>3. QED
    BY <2>1, <2>2, PromisesStill, PromisesSettled
<1>6. ASSUME NEW s \in Rhythmic, SetCadence(s) PROVE Promises'
  BY <1>6, PromisesStill DEF SetCadence, loop, history
<1>7. ASSUME NEW c \in Companies, SetStop(c) PROVE Promises'
  BY <1>7, PromisesStill DEF SetStop, rows, loop, history
<1>8. QED
  BY <1>1, <1>2, <1>3, <1>4, <1>5, <1>6, <1>7 DEF Others

LEMMA PromisesNext == Promises /\ Loops /\ [Next]_vars => Promises'
<1>. SUFFICES ASSUME Promises, Loops, [Next]_vars PROVE Promises'
  OBVIOUS
<1>1. ASSUME NEW r \in Replicas, NEW x \in Items, Wake(r, x) PROVE Promises'
  <2>1. CASE RateLimited(r, x)
    <3>1. PICK until : Sleep(CompanyOf[SeatOf(x)], until)
      BY <2>1 DEF RateLimited
    <3>2. UNCHANGED <<rings, held>>
      BY <2>1 DEF RateLimited, loop, history
    <3>3. QED
      BY <3>1, <3>2, PromisesSleep
  <2>2. CASE Record(r, x)
    BY <2>2, PromisesRecord
  <2>3. CASE ~RateLimited(r, x) /\ ~Record(r, x)
    BY <1>1, <2>3, PromisesStill
    DEF Wake, ReserveATurn, Decline, PassOver, CallModel, TurnEnds, rows, loop, history
  <2>4. QED
    BY <2>1, <2>2, <2>3
<1>2. CASE UNCHANGED vars
  BY <1>2, PromisesStill DEF vars, rows, loop, history
<1>3. QED
  BY <1>1, <1>2, PromisesReplica, PromisesOthers, NextCases

\* One promise wakes one turn and a cancelled one wakes none
\* (calendar::claim_due, cancel_outstanding): held by one claim, it is unrung.
THEOREM PromisesRingOnce == Spec => []RingsOnce
<1>1. Promises => RingsOnce
  BY DEF Promises, Rung, RingsOnce
<1>2. QED
  BY <1>1, LoopsProved, PromisesInit, PromisesNext, PTL DEF Spec

-----------------------------------------------------------------------------
(* The turns *)

\* The wakes that hold a slot of a seat's day and have not reached the model.
Pending(s, d) ==
  {w \in Replicas \X Items :
     job[w[1]][w[2]] = "reserved" /\ SeatOf(w[2]) = s /\ Day(w[1]) = d}

\* A slot taken is a call made, a call still to be made or a call forgone.
Funded(s, d) ==
  /\ taken[s][d] \in Nat /\ taken[s][d] <= DailyTurns
  /\ billed[s][d] \in Nat
  /\ billed[s][d] + Cardinality(Pending(s, d)) <= taken[s][d]

Turns ==
  /\ taken \in [Seats -> [Days -> Nat]]
  /\ billed \in [Seats -> [Days -> Nat]]
  /\ \A s \in Seats, d \in Days : Funded(s, d)

LEMMA PendingIsFinite ==
  ASSUME NEW s, NEW d PROVE IsFiniteSet(Pending(s, d)) /\ Cardinality(Pending(s, d)) \in Nat
<1>1. IsFiniteSet(Items) /\ IsFiniteSet(Replicas)
  BY WakesAssumption, FS_Union DEF Items
<1>2. IsFiniteSet(Replicas \X Items)
  BY <1>1, FS_Product
<1>3. Pending(s, d) \subseteq Replicas \X Items
  BY DEF Pending
<1>4. QED
  BY <1>2, <1>3, FS_Subset, FS_CardinalityType

LEMMA TurnsInit == Init => Turns
<1>. SUFFICES ASSUME Init PROVE Turns
  OBVIOUS
<1>1. /\ taken = [s \in Seats |-> [d \in Days |-> 0]]
      /\ billed = [s \in Seats |-> [d \in Days |-> 0]]
      /\ job = [r \in Replicas |-> [x \in Items |-> "none"]]
  BY DEF Init
<1>2. ASSUME NEW s \in Seats, NEW d \in Days PROVE Funded(s, d)
  <2>1. Pending(s, d) = {}
    BY <1>1 DEF Pending
  <2>2. Cardinality(Pending(s, d)) = 0
    BY <2>1, FS_EmptySet
  <2>3. QED
    BY <1>1, <2>2, WakesAssumption DEF Funded
<1>3. QED
  BY <1>1, <1>2 DEF Turns

\* No slot is taken or billed, and no wake comes to hold one.
LEMMA TurnsFewer ==
  ASSUME Turns, UNCHANGED <<taken, billed>>,
         \A s \in Seats, d \in Days : Pending(s, d)' \subseteq Pending(s, d)
  PROVE  Turns'
<1>1. ASSUME NEW s \in Seats, NEW d \in Days PROVE Funded(s, d)'
  <2>. DEFINE P == Pending(s, d)
              Q == Pending(s, d)'
  <2>1. IsFiniteSet(P) /\ Cardinality(P) \in Nat /\ Q \subseteq P
    BY PendingIsFinite
  <2>2. Cardinality(Q) \in Nat /\ Cardinality(Q) <= Cardinality(P)
    BY <2>1, FS_Subset, FS_CardinalityType
  <2>3. taken[s][d] \in Nat /\ billed[s][d] \in Nat /\ taken[s][d] <= DailyTurns
        /\ billed[s][d] + Cardinality(P) <= taken[s][d]
    BY DEF Turns, Funded
  <2>. HIDE DEF P, Q
  <2>4. billed[s][d] + Cardinality(Q) <= taken[s][d]
    BY <2>1, <2>2, <2>3
  <2>5. QED
    BY <2>3, <2>4 DEF Funded, Q
<1>2. QED
  BY <1>1 DEF Turns

LEMMA FewerPending ==
  ASSUME \A r \in Replicas, x \in Items :
           job'[r][x] = "reserved" => job[r][x] = "reserved" /\ now'[r] = now[r]
  PROVE  \A s \in Seats, d \in Days : Pending(s, d)' \subseteq Pending(s, d)
BY DEF Pending, Day

LEMMA TurnsStill ==
  ASSUME Turns, UNCHANGED <<taken, billed, job, now>> PROVE Turns'
BY FewerPending, TurnsFewer

\* A replica's tick begins and ends with no wake in hand.
LEMMA TurnsReplica ==
  ASSUME Turns, Loops, NEW r \in Replicas, ReplicaStep(r) PROVE Turns'
<1>1. UNCHANGED <<taken, billed>>
  BY DEF ReplicaStep, Tick, Ring, Claim, Joined, Restart, Cancel, Crash, history
<1>2. CASE Ring(r) \/ Restart(r) \/ Cancel(r)
  BY <1>1, <1>2, TurnsStill DEF Ring, Restart, Cancel
<1>3. CASE Tick(r) \/ Joined(r)
  <2>1. /\ job' = job /\ \A x \in Items : job[r][x] # "reserved"
        /\ \A q \in Replicas \ {r} : now'[q] = now[q]
    BY <1>3 DEF Tick, Joined, Loops
  <2>2. QED
    BY <1>1, <2>1, FewerPending, TurnsFewer
<1>4. CASE Claim(r) \/ Crash(r)
  <2>1. PICK mine \in [Items -> {"queued", "none"}] : job' = [job EXCEPT ![r] = mine]
    BY <1>4 DEF Claim, Crash
  <2>2. /\ \A x \in Items : job'[r][x] # "reserved"
        /\ \A q \in Replicas \ {r} : job'[q] = job[q] /\ now'[q] = now[q]
    BY <1>4, <2>1 DEF Claim, Crash, Loops
  <2>3. QED
    BY <1>1, <2>2, FewerPending, TurnsFewer
<1>5. QED
  BY <1>2, <1>3, <1>4 DEF ReplicaStep

LEMMA MoveReads ==
  ASSUME Loops, NEW r \in Replicas, NEW x \in Items, NEW stage, Move(r, x, stage)
  PROVE  /\ job'[r][x] = stage
         /\ \A q \in Replicas, y \in Items : <<q, y>> # <<r, x>> => job'[q][y] = job[q][y]
BY DEF Move, Loops

LEMMA WakeOfDay ==
  ASSUME Loops, NEW r \in Replicas, NEW x \in Items
  PROVE  SeatOf(x) \in Seats /\ Day(r) \in Days
<1>. DEFINE t == now[r]
            m == MaxTime \div DayLength
            k == t \div DayLength
<1>1. DayLength \in Nat \ {0} /\ MaxTime \in Nat /\ t \in Nat /\ t <= MaxTime
  BY WakesAssumption DEF Loops, Instant
<1>2. /\ k \in Nat /\ DayLength * k <= t /\ t < DayLength * (k + 1)
      /\ m \in Nat /\ DayLength * m <= MaxTime /\ MaxTime < DayLength * (m + 1)
  BY <1>1
<1>. HIDE DEF t, k, m
<1>3. ASSUME k > m PROVE FALSE
  <2>1. k - (m + 1) \in Nat /\ DayLength \in Nat
    BY <1>1, <1>2, <1>3
  <2>2. /\ DayLength * (k - (m + 1)) \in Nat
        /\ DayLength * k = DayLength * (m + 1) + DayLength * (k - (m + 1))
    BY <1>1, <1>2, <2>1
  <2>3. QED
    BY <1>1, <1>2, <2>2
<1>4. k \in 0 .. m
  BY <1>2, <1>3
<1>5. SeatOf(x) \in Seats
  BY WakesAssumption DEF SeatOf, Items
<1>6. QED
  BY <1>4, <1>5 DEF t, k, m, Days, Day

\* The slot is taken, within the day's, and the wake holds it.
LEMMA TurnsReserve ==
  ASSUME Turns, Loops, NEW r \in Replicas, NEW x \in Items, ReserveATurn(r, x) PROVE Turns'
<1>. DEFINE s0 == SeatOf(x)
            d0 == Day(r)
            w  == <<r, x>>
<1>1. s0 \in Seats /\ d0 \in Days
  BY WakeOfDay
<1>2. /\ taken' = [taken EXCEPT ![s0][d0] = @ + 1] /\ taken[s0][d0] < DailyTurns
      /\ Move(r, x, "reserved") /\ UNCHANGED <<billed, now>>
  BY DEF ReserveATurn, HasSlot, loop, history
<1>3. \A s \in Seats, d \in Days :
        Pending(s, d)' \subseteq IF s = s0 /\ d = d0 THEN Pending(s, d) \cup {w} ELSE Pending(s, d)
  BY <1>2, MoveReads DEF Pending, Day
<1>4. DailyTurns \in Nat
  BY WakesAssumption
<1>. HIDE DEF s0, d0, w
<1>5. ASSUME NEW s \in Seats, NEW d \in Days
      PROVE  taken'[s][d] = IF s = s0 /\ d = d0 THEN taken[s][d] + 1 ELSE taken[s][d]
  BY <1>2 DEF Turns
<1>6. ASSUME NEW s \in Seats, NEW d \in Days PROVE Funded(s, d)'
  <2>. DEFINE P == Pending(s, d)
              Q == Pending(s, d)'
              R == IF s = s0 /\ d = d0 THEN P \cup {w} ELSE P
  <2>1. IsFiniteSet(P) /\ Cardinality(P) \in Nat
    BY PendingIsFinite
  <2>2. /\ IsFiniteSet(P \cup {w}) /\ Cardinality(P \cup {w}) \in Nat
        /\ Cardinality(P \cup {w}) <= Cardinality(P) + 1
    <3>1. /\ IsFiniteSet(P \cup {w})
          /\ Cardinality(P \cup {w}) = IF w \in P THEN Cardinality(P) ELSE Cardinality(P) + 1
      BY <2>1, FS_AddElement
    <3>. HIDE DEF P
    <3>2. QED
      BY <2>1, <3>1
  <2>3. Q \subseteq R
    BY <1>3
  <2>4. taken[s][d] \in Nat /\ billed[s][d] \in Nat /\ taken[s][d] <= DailyTurns
        /\ billed[s][d] + Cardinality(P) <= taken[s][d]
    BY DEF Turns, Funded
  <2>. HIDE DEF P, Q
  <2>5. IsFiniteSet(R)
    BY <2>1, <2>2
  <2>6. Cardinality(Q) \in Nat /\ Cardinality(Q) <= Cardinality(R)
    BY <2>3, <2>5, FS_Subset, FS_CardinalityType
  <2>7. CASE s = s0 /\ d = d0
    <3>1. taken'[s][d] = taken[s][d] + 1 /\ taken[s][d] < DailyTurns
      BY <1>2, <1>5, <2>7
    <3>2. Cardinality(Q) <= Cardinality(P \cup {w})
      BY <2>6, <2>7
    <3>3. /\ taken'[s][d] \in Nat /\ taken'[s][d] <= DailyTurns
          /\ billed[s][d] + Cardinality(Q) <= taken'[s][d]
      BY <1>4, <2>1, <2>2, <2>4, <2>6, <3>1, <3>2
    <3>4. QED
      BY <1>2, <2>4, <3>3 DEF Funded, Q
  <2>8. CASE ~(s = s0 /\ d = d0)
    <3>1. taken'[s][d] = taken[s][d] /\ Cardinality(Q) <= Cardinality(P)
      BY <1>5, <2>6, <2>8
    <3>2. billed[s][d] + Cardinality(Q) <= taken'[s][d]
      BY <2>1, <2>4, <2>6, <3>1
    <3>3. QED
      BY <1>2, <2>4, <3>1, <3>2 DEF Funded, Q
  <2>9. QED
    BY <2>7, <2>8
<1>7. taken' \in [Seats -> [Days -> Nat]]
  <2>1. taken[s0][d0] + 1 \in Nat
    BY <1>1 DEF Turns
  <2>2. QED
    BY <1>1, <1>2, <2>1 DEF Turns
<1>8. QED
  BY <1>2, <1>6, <1>7 DEF Turns

\* The wake that held a slot gives it up for the call.
LEMMA TurnsCall ==
  ASSUME Turns, Loops, NEW r \in Replicas, NEW x \in Items, CallModel(r, x) PROVE Turns'
<1>. DEFINE s0 == SeatOf(x)
            d0 == Day(r)
            w  == <<r, x>>
<1>1. s0 \in Seats /\ d0 \in Days
  BY WakeOfDay
<1>2. /\ billed' = [billed EXCEPT ![s0][d0] = @ + 1] /\ job[r][x] = "reserved"
      /\ Move(r, x, "running") /\ UNCHANGED <<taken, now>>
  BY DEF CallModel, loop
<1>3. \A s \in Seats, d \in Days : Pending(s, d)' \subseteq Pending(s, d) \ {w}
  <2>1. job'[r][x] # "reserved"
    BY <1>2, MoveReads
  <2>2. \A q \in Replicas, y \in Items : <<q, y>> # w => job'[q][y] = job[q][y]
    BY <1>2, MoveReads
  <2>3. QED
    BY <1>2, <2>1, <2>2 DEF Pending, Day
<1>4. w \in Pending(s0, d0)
  BY <1>2 DEF Pending
<1>. HIDE DEF s0, d0, w
<1>5. ASSUME NEW s \in Seats, NEW d \in Days
      PROVE  billed'[s][d] = IF s = s0 /\ d = d0 THEN billed[s][d] + 1 ELSE billed[s][d]
  BY <1>2 DEF Turns
<1>6. ASSUME NEW s \in Seats, NEW d \in Days PROVE Funded(s, d)'
  <2>. DEFINE P == Pending(s, d)
              Q == Pending(s, d)'
  <2>1. IsFiniteSet(P) /\ Cardinality(P) \in Nat /\ Q \subseteq P \ {w}
    BY <1>3, PendingIsFinite
  <2>2. taken[s][d] \in Nat /\ billed[s][d] \in Nat /\ taken[s][d] <= DailyTurns
        /\ billed[s][d] + Cardinality(P) <= taken[s][d]
    BY DEF Turns, Funded
  <2>3. s = s0 /\ d = d0 => w \in P
    BY <1>4
  <2>. HIDE DEF P, Q
  <2>4. /\ IsFiniteSet(P \ {w})
        /\ Cardinality(P \ {w}) = IF w \in P THEN Cardinality(P) - 1 ELSE Cardinality(P)
    BY <2>1, FS_RemoveElement
  <2>5. Cardinality(Q) \in Nat /\ Cardinality(Q) <= Cardinality(P \ {w})
    BY <2>1, <2>4, FS_Subset, FS_CardinalityType
  <2>6. CASE s = s0 /\ d = d0
    <3>1. billed'[s][d] = billed[s][d] + 1 /\ Cardinality(P \ {w}) = Cardinality(P) - 1
      BY <1>5, <2>3, <2>4, <2>6
    <3>2. billed'[s][d] \in Nat /\ billed'[s][d] + Cardinality(Q) <= taken[s][d]
      BY <2>1, <2>2, <2>5, <3>1
    <3>3. QED
      BY <1>2, <2>2, <3>2 DEF Funded, Q
  <2>7. CASE ~(s = s0 /\ d = d0)
    <3>1. billed'[s][d] = billed[s][d]
      BY <1>5, <2>7
    <3>2. Cardinality(P \ {w}) <= Cardinality(P)
      BY <2>1, <2>4
    <3>3. billed[s][d] + Cardinality(Q) <= taken[s][d]
      BY <2>1, <2>2, <2>4, <2>5, <3>2
    <3>4. QED
      BY <1>2, <2>2, <3>1, <3>3 DEF Funded, Q
  <2>8. QED
    BY <2>6, <2>7
<1>7. billed' \in [Seats -> [Days -> Nat]]
  <2>1. billed[s0][d0] + 1 \in Nat
    BY <1>1 DEF Turns
  <2>2. QED
    BY <1>1, <1>2, <2>1 DEF Turns
<1>8. QED
  BY <1>2, <1>6, <1>7 DEF Turns

\* A wake that is done with holds no slot, and its slot stays taken.
LEMMA TurnsWake ==
  ASSUME Turns, Loops, NEW r \in Replicas, NEW x \in Items, Wake(r, x) PROVE Turns'
<1>1. CASE ReserveATurn(r, x)
  BY <1>1, TurnsReserve
<1>2. CASE CallModel(r, x)
  BY <1>2, TurnsCall
<1>3. CASE ~ReserveATurn(r, x) /\ ~CallModel(r, x)
  <2>1. UNCHANGED <<taken, billed, now>>
    BY <1>3 DEF Wake, Decline, PassOver, TurnEnds, RateLimited, Record, loop, history
  <2>2. PICK stage : Move(r, x, stage) /\ stage # "reserved"
    BY <1>3 DEF Wake, Decline, PassOver, TurnEnds, RateLimited, Record, Outcomes
  <2>3. \A q \in Replicas, y \in Items : job'[q][y] = "reserved" => job[q][y] = "reserved"
    BY <2>2, MoveReads
  <2>4. QED
    BY <2>1, <2>3, FewerPending, TurnsFewer
<1>4. QED
  BY <1>1, <1>2, <1>3

\* Another taker's slot is taken and billed in its own transaction.
LEMMA TurnsSpend ==
  ASSUME Turns, Loops, NEW s0 \in Seats, SpendElsewhere(s0) PROVE Turns'
<1>. DEFINE d0 == clock \div DayLength
<1>1. /\ taken' = [taken EXCEPT ![s0][d0] = @ + 1] /\ taken[s0][d0] < DailyTurns
      /\ billed' = [billed EXCEPT ![s0][d0] = @ + 1] /\ UNCHANGED <<job, now>>
  BY DEF SpendElsewhere, HasSlot, loop
<1>2. DailyTurns \in Nat
  BY WakesAssumption
<1>. HIDE DEF d0
<1>3. ASSUME NEW s \in Seats, NEW d \in Days
      PROVE  \/ /\ s = s0 /\ d = d0
                /\ taken'[s][d] = taken[s][d] + 1 /\ billed'[s][d] = billed[s][d] + 1
             \/ taken'[s][d] = taken[s][d] /\ billed'[s][d] = billed[s][d]
  BY <1>1 DEF Turns
<1>4. ASSUME NEW s \in Seats, NEW d \in Days PROVE Funded(s, d)'
  <2>. DEFINE P == Pending(s, d)
              Q == Pending(s, d)'
  <2>1. Q = P /\ Cardinality(P) \in Nat
    BY <1>1, PendingIsFinite DEF Pending, Day
  <2>2. taken[s][d] \in Nat /\ billed[s][d] \in Nat /\ taken[s][d] <= DailyTurns
        /\ billed[s][d] + Cardinality(P) <= taken[s][d]
    BY DEF Turns, Funded
  <2>. HIDE DEF P, Q
  <2>3. /\ taken'[s][d] \in Nat /\ taken'[s][d] <= DailyTurns /\ billed'[s][d] \in Nat
        /\ billed'[s][d] + Cardinality(Q) <= taken'[s][d]
    BY <1>1, <1>2, <1>3, <2>1, <2>2
  <2>4. QED
    BY <2>3 DEF Funded, Q
<1>5. /\ DOMAIN taken' = Seats /\ DOMAIN billed' = Seats
      /\ \A s \in Seats : /\ taken'[s] = [d \in Days |-> taken'[s][d]]
                          /\ billed'[s] = [d \in Days |-> billed'[s][d]]
  BY <1>1 DEF Turns
<1>6. taken' \in [Seats -> [Days -> Nat]] /\ billed' \in [Seats -> [Days -> Nat]]
  <2>1. \A s \in Seats, d \in Days : taken'[s][d] \in Nat /\ billed'[s][d] \in Nat
    BY <1>4 DEF Funded
  <2>2. \A s \in Seats : taken'[s] \in [Days -> Nat] /\ billed'[s] \in [Days -> Nat]
    BY <1>5, <2>1
  <2>3. taken' = [s \in Seats |-> taken'[s]] /\ billed' = [s \in Seats |-> billed'[s]]
    BY <1>1 DEF Turns
  <2>4. QED
    BY <2>2, <2>3
<1>7. QED
  BY <1>4, <1>6 DEF Turns

LEMMA TurnsOthers == ASSUME Turns, Loops, Others PROVE Turns'
<1>1. UNCHANGED <<now, job>>
  BY OthersStayOut
<1>2. CASE \E s \in Seats : SpendElsewhere(s)
  BY <1>2, TurnsSpend
<1>3. CASE ~\E s \in Seats : SpendElsewhere(s)
  <2>1. UNCHANGED <<taken, billed>>
    <3>1. ASSUME NEW a \in Appointments, Reply(a) PROVE UNCHANGED <<taken, billed>>
      BY <3>1 DEF Reply, history
    <3>2. ASSUME NEW a \in Appointments, NEW at \in Hours, Book(a, at)
          PROVE  UNCHANGED <<taken, billed>>
      BY <3>2 DEF Book, history
    <3>3. ASSUME NEW s \in Seats, NEW to, SetLifecycle(s, to)
          PROVE  UNCHANGED <<taken, billed>>
      BY <3>3 DEF SetLifecycle, history
    <3>4. ASSUME NEW s \in Rhythmic, SetCadence(s) PROVE UNCHANGED <<taken, billed>>
      BY <3>4 DEF SetCadence, history
    <3>5. ASSUME NEW c \in Companies, SetStop(c) PROVE UNCHANGED <<taken, billed>>
      BY <3>5 DEF SetStop, history
    <3>6. CASE Advance
      BY <3>6 DEF Advance, history
    <3>7. QED
      BY <1>3, <3>1, <3>2, <3>3, <3>4, <3>5, <3>6 DEF Others
  <2>2. QED
    BY <1>1, <2>1, TurnsStill
<1>4. QED
  BY <1>2, <1>3

LEMMA TurnsNext == Turns /\ Loops /\ [Next]_vars => Turns'
<1>. SUFFICES ASSUME Turns, Loops, [Next]_vars PROVE Turns'
  OBVIOUS
<1>1. CASE UNCHANGED vars
  BY <1>1, TurnsStill DEF vars, loop, history
<1>2. QED
  BY <1>1, NextCases, TurnsReplica, TurnsWake, TurnsOthers

\* The model is called on slots the day's budget holds (turns::reserve,
\* reserve_a_turn): a slot is a call made, a call to be made or one forgone.
THEOREM TurnsProved == Spec => []TurnsAreFunded
<1>1. Turns => TurnsAreFunded
  <2>1. ASSUME Turns, NEW s \in Seats, NEW d \in Days
        PROVE  billed[s][d] <= taken[s][d] /\ taken[s][d] <= DailyTurns
    <3>. DEFINE n == Cardinality(Pending(s, d))
    <3>1. n \in Nat /\ Funded(s, d)
      BY <2>1, PendingIsFinite DEF Turns
    <3>. HIDE DEF n
    <3>2. QED
      BY <3>1, <2>1 DEF Funded, n
  <2>2. QED
    BY <2>1 DEF TurnsAreFunded
<1>2. QED
  BY <1>1, LoopsProved, TurnsInit, TurnsNext, PTL DEF Spec
=============================================================================
