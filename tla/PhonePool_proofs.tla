-------------------------- MODULE PhonePool_proofs --------------------------
(***************************************************************************)
(* Proofs about PhonePool, for any numbers, employees, workers, handlers,  *)
(* keys and bodies: no number is over-seated by a claim, a step and its    *)
(* seat agree, and the idempotency layer applies an answered request no    *)
(* more.  The pool and the requests have an inductive invariant each.      *)
(***************************************************************************)
EXTENDS PhonePool, TLAPS, FiniteSetTheorems

-----------------------------------------------------------------------------
(* The requests *)

Statuses == {None, "201", "4xx", "5xx"}
Job == [phase : {"idle", "running", "ran"}, key : Keys \cup {None}, status : Statuses]
Entry == [state : {"in_flight", "done"}, body : Bodies]

RequestTypes ==
  /\ handler \in [Handlers -> Job]
  /\ record \in [Keys -> {None} \cup Entry]
  /\ answered \subseteq Keys /\ lost \subseteq Keys
  /\ applied \in [Keys -> Nat]

\* A busy handler has a key of its own, whose record is in flight.
Exclusive ==
  /\ \A h \in Handlers :
       \/ handler[h] = Free
       \/ /\ handler[h].phase # "idle"
          /\ handler[h].key \in Keys
          /\ record[handler[h].key] # None
          /\ record[handler[h].key].state = "in_flight"
  /\ \A g, h \in Handlers :
       g # h /\ handler[g] # Free => handler[g].key # handler[h].key

\* An answered key has a record, which no handler executes.
Answered ==
  \A k \in answered : record[k] # None /\ \A h \in Handlers : handler[h].key # k

KeyInv == RequestTypes /\ Exclusive /\ Answered /\ WedgedOnlyByFaults

LEMMA NoneIsNoKey == None \notin Keys /\ None \notin Entry
BY PhonePoolConstants DEF Entry

LEMMA FreeJob == Free \in Job /\ Free.phase = "idle" /\ Free.key = None
BY DEF Free, Job, Statuses

LEMMA KeyInit == Init => KeyInv
<1>. SUFFICES ASSUME Init PROVE KeyInv
  OBVIOUS
<1>1. RequestTypes
  BY FreeJob DEF Init, RequestTypes
<1>2. Exclusive /\ Answered /\ WedgedOnlyByFaults
  BY DEF Init, Exclusive, Answered, WedgedOnlyByFaults
<1>3. QED
  BY <1>1, <1>2 DEF KeyInv

\* What begin does to the key's record and the handler.
LEMMA BeginStep ==
  ASSUME KeyInv, NEW h \in Handlers, NEW k \in Keys, NEW b \in Bodies, Begin(h, k, b)
  PROVE  KeyInv'
<1>. DEFINE job == [phase |-> "running", key |-> k, status |-> None]
            entry == [state |-> "in_flight", body |-> b]
<1>1. /\ handler[h] = Free /\ record[k] = None
      /\ record' = [record EXCEPT ![k] = entry]
      /\ handler' = [handler EXCEPT ![h] = job]
      /\ UNCHANGED <<answered, applied, lost>>
  BY DEF Begin
<1>2. job \in Job /\ job.phase = "running" /\ job.key = k /\ job # Free
  BY DEF Job, Statuses, Free
<1>3. entry \in Entry /\ entry # None /\ entry.state = "in_flight"
  BY NoneIsNoKey DEF Entry
<1>. HIDE DEF job, entry
<1>4. RequestTypes'
  BY <1>1, <1>2, <1>3 DEF KeyInv, RequestTypes
<1>5. handler'[h] = job /\ \A g \in Handlers \ {h} : handler'[g] = handler[g]
  BY <1>1 DEF KeyInv, RequestTypes
<1>6. record'[k] = entry /\ \A j \in Keys \ {k} : record'[j] = record[j]
  BY <1>1 DEF KeyInv, RequestTypes
<1>7. \A g \in Handlers : handler[g].key # k
  BY <1>1, FreeJob, NoneIsNoKey DEF KeyInv, Exclusive
<1>8. Exclusive'
  BY <1>1, <1>2, <1>3, <1>5, <1>6, <1>7 DEF KeyInv, Exclusive
<1>9. Answered'
  BY <1>1, <1>2, <1>5, <1>6 DEF KeyInv, Answered, RequestTypes
<1>10. WedgedOnlyByFaults'
  BY <1>1, <1>2, <1>5, <1>6, FreeJob, NoneIsNoKey DEF KeyInv, WedgedOnlyByFaults
<1>11. QED
  BY <1>4, <1>8, <1>9, <1>10 DEF KeyInv

\* A begin that was not heard of leaves a record without a handler, and says so.
LEMMA UnheardStep ==
  ASSUME KeyInv, NEW h \in Handlers, NEW k \in Keys, NEW b \in Bodies, BeginUnheard(h, k, b)
  PROVE  KeyInv'
<1>. DEFINE entry == [state |-> "in_flight", body |-> b]
<1>1. /\ record[k] = None
      /\ record' = [record EXCEPT ![k] = entry]
      /\ lost' = lost \cup {k}
      /\ UNCHANGED <<handler, answered, applied>>
  BY DEF BeginUnheard
<1>2. entry \in Entry
  BY DEF Entry
<1>3. record'[k] = entry /\ \A j \in Keys \ {k} : record'[j] = record[j]
  BY <1>1 DEF KeyInv, RequestTypes
<1>4. \A g \in Handlers : handler[g].key # k
  BY <1>1, FreeJob, NoneIsNoKey DEF KeyInv, Exclusive
<1>5. k \notin answered
  BY <1>1 DEF KeyInv, Answered
<1>. HIDE DEF entry
<1>6. RequestTypes'
  BY <1>1, <1>2 DEF KeyInv, RequestTypes
<1>7. Exclusive' /\ Answered'
  BY <1>1, <1>3, <1>4, <1>5 DEF KeyInv, Exclusive, Answered, RequestTypes
<1>8. WedgedOnlyByFaults'
  BY <1>1, <1>3 DEF KeyInv, WedgedOnlyByFaults
<1>9. QED
  BY <1>6, <1>7, <1>8 DEF KeyInv

\* A replay shows an answer already recorded: no handler has the key.
LEMMA ReplayStep ==
  ASSUME KeyInv, NEW h \in Handlers, NEW k \in Keys, NEW b \in Bodies, Replay(h, k, b)
  PROVE  KeyInv'
<1>1. /\ record[k] # None /\ record[k].state = "done"
      /\ answered' = answered \cup {k}
      /\ UNCHANGED <<record, handler, applied, lost>>
  BY DEF Replay
<1>2. \A g \in Handlers : handler[g].key # k
  BY <1>1, FreeJob, NoneIsNoKey DEF KeyInv, Exclusive
<1>3. RequestTypes' /\ Exclusive' /\ WedgedOnlyByFaults'
  BY <1>1 DEF KeyInv, RequestTypes, Exclusive, WedgedOnlyByFaults
<1>4. Answered'
  BY <1>1, <1>2 DEF KeyInv, Answered
<1>5. QED
  BY <1>3, <1>4 DEF KeyInv

\* A handler that has run keeps its key.
LEMMA RanStep ==
  ASSUME KeyInv, NEW h \in Handlers, NEW s \in Statuses,
         handler[h].phase = "running", Ends(h, s),
         applied' \in [Keys -> Nat], UNCHANGED <<record, answered, lost>>
  PROVE  KeyInv'
<1>. DEFINE job == [handler[h] EXCEPT !.phase = "ran", !.status = s]
<1>1. handler[h] \in Job /\ handler[h] # Free
  BY FreeJob DEF KeyInv, RequestTypes
<1>2. job \in Job /\ job.phase = "ran" /\ job.key = handler[h].key
  BY <1>1 DEF Job
<1>3. job # Free
  BY <1>2, FreeJob
<1>4. handler' = [handler EXCEPT ![h] = job]
  BY DEF Ends
<1>. HIDE DEF job
<1>5. RequestTypes'
  BY <1>2, <1>4 DEF KeyInv, RequestTypes
<1>6. handler'[h] = job /\ \A g \in Handlers \ {h} : handler'[g] = handler[g]
  BY <1>4 DEF KeyInv, RequestTypes
<1>7. \A g \in Handlers : handler'[g].key = handler[g].key
  BY <1>2, <1>6
<1>8. Exclusive'
  BY <1>1, <1>2, <1>3, <1>6, <1>7 DEF KeyInv, Exclusive
<1>9. Answered' /\ WedgedOnlyByFaults'
  BY <1>7 DEF KeyInv, Answered, WedgedOnlyByFaults
<1>10. QED
  BY <1>5, <1>8, <1>9 DEF KeyInv

\* A handler gone, by its own end or by a death: its key is its record's own
\* again, and what becomes of the record is the same for every such end.
LEMMA GoneStep ==
  ASSUME KeyInv, NEW h \in Handlers, handler[h] # Free,
         NEW entry \in {None} \cup Entry,
         handler' = [handler EXCEPT ![h] = Free],
         record' = [record EXCEPT ![handler[h].key] = entry],
         lost' \in SUBSET Keys, lost \subseteq lost', answered' \in SUBSET Keys,
         answered' \subseteq answered \cup {handler[h].key},
         handler[h].key \in answered' => entry # None,
         (entry # None /\ entry.state = "in_flight") => handler[h].key \in lost',
         UNCHANGED applied
  PROVE  KeyInv'
<1>. DEFINE k == handler[h].key
<1>1. k \in Keys
  BY DEF KeyInv, Exclusive
<1>2. handler'[h] = Free /\ \A g \in Handlers \ {h} : handler'[g] = handler[g]
  BY DEF KeyInv, RequestTypes
<1>3. record'[k] = entry /\ \A j \in Keys \ {k} : record'[j] = record[j]
  BY <1>1 DEF KeyInv, RequestTypes
<1>4. RequestTypes'
  <2>1. handler' \in [Handlers -> Job]
    BY FreeJob DEF KeyInv, RequestTypes
  <2>2. record' \in [Keys -> {None} \cup Entry]
    BY DEF KeyInv, RequestTypes
  <2>3. QED
    BY <2>1, <2>2 DEF KeyInv, RequestTypes
<1>5. \A g \in Handlers \ {h} : handler[g].key # k
  BY DEF KeyInv, Exclusive
<1>6. Exclusive'
  <2>1. ASSUME NEW g \in Handlers, handler'[g] # Free
        PROVE  /\ handler'[g].phase # "idle"
               /\ handler'[g].key \in Keys
               /\ record'[handler'[g].key] # None
               /\ record'[handler'[g].key].state = "in_flight"
    BY <1>2, <1>3, <1>5, <2>1 DEF KeyInv, Exclusive
  <2>2. ASSUME NEW g \in Handlers, NEW f \in Handlers, g # f, handler'[g] # Free
        PROVE  handler'[g].key # handler'[f].key
    BY <1>2, <2>2, <2>1, FreeJob, NoneIsNoKey DEF KeyInv, Exclusive
  <2>3. QED
    BY <2>1, <2>2 DEF Exclusive
<1>7. Answered'
  BY <1>1, <1>2, <1>3, <1>5, FreeJob, NoneIsNoKey DEF KeyInv, Answered
<1>8. WedgedOnlyByFaults'
  <2>1. SUFFICES ASSUME NEW j \in Keys, record'[j] # None, record'[j].state = "in_flight",
                        \A g \in Handlers : handler'[g].key # j
                 PROVE  j \in lost'
    BY DEF WedgedOnlyByFaults
  <2>2. CASE j = k
    BY <1>3, <2>1, <2>2
  <2>3. CASE j # k
    <3>1. \A g \in Handlers : handler[g].key # j
      BY <1>2, <2>1, <2>3
    <3>2. record[j] # None /\ record[j].state = "in_flight"
      BY <1>3, <2>1, <2>3
    <3>3. QED
      BY <3>1, <3>2 DEF KeyInv, WedgedOnlyByFaults
  <2>4. QED
    BY <2>2, <2>3
<1>9. QED
  BY <1>4, <1>6, <1>7, <1>8 DEF KeyInv

\* record and the end of the request: done, freed or left in flight.
LEMMA RecordStep ==
  ASSUME KeyInv, NEW h \in Handlers, NEW written \in BOOLEAN, NEW told \in BOOLEAN,
         Record(h, written, told)
  PROVE  KeyInv'
<1>. DEFINE k == handler[h].key
<1>1. handler[h] # Free /\ handler[h].phase = "ran"
  BY FreeJob DEF Record
<1>2. k \in Keys /\ record[k] # None /\ record[k].state = "in_flight"
  BY <1>1 DEF KeyInv, Exclusive
<1>3. record[k] \in Entry /\ record \in [Keys -> {None} \cup Entry]
  BY <1>2 DEF KeyInv, RequestTypes
<1>4. /\ handler' = [handler EXCEPT ![h] = Free]
      /\ UNCHANGED applied
      /\ answered' \in {answered, answered \cup {k}}
      /\ handler[h].status # "201" => answered' = answered
  BY DEF Record
<1>5. k \notin answered /\ answered \subseteq Keys /\ lost \subseteq Keys
  BY DEF KeyInv, Answered, RequestTypes
<1>6. CASE written /\ handler[h].status # "201"
  <2>1. record' = [record EXCEPT ![k] = None] /\ lost' = lost
    BY <1>6 DEF Record, Written
  <2>2. QED
    BY <1>1, <1>4, <1>5, <1>6, <2>1, GoneStep
<1>7. CASE written /\ handler[h].status = "201"
  <2>1. record' = [record EXCEPT ![k] = [@ EXCEPT !.state = "done"]] /\ lost' = lost
    BY <1>7 DEF Record, Written
  <2>. DEFINE entry == [record[k] EXCEPT !.state = "done"]
  <2>2. entry \in Entry /\ entry.state = "done"
    BY <1>3 DEF Entry
  <2>3. entry # None
    BY <2>2, NoneIsNoKey
  <2>4. record' = [record EXCEPT ![k] = entry]
    BY <2>1, <1>2, <1>3
  <2>. HIDE DEF entry
  <2>5. QED
    BY <1>1, <1>2, <1>4, <1>5, <2>1, <2>2, <2>3, <2>4, GoneStep
<1>8. CASE ~written
  <2>1. record' = record /\ lost' = lost \cup {k}
    BY <1>8 DEF Record, Unwritten
  <2>2. record' = [record EXCEPT ![k] = record[k]]
    BY <1>3, <2>1
  <2>3. QED
    BY <1>1, <1>2, <1>3, <1>4, <1>5, <2>1, <2>2, GoneStep
<1>9. QED
  BY <1>6, <1>7, <1>8

\* A death leaves the record in flight and the key among the lost.
LEMMA DieStep ==
  ASSUME KeyInv, NEW h \in Handlers, Die(h)
  PROVE  KeyInv'
<1>. DEFINE k == handler[h].key
<1>1. /\ handler[h] # Free
      /\ handler' = [handler EXCEPT ![h] = Free]
      /\ lost' = lost \cup {k}
      /\ UNCHANGED <<record, answered, applied>>
  BY DEF Die
<1>2. k \in Keys /\ record[k] # None /\ k \notin answered
  BY <1>1 DEF KeyInv, Exclusive, Answered
<1>3. record[k] \in Entry /\ record' = [record EXCEPT ![k] = record[k]]
  BY <1>1, <1>2 DEF KeyInv, RequestTypes
<1>4. answered \subseteq Keys /\ lost \subseteq Keys
  BY DEF KeyInv, RequestTypes
<1>5. QED
  BY <1>1, <1>2, <1>3, <1>4, GoneStep

LEMMA KeyStutter ==
  ASSUME KeyInv, UNCHANGED requests
  PROVE  KeyInv'
BY DEF KeyInv, requests, RequestTypes, Exclusive, Answered, WedgedOnlyByFaults

LEMMA KeyNext == KeyInv /\ [Next]_vars => KeyInv'
<1>. SUFFICES ASSUME KeyInv, [Next]_vars PROVE KeyInv'
  OBVIOUS
<1>. USE DEF KeyInv
<1>1. CASE UNCHANGED vars
  BY <1>1, KeyStutter DEF vars
<1>2. ASSUME NEW w \in Workers,
             \/ \E e \in Employees : Claim(w, e)
             \/ Scan(w) \/ LockOne(w) \/ PoolIsFull(w)
             \/ Insert(w) \/ Commit(w) \/ Rollback(w)
      PROVE  KeyInv'
  <2>1. UNCHANGED requests
    BY <1>2 DEF Claim, Scan, LockOne, PoolIsFull, Insert, Commit, Rollback
  <2>2. QED
    BY <2>1, KeyStutter
<1>3. ASSUME NEW e \in Employees, Release(e) PROVE KeyInv'
  BY <1>3, KeyStutter DEF Release
<1>4. ASSUME NEW h \in Handlers, NEW k \in Keys, NEW b \in Bodies,
             Begin(h, k, b) \/ BeginUnheard(h, k, b) \/ Replay(h, k, b)
      PROVE  KeyInv'
  BY <1>4, BeginStep, UnheardStep, ReplayStep
<1>5. ASSUME NEW h \in Handlers, Refuse(h) \/ Fails(h) PROVE KeyInv'
  <2>1. \E s \in {"4xx", "5xx"} : handler[h].phase = "running" /\ Ends(h, s)
    BY <1>5 DEF Refuse, Fails
  <2>2. PICK s \in Statuses : handler[h].phase = "running" /\ Ends(h, s)
    BY <2>1 DEF Statuses
  <2>3. applied' \in [Keys -> Nat] /\ UNCHANGED <<record, answered, lost>>
    BY <1>5 DEF Refuse, Fails, RequestTypes
  <2>4. QED
    BY <2>2, <2>3, RanStep
<1>6. ASSUME NEW h \in Handlers, NEW s \in {"201", "5xx"}, Register(h, s) PROVE KeyInv'
  <2>1. handler[h].phase = "running" /\ Ends(h, s) /\ UNCHANGED <<record, answered, lost>>
    BY <1>6 DEF Register
  <2>2. applied' \in [Keys -> Nat]
    <3>1. applied' = [applied EXCEPT ![handler[h].key] = @ + 1]
      BY <1>6 DEF Register
    <3>2. applied \in [Keys -> Nat] /\ handler[h].key \in Keys
      BY <2>1, FreeJob DEF RequestTypes, Exclusive
    <3>3. applied[handler[h].key] + 1 \in Nat
      BY <3>2
    <3>4. QED
      BY <3>1, <3>2, <3>3
  <2>3. s \in Statuses
    BY DEF Statuses
  <2>4. QED
    BY <2>1, <2>2, <2>3, RanStep
<1>7. ASSUME NEW h \in Handlers, NEW written \in BOOLEAN, NEW told \in BOOLEAN,
             Record(h, written, told)
      PROVE  KeyInv'
  BY <1>7, RecordStep
<1>8. ASSUME NEW h \in Handlers, Die(h) PROVE KeyInv'
  BY <1>8, DieStep
<1>. HIDE DEF KeyInv
<1>9. QED
  BY <1>1, <1>2, <1>3, <1>4, <1>5, <1>6, <1>7, <1>8 DEF Next

\* A registration is committed by a handler that runs, and the key of a
\* handler that runs has been answered to nobody.
LEMMA AnsweredStep ==
  KeyInv /\ [Next]_vars =>
    [/\ \A k \in answered : applied'[k] = applied[k]
     /\ \A g, h \in Handlers : g # h /\ handler[g] # Free => handler[g].key # handler[h].key]_vars
<1>. SUFFICES ASSUME KeyInv, Next
              PROVE  \A k \in answered : applied'[k] = applied[k]
  BY DEF KeyInv, Exclusive
<1>1. CASE UNCHANGED applied
  BY <1>1
<1>2. ASSUME NEW h \in Handlers, NEW s \in {"201", "5xx"}, Register(h, s)
      PROVE  \A k \in answered : applied'[k] = applied[k]
  <2>1. applied' = [applied EXCEPT ![handler[h].key] = @ + 1]
    BY <1>2 DEF Register
  <2>2. QED
    BY <2>1 DEF KeyInv, Answered, RequestTypes
<1>3. UNCHANGED applied \/ \E h \in Handlers, s \in {"201", "5xx"} : Register(h, s)
  BY DEF Next, requests, Claim, Scan, LockOne, PoolIsFull, Insert, Commit, Rollback,
         Release, Begin, BeginUnheard, Replay, Refuse, Fails, Record, Die
<1>4. QED
  BY <1>1, <1>2, <1>3

\* The inductive invariant of the requests holds throughout.
LEMMA KeyInvariant == Spec => []KeyInv
BY KeyInit, KeyNext, PTL DEF Spec

\* A key is wedged only by a death, by a record that could not be written or by
\* a begin that was not acknowledged (begin, complete and release of
\* store/idempotency.rs): a refusal or a failure always gives it back.
THEOREM WedgedProved == Spec => []WedgedOnlyByFaults
<1>1. KeyInv => WedgedOnlyByFaults
  BY DEF KeyInv
<1>2. QED
  BY <1>1, KeyInvariant, PTL

\* Once a client has read that a keyed request was done, nothing is applied
\* under its key again, and no two handlers execute one key (replay_idempotent's
\* begin before the handler, record's complete of an application/json answer).
THEOREM AnsweredProved == Spec => AnsweredIsFinal
BY KeyInvariant, AnsweredStep, PTL DEF Spec, AnsweredIsFinal

-----------------------------------------------------------------------------
(* The pool *)

Seat == [employee : Employees, number : Numbers]
Phases == {"idle", "claimed", "scanned", "kept", "locked", "seated"}
Transaction == [phase : Phases, employee : Employees \cup {None},
                number : Numbers \cup {None}, room : SUBSET Numbers, rows : SUBSET Seat]
NumberRow == [state : States, capacity : Nat]
HoldsLock(w) == work[w].phase \in {"locked", "seated"}

PoolTypes ==
  /\ number \in [Numbers -> {None} \cup NumberRow]
  /\ seats \subseteq Seat /\ IsFiniteSet(seats)
  /\ step \in [Employees -> {"pending", "ready", "released"}]
  /\ lease \in [Employees -> {None} \cup Workers]
  /\ work \in [Workers -> Transaction]

\* A transaction past its claim has an employee, one past its lock a number.
Bound ==
  \A w \in Workers :
    /\ work[w].phase # "idle" => work[w].employee \in Employees
    /\ HoldsLock(w) => work[w].number \in Numbers

\* No two transactions lock one number.
Locking ==
  \A v, w \in Workers :
    v # w /\ HoldsLock(v) /\ HoldsLock(w) => work[v].number # work[w].number

\* The room a second statement found is there until its commit: the lock
\* keeps rivals and registrations out, and releases only make more.
Reserved == \A w \in Workers : work[w].phase = "seated" => HasRoom(work[w].number, seats)

OneSeat ==
  \A e \in Employees :
    IF step[e] = "ready" THEN \E s : SeatOf(e) = {s} ELSE SeatOf(e) = {}

\* A worker that found its employee seated came after the step's own outcome.
Kept == \A w \in Workers : work[w].phase = "kept" => step[work[w].employee] # "pending"

PoolInv == PoolTypes /\ Bound /\ Locking /\ Reserved /\ OneSeat /\ Kept

LEMMA AwayType == /\ Away \in Transaction /\ Away.phase = "idle"
                  /\ Away.number = None /\ Away.employee = None
BY DEF Away, Transaction, Phases

LEMMA PoolInit == Init => PoolInv
<1>. SUFFICES ASSUME Init PROVE PoolInv
  OBVIOUS
<1>1. PoolTypes
  BY AwayType, FS_EmptySet DEF Init, PoolTypes
<1>2. Bound /\ Locking /\ Reserved /\ Kept
  BY AwayType DEF Init, Bound, Locking, Reserved, Kept, HoldsLock
<1>3. OneSeat
  BY DEF Init, OneSeat, SeatOf
<1>4. QED
  BY <1>1, <1>2, <1>3 DEF PoolInv

\* A worker's transaction moves and the rows stay: what is to be shown of it.
LEMMA WorkStep ==
  ASSUME PoolInv, NEW w \in Workers, NEW t \in Transaction,
         work' = [work EXCEPT ![w] = t],
         lease' \in [Employees -> {None} \cup Workers],
         UNCHANGED <<number, seats, step>>,
         t.phase # "idle" => t.employee \in Employees,
         t.phase \in {"locked", "seated"} =>
           t.number \in Numbers /\ \A v \in Workers \ {w} : HoldsLock(v) => work[v].number # t.number,
         t.phase = "seated" => HasRoom(t.number, seats),
         t.phase = "kept" => step[t.employee] # "pending"
  PROVE  PoolInv'
<1>1. work'[w] = t /\ \A v \in Workers \ {w} : work'[v] = work[v]
  BY DEF PoolInv, PoolTypes
<1>2. PoolTypes'
  BY DEF PoolInv, PoolTypes
<1>3. Bound' /\ Locking'
  BY <1>1 DEF PoolInv, Bound, Locking, HoldsLock
<1>4. Reserved'
  BY <1>1 DEF PoolInv, Reserved, HasRoom
<1>5. OneSeat'
  BY DEF PoolInv, OneSeat, SeatOf
<1>6. Kept'
  BY <1>1 DEF PoolInv, Kept
<1>7. QED
  BY <1>2, <1>3, <1>4, <1>5, <1>6 DEF PoolInv

LEMMA ClaimStep ==
  ASSUME PoolInv, NEW w \in Workers, NEW e \in Employees, Claim(w, e)
  PROVE  PoolInv'
<1>. DEFINE t == [Away EXCEPT !.phase = "claimed", !.employee = e]
<1>1. t \in Transaction /\ t.phase = "claimed" /\ t.employee = e
  BY AwayType DEF Transaction, Phases
<1>2. work' = [work EXCEPT ![w] = t] /\ UNCHANGED <<number, seats, step>>
  BY DEF Claim
<1>3. lease' \in [Employees -> {None} \cup Workers]
  BY DEF Claim, PoolInv, PoolTypes
<1>. HIDE DEF t
<1>4. QED
  BY <1>1, <1>2, <1>3, WorkStep

LEMMA ScanStep ==
  ASSUME PoolInv, NEW w \in Workers, Scan(w)
  PROVE  PoolInv'
<1>. DEFINE mine == {s.number : s \in SeatOf(work[w].employee)}
            kept == [work[w] EXCEPT !.phase = "kept", !.number = CHOOSE n \in mine : TRUE]
            scanned == [work[w] EXCEPT !.phase = "scanned", !.rows = seats,
                                       !.room = {n \in Numbers : HasRoom(n, seats)}]
<1>1. work[w] \in Transaction /\ work[w].phase = "claimed" /\ work[w].employee \in Employees
  BY DEF Scan, PoolInv, PoolTypes, Bound
<1>2. seats \in SUBSET Seat /\ mine \subseteq Numbers
  BY DEF PoolInv, PoolTypes, Seat, SeatOf
<1>3. mine # {} => kept \in Transaction /\ kept.phase = "kept" /\ kept.employee = work[w].employee
  BY <1>1, <1>2 DEF Transaction, Phases
<1>4. scanned \in Transaction /\ scanned.phase = "scanned" /\ scanned.employee = work[w].employee
  BY <1>1, <1>2 DEF Transaction, Phases
<1>5. work' = [work EXCEPT ![w] = IF mine # {} THEN kept ELSE scanned]
  BY DEF Scan, PoolInv, PoolTypes
<1>6. lease' \in [Employees -> {None} \cup Workers] /\ UNCHANGED <<number, seats, step>>
  BY DEF Scan, PoolInv, PoolTypes
<1>7. mine # {} => step[work[w].employee] # "pending"
  BY <1>1 DEF PoolInv, OneSeat
<1>. HIDE DEF mine, kept, scanned
<1>8. CASE mine # {}
  BY <1>1, <1>3, <1>5, <1>6, <1>7, <1>8, WorkStep
<1>9. CASE mine = {}
  BY <1>1, <1>4, <1>5, <1>6, <1>9, WorkStep
<1>10. QED
  BY <1>8, <1>9

LEMMA LockStep ==
  ASSUME PoolInv, NEW w \in Workers, LockOne(w)
  PROVE  PoolInv'
<1>1. PICK n \in Candidates(w) :
        work' = [work EXCEPT ![w] = [@ EXCEPT !.phase = "locked", !.number = n,
                                              !.room = {}, !.rows = {}]]
  BY DEF LockOne
<1>. DEFINE t == [work[w] EXCEPT !.phase = "locked", !.number = n, !.room = {}, !.rows = {}]
<1>2. work[w] \in Transaction /\ work[w].phase = "scanned" /\ work[w].employee \in Employees
  BY DEF LockOne, PoolInv, PoolTypes, Bound
<1>3. n \in Numbers /\ n \notin Locked
  BY <1>2 DEF Candidates, Transaction
<1>4. \A v \in Workers \ {w} : HoldsLock(v) => work[v].number # n
  BY <1>3 DEF Locked, LockedBy, HoldsLock
<1>5. t \in Transaction /\ t.phase = "locked" /\ t.number = n /\ t.employee = work[w].employee
  BY <1>2, <1>3 DEF Transaction, Phases
<1>6. work' = [work EXCEPT ![w] = t]
  BY <1>1 DEF PoolInv, PoolTypes
<1>7. lease' \in [Employees -> {None} \cup Workers] /\ UNCHANGED <<number, seats, step>>
  BY DEF LockOne, PoolInv, PoolTypes
<1>. HIDE DEF t
<1>8. QED
  BY <1>2, <1>3, <1>4, <1>5, <1>6, <1>7, WorkStep

LEMMA InsertStep ==
  ASSUME PoolInv, NEW w \in Workers, Insert(w)
  PROVE  PoolInv'
<1>. DEFINE t == [work[w] EXCEPT !.phase = "seated"]
            seated == StillHasRoom(work[w].number) /\ SeatOf(work[w].employee) = {}
<1>1. /\ work[w] \in Transaction /\ work[w].phase = "locked"
      /\ work[w].employee \in Employees /\ work[w].number \in Numbers
  BY DEF Insert, PoolInv, PoolTypes, Bound, HoldsLock
<1>2. /\ t \in Transaction /\ t.phase = "seated" /\ t.number = work[w].number
      /\ t.employee = work[w].employee
  BY <1>1 DEF Transaction, Phases
<1>3. work' = [work EXCEPT ![w] = IF seated THEN t ELSE Away]
  BY DEF Insert, PoolInv, PoolTypes
<1>4. lease' \in [Employees -> {None} \cup Workers] /\ UNCHANGED <<number, seats, step>>
  BY DEF Insert, PoolInv, PoolTypes
<1>5. \A v \in Workers \ {w} : HoldsLock(v) => work[v].number # work[w].number
  BY <1>1 DEF PoolInv, Locking, HoldsLock
<1>6. seated => HasRoom(work[w].number, seats)
  BY DEF StillHasRoom
<1>. HIDE DEF t, seated
<1>7. CASE seated
  BY <1>1, <1>2, <1>3, <1>4, <1>5, <1>6, <1>7, WorkStep
<1>8. CASE ~seated
  BY <1>3, <1>4, <1>8, AwayType, WorkStep
<1>9. QED
  BY <1>7, <1>8

LEMMA AwayStep ==
  ASSUME PoolInv, NEW w \in Workers, PoolIsFull(w) \/ Rollback(w)
  PROVE  PoolInv'
<1>1. work' = [work EXCEPT ![w] = Away] /\ UNCHANGED <<number, seats, step, lease>>
  BY DEF PoolIsFull, Rollback
<1>2. lease' \in [Employees -> {None} \cup Workers]
  BY <1>1 DEF PoolInv, PoolTypes
<1>3. QED
  BY <1>1, <1>2, AwayType, WorkStep

\* Seats of one number, one more and one fewer.
LEMMA SeatCount ==
  ASSUME NEW S, IsFiniteSet(S), NEW n
  PROVE  /\ IsFiniteSet({s \in S : s.number = n}) /\ SeatsOf(S, n) \in Nat
         /\ \A T \in SUBSET S : SeatsOf(T, n) \in Nat /\ SeatsOf(T, n) <= SeatsOf(S, n)
         /\ \A x : x.number # n => SeatsOf(S \cup {x}, n) = SeatsOf(S, n)
         /\ \A x : SeatsOf(S \cup {x}, n) \in Nat /\ SeatsOf(S \cup {x}, n) <= SeatsOf(S, n) + 1
<1>. DEFINE At(T) == {s \in T : s.number = n}
<1>1. IsFiniteSet(At(S)) /\ Cardinality(At(S)) \in Nat
  BY FS_Subset, FS_CardinalityType, At(S) \in SUBSET S
<1>2. ASSUME NEW T \in SUBSET S
      PROVE  Cardinality(At(T)) \in Nat /\ Cardinality(At(T)) <= Cardinality(At(S))
  <2>1. At(T) \in SUBSET At(S)
    OBVIOUS
  <2>2. QED
    BY <1>1, <2>1, FS_Subset, FS_CardinalityType
<1>3. ASSUME NEW x, x.number # n PROVE Cardinality(At(S \cup {x})) = Cardinality(At(S))
  <2>1. At(S \cup {x}) = At(S)
    BY <1>3
  <2>2. QED
    BY <2>1
<1>4. ASSUME NEW x
      PROVE  /\ Cardinality(At(S \cup {x})) \in Nat
             /\ Cardinality(At(S \cup {x})) <= Cardinality(At(S)) + 1
  <2>1. At(S \cup {x}) \in SUBSET (At(S) \cup {x})
    OBVIOUS
  <2>2. /\ IsFiniteSet(At(S) \cup {x})
        /\ Cardinality(At(S) \cup {x}) = IF x \in At(S) THEN Cardinality(At(S)) ELSE Cardinality(At(S)) + 1
    BY <1>1, FS_AddElement
  <2>3. Cardinality(At(S) \cup {x}) <= Cardinality(At(S)) + 1
    <3>. HIDE DEF At
    <3>1. QED
      BY <2>2, <1>1
  <2>4. /\ IsFiniteSet(At(S \cup {x}))
        /\ Cardinality(At(S \cup {x})) <= Cardinality(At(S) \cup {x})
    BY <2>1, <2>2, FS_Subset
  <2>5. Cardinality(At(S \cup {x})) \in Nat /\ Cardinality(At(S) \cup {x}) \in Nat
    BY <2>4, <2>2, FS_CardinalityType
  <2>. HIDE DEF At
  <2>6. QED
    BY <2>3, <2>4, <2>5, <1>1
<1>5. QED
  BY <1>1, <1>2, <1>3, <1>4 DEF SeatsOf

\* One employee's seat and step change together; the others keep theirs.
LEMMA OneSeatAfter ==
  ASSUME OneSeat, NEW e \in Employees,
         \A f \in Employees \ {e} :
           {s \in seats' : s.employee = f} = SeatOf(f) /\ step'[f] = step[f],
         \/ step'[e] = "ready" /\ \E x : {s \in seats' : s.employee = e} = {x}
         \/ step'[e] = "released" /\ {s \in seats' : s.employee = e} = {}
  PROVE  OneSeat'
<1>1. SUFFICES ASSUME NEW f \in Employees
               PROVE  LET own == {s \in seats' : s.employee = f} IN
                      IF step'[f] = "ready" THEN \E s : own = {s} ELSE own = {}
  BY DEF OneSeat, SeatOf
<1>2. CASE f = e
  BY <1>2
<1>3. CASE f # e
  BY <1>3 DEF OneSeat
<1>4. QED
  BY <1>2, <1>3

\* The seat a commit adds: its employee had none, its number had room.
LEMMA CommitStep ==
  ASSUME PoolInv, NEW w \in Workers, Commit(w)
  PROVE  PoolInv'
<1>. DEFINE e == work[w].employee
            x == [employee |-> e, number |-> work[w].number]
<1>1. /\ work[w].phase \in {"kept", "seated"} /\ e \in Employees
      /\ work[w].phase = "seated" => work[w].number \in Numbers
  BY DEF Commit, PoolInv, Bound, HoldsLock
<1>2. work' = [work EXCEPT ![w] = Away] /\ UNCHANGED number
  BY DEF Commit
<1>3. CASE ~Holds(w)
  <2>1. UNCHANGED <<seats, step, lease>>
    BY <1>3 DEF Commit, SeatTaken
  <2>2. lease' \in [Employees -> {None} \cup Workers]
    BY <2>1 DEF PoolInv, PoolTypes
  <2>3. QED
    BY <1>2, <2>1, <2>2, AwayType, WorkStep
<1>4. CASE Holds(w)
  <2>1. step[e] = "pending"
    BY <1>4 DEF Holds
  <2>2. work[w].phase = "seated"
    BY <1>1, <2>1 DEF PoolInv, Kept
  <2>3. /\ seats' = seats \cup {x}
        /\ step' = [step EXCEPT ![e] = "ready"]
        /\ lease' = [lease EXCEPT ![e] = None]
    BY <1>4, <2>2 DEF Commit, SeatTaken
  <2>4. x \in Seat /\ x.employee = e /\ x.number = work[w].number
    BY <1>1, <2>2 DEF Seat
  <2>. HIDE DEF x
  <2>5. PoolTypes'
    <3>1. seats' \subseteq Seat /\ IsFiniteSet(seats')
      BY <2>3, <2>4, FS_AddElement DEF PoolInv, PoolTypes
    <3>2. step' \in [Employees -> {"pending", "ready", "released"}]
      BY <2>3 DEF PoolInv, PoolTypes
    <3>3. lease' \in [Employees -> {None} \cup Workers]
      BY <2>3 DEF PoolInv, PoolTypes
    <3>4. work' \in [Workers -> Transaction]
      BY <1>2, AwayType DEF PoolInv, PoolTypes
    <3>5. QED
      BY <1>2, <3>1, <3>2, <3>3, <3>4 DEF PoolInv, PoolTypes
  <2>6. work'[w] = Away /\ \A v \in Workers \ {w} : work'[v] = work[v]
    BY <1>2 DEF PoolInv, PoolTypes
  <2>7. Bound' /\ Locking'
    BY <2>6, AwayType DEF PoolInv, Bound, Locking, HoldsLock
  <2>8. Reserved'
    <3>1. SUFFICES ASSUME NEW v \in Workers \ {w}, work[v].phase = "seated"
                   PROVE  HasRoom(work[v].number, seats)'
      BY <2>6, AwayType DEF Reserved, HasRoom
    <3>2. work[v].number # x.number /\ HasRoom(work[v].number, seats)
      BY <2>2, <2>4, <3>1 DEF PoolInv, Locking, HoldsLock, Reserved
    <3>3. SeatsOf(seats', work[v].number) = SeatsOf(seats, work[v].number)
      BY <2>3, <3>2, SeatCount DEF PoolInv, PoolTypes
    <3>4. QED
      BY <1>2, <2>6, <3>2, <3>3 DEF HasRoom
  <2>9. OneSeat'
    <3>1. SeatOf(e) = {} /\ e \in Employees
      BY <1>1, <2>1 DEF PoolInv, OneSeat
    <3>2. {s \in seats' : s.employee = e} = {x}
      BY <2>3, <2>4, <3>1 DEF SeatOf
    <3>3. \A f \in Employees \ {e} : {s \in seats' : s.employee = f} = SeatOf(f)
      BY <2>3, <2>4 DEF SeatOf
    <3>4. step'[e] = "ready" /\ \A f \in Employees \ {e} : step'[f] = step[f]
      BY <2>3, <1>1 DEF PoolInv, PoolTypes
    <3>5. QED
      BY <3>1, <3>2, <3>3, <3>4, OneSeatAfter DEF PoolInv
  <2>10. Kept'
    BY <2>3, <2>6, AwayType DEF PoolInv, Kept, PoolTypes, Bound
  <2>11. QED
    BY <2>5, <2>7, <2>8, <2>9, <2>10 DEF PoolInv
<1>5. QED
  BY <1>3, <1>4

\* A release takes a seat away and never gives its step back to a worker.
LEMMA ReleaseStep ==
  ASSUME PoolInv, NEW e \in Employees, Release(e)
  PROVE  PoolInv'
<1>1. /\ seats' = seats \ SeatOf(e)
      /\ step' = [step EXCEPT ![e] = "released"]
      /\ UNCHANGED <<number, lease, work>>
  BY DEF Release
<1>2. seats' \in SUBSET seats /\ IsFiniteSet(seats')
  BY <1>1, FS_Subset DEF PoolInv, PoolTypes
<1>3. PoolTypes' /\ Bound' /\ Locking'
  BY <1>1, <1>2 DEF PoolInv, PoolTypes, Bound, Locking, HoldsLock
<1>4. Reserved'
  <2>1. SUFFICES ASSUME NEW w \in Workers, work[w].phase = "seated"
                 PROVE  HasRoom(work[w].number, seats')
    BY <1>1 DEF Reserved, HasRoom
  <2>2. HasRoom(work[w].number, seats) /\ work[w].number \in Numbers
    BY <2>1 DEF PoolInv, Reserved, Bound, HoldsLock
  <2>3. /\ SeatsOf(seats', work[w].number) \in Nat /\ SeatsOf(seats, work[w].number) \in Nat
        /\ SeatsOf(seats', work[w].number) <= SeatsOf(seats, work[w].number)
    BY <1>2, SeatCount DEF PoolInv, PoolTypes
  <2>4. number[work[w].number].capacity \in Nat
    BY <2>2 DEF HasRoom, PoolInv, PoolTypes, NumberRow
  <2>5. QED
    BY <2>2, <2>3, <2>4 DEF HasRoom
<1>5. OneSeat'
  <2>1. /\ {s \in seats' : s.employee = e} = {}
        /\ \A f \in Employees \ {e} : {s \in seats' : s.employee = f} = SeatOf(f)
    BY <1>1 DEF SeatOf
  <2>2. step'[e] = "released" /\ \A f \in Employees \ {e} : step'[f] = step[f]
    BY <1>1 DEF PoolInv, PoolTypes
  <2>3. QED
    BY <2>1, <2>2, OneSeatAfter DEF PoolInv
<1>6. Kept'
  BY <1>1 DEF PoolInv, Kept, PoolTypes, Bound
<1>7. QED
  BY <1>3, <1>4, <1>5, <1>6 DEF PoolInv

\* A registration waits for the lock on its number: no room found is lost.
LEMMA RegisterStep ==
  ASSUME PoolInv, KeyInv, NEW h \in Handlers, NEW status, Register(h, status)
  PROVE  PoolInv'
<1>. DEFINE k == handler[h].key
            b == record[k].body
            r == [state |-> b.state, capacity |-> b.capacity]
<1>1. /\ number' = [number EXCEPT ![b.number] = r] /\ b.number \notin Locked
      /\ UNCHANGED <<seats, step, lease, work>>
  BY DEF Register
<1>2. b \in Bodies
  <2>1. k \in Keys /\ record[k] # None
    BY FreeJob DEF Register, KeyInv, Exclusive
  <2>2. QED
    BY <2>1 DEF KeyInv, RequestTypes, Entry
<1>. HIDE DEF b
<1>3. b.number \in Numbers /\ r \in NumberRow
  BY <1>2, PhonePoolConstants DEF NumberRow
<1>. HIDE DEF r
<1>4. PoolTypes'
  BY <1>1, <1>3 DEF PoolInv, PoolTypes
<1>5. Bound' /\ Locking' /\ Kept'
  BY <1>1 DEF PoolInv, Bound, Locking, Kept, HoldsLock
<1>6. OneSeat'
  BY <1>1 DEF PoolInv, OneSeat, SeatOf
<1>7. Reserved'
  <2>1. SUFFICES ASSUME NEW w \in Workers, work[w].phase = "seated"
                 PROVE  number'[work[w].number] = number[work[w].number]
    BY <1>1 DEF PoolInv, Reserved, HasRoom
  <2>2. work[w].number \in Numbers /\ work[w].number # b.number
    BY <1>1, <2>1 DEF PoolInv, Bound, HoldsLock, Locked, LockedBy
  <2>3. QED
    BY <1>1, <2>2 DEF PoolInv, PoolTypes
<1>8. QED
  BY <1>4, <1>5, <1>6, <1>7 DEF PoolInv

LEMMA PoolStutter ==
  ASSUME PoolInv, UNCHANGED pool
  PROVE  PoolInv'
BY DEF PoolInv, pool, PoolTypes, Bound, Locking, Reserved, OneSeat, Kept,
       HoldsLock, HasRoom, SeatOf

LEMMA PoolNext == KeyInv /\ PoolInv /\ [Next]_vars => PoolInv'
<1>. SUFFICES ASSUME KeyInv, PoolInv, [Next]_vars PROVE PoolInv'
  OBVIOUS
<1>1. CASE UNCHANGED vars
  BY <1>1, PoolStutter DEF vars
<1>2. ASSUME NEW w \in Workers,
             \/ \E e \in Employees : Claim(w, e)
             \/ Scan(w) \/ LockOne(w) \/ PoolIsFull(w)
             \/ Insert(w) \/ Commit(w) \/ Rollback(w)
      PROVE  PoolInv'
  BY <1>2, ClaimStep, ScanStep, LockStep, InsertStep, CommitStep, AwayStep
<1>3. ASSUME NEW e \in Employees, Release(e) PROVE PoolInv'
  BY <1>3, ReleaseStep
<1>4. ASSUME NEW h \in Handlers, NEW s \in {"201", "5xx"}, Register(h, s) PROVE PoolInv'
  BY <1>4, RegisterStep
<1>5. ASSUME NEW h \in Handlers,
             \/ \E k \in Keys, b \in Bodies :
                  Begin(h, k, b) \/ BeginUnheard(h, k, b) \/ Replay(h, k, b)
             \/ Refuse(h) \/ Fails(h) \/ Die(h)
             \/ \E written, told \in BOOLEAN : Record(h, written, told)
      PROVE  PoolInv'
  <2>1. UNCHANGED pool
    BY <1>5 DEF Begin, BeginUnheard, Replay, Refuse, Fails, Die, Record
  <2>2. QED
    BY <2>1, PoolStutter
<1>6. QED
  BY <1>1, <1>2, <1>3, <1>4, <1>5 DEF Next

\* The inductive invariant of the pool holds throughout.
LEMMA PoolInvariant == Spec => []PoolInv
BY KeyInvariant, PoolInit, PoolNext, PTL DEF Spec

\* A seat is added by a commit whose worker still holds the number's lock.
LEMMA FitStep ==
  PoolInv /\ [Next]_vars =>
    [\A s \in seats' \ seats :
       /\ number[s.number].state = "active"
       /\ SeatsOf(seats', s.number) <= number[s.number].capacity]_vars
<1>. SUFFICES ASSUME PoolInv, Next, NEW s \in seats' \ seats
              PROVE  /\ number[s.number].state = "active"
                     /\ SeatsOf(seats', s.number) <= number[s.number].capacity
  OBVIOUS
<1>1. PICK w \in Workers : Commit(w)
  BY DEF Next, pool, Claim, Scan, LockOne, PoolIsFull, Insert, Rollback,
         Release, Begin, BeginUnheard, Replay, Refuse, Fails, Register, Record, Die
<1>2. /\ work[w].phase = "seated"
      /\ s = [employee |-> work[w].employee, number |-> work[w].number]
      /\ seats' = seats \cup {s}
  BY <1>1 DEF Commit, SeatTaken
<1>3. s.number = work[w].number /\ s.number \in Numbers /\ HasRoom(s.number, seats)
  BY <1>2 DEF PoolInv, Bound, HoldsLock, Reserved
<1>4. number[s.number].state = "active" /\ number[s.number].capacity \in Nat
  BY <1>3 DEF HasRoom, PoolInv, PoolTypes, NumberRow
<1>5. /\ SeatsOf(seats, s.number) \in Nat /\ SeatsOf(seats', s.number) \in Nat
      /\ SeatsOf(seats', s.number) <= SeatsOf(seats, s.number) + 1
  BY <1>2, SeatCount DEF PoolInv, PoolTypes
<1>6. SeatsOf(seats, s.number) < number[s.number].capacity
  BY <1>3 DEF HasRoom
<1>7. QED
  BY <1>4, <1>5, <1>6

\* No claim over-seats a number or seats one that is not active, whatever was
\* committed between its snapshot and its lock (claim_slot's second statement).
THEOREM SeatsProved == Spec => SeatsFit
BY PoolInvariant, FitStep, PTL DEF Spec, SeatsFit

\* A step is ready exactly while its employee has one seat: the seat and the
\* step's outcome are one transaction, fenced by the lease (finish_step).
THEOREM SeatMatchesProved == Spec => []SeatMatchesStep
<1>1. PoolInv => SeatMatchesStep
  <2>1. SUFFICES ASSUME PoolInv, NEW e \in Employees
                 PROVE  Cardinality(SeatOf(e)) = IF step[e] = "ready" THEN 1 ELSE 0
    BY DEF SeatMatchesStep
  <2>2. CASE step[e] = "ready"
    <3>1. PICK s : SeatOf(e) = {s}
      BY <2>1, <2>2 DEF PoolInv, OneSeat
    <3>2. Cardinality({s}) = 1
      BY FS_Singleton
    <3>3. QED
      BY <2>2, <3>1, <3>2
  <2>3. CASE step[e] # "ready"
    <3>1. SeatOf(e) = {}
      BY <2>1, <2>3 DEF PoolInv, OneSeat
    <3>2. QED
      BY <2>3, <3>1, FS_EmptySet
  <2>4. QED
    BY <2>2, <2>3
<1>2. QED
  BY <1>1, PoolInvariant, PTL

\* Every variable keeps its type.
THEOREM PoolTypesProved == Spec => []TypeOK
<1>1. KeyInv /\ PoolInv => TypeOK
  BY DEF KeyInv, RequestTypes, Entry, PoolInv, PoolTypes, Seat, NumberRow, TypeOK
<1>2. QED
  BY <1>1, KeyInvariant, PoolInvariant, PTL
=============================================================================
