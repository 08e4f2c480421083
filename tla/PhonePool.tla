----------------------------- MODULE PhonePool -----------------------------
(***************************************************************************)
(* The pool of shared phone numbers (store/phone_pool.rs) and the requests  *)
(* that register them, behind the idempotency layer (store/idempotency.rs,  *)
(* replay_idempotent and record in main.rs).                               *)
(*                                                                         *)
(* A provisioning worker takes a seat in one transaction of two statements  *)
(* at READ COMMITTED: the first reads its candidates from a snapshot and    *)
(* locks one, skipping the locked; the second inserts the seat after asking *)
(* again.  The step's outcome is written in the same transaction, fenced by *)
(* the worker's lease.  Registrations write the number rows meanwhile, and  *)
(* releases free seats without a lock on the number.                       *)
(***************************************************************************)
EXTENDS Naturals, FiniteSets

CONSTANTS
  Numbers,    \* the region's numbers, ordered as their e164
  Employees,
  Workers,    \* provisioning workers
  Handlers,   \* requests the server serves at once
  Keys,       \* Idempotency-Key headers
  Bodies,     \* request bodies: [number, state, capacity]
  None,
  MaxRuns, MaxFaults  \* bounds: requests executed, mishaps

States == {"active", "pending_regulatory"}

ASSUME PhonePoolConstants ==
  /\ Numbers \subseteq Nat
  /\ Bodies \subseteq [number : Numbers, state : States, capacity : Nat]
  /\ None \notin Keys
  /\ None \notin [state : {"in_flight", "done"}, body : Bodies]
  /\ MaxRuns \in Nat /\ MaxFaults \in Nat

VARIABLES
  number,   \* phone_numbers: None until registered, else [state, capacity]
  seats,    \* number_allocations with released_at null: [employee, number]
  step,     \* the phone step: "pending", "ready" on a seat, "released"
  lease,    \* lease_owner of the step
  work,     \* the transaction each worker has open
  record,   \* idempotency_records: None or [state, body]
  handler,  \* the request each handler executes
  answered, \* keys whose client read an answer the record may keep, a 201
  applied,  \* how often each key's registration was committed
  lost,     \* keys whose begin or record was not heard of, or whose handler died
  runs, faults  \* requests executed and mishaps so far

pool == <<number, seats, step, lease, work>>
requests == <<record, handler, answered, applied, lost, runs>>
vars == <<pool, requests, faults>>

Away == [phase |-> "idle", employee |-> None, number |-> None,
         room |-> {}, rows |-> {}]
Free == [phase |-> "idle", key |-> None, status |-> None]

Init ==
  /\ number = [n \in Numbers |-> None]
  /\ seats = {}
  /\ step = [e \in Employees |-> "pending"]
  /\ lease = [e \in Employees |-> None]
  /\ work = [w \in Workers |-> Away]
  /\ record = [k \in Keys |-> None]
  /\ handler = [h \in Handlers |-> Free]
  /\ answered = {}
  /\ lost = {}
  /\ applied = [k \in Keys |-> 0]
  /\ runs = 0
  /\ faults = 0

Fault == faults < MaxFaults /\ faults' = faults + 1

-----------------------------------------------------------------------------
(* Taking a seat *)

SeatsOf(rows, n) == Cardinality({s \in rows : s.number = n})
SeatOf(e) == {s \in seats : s.employee = e}

\* The condition of both statements, on the seats their snapshot shows.
HasRoom(n, rows) ==
  /\ number[n] # None
  /\ number[n].state = "active"
  /\ SeatsOf(rows, n) < number[n].capacity

LockedBy(w) == IF work[w].phase \in {"locked", "seated"} THEN {work[w].number} ELSE {}
Locked == UNION {LockedBy(w) : w \in Workers}

\* claim_step: a step that is not ready, whose lease is free, the worker's own,
\* or another's and lapsed (any lease may lapse under a slow worker).
Claim(w, e) ==
  /\ work[w] = Away
  /\ step[e] = "pending"
  /\ lease' = [lease EXCEPT ![e] = w]
  /\ work' = [work EXCEPT ![w] = [Away EXCEPT !.phase = "claimed", !.employee = e]]
  /\ UNCHANGED <<number, seats, step, requests, faults>>

\* current_allocation answers with the seat the employee has; otherwise the
\* first statement takes its snapshot: the candidates and the seats it counts.
Scan(w) ==
  LET e == work[w].employee
      mine == {s.number : s \in SeatOf(e)} IN
  /\ work[w].phase = "claimed"
  /\ work' = [work EXCEPT ![w] =
       IF mine # {}
       THEN [@ EXCEPT !.phase = "kept", !.number = CHOOSE n \in mine : TRUE]
       ELSE [@ EXCEPT !.phase = "scanned", !.rows = seats,
                      !.room = {n \in Numbers : HasRoom(n, seats)}]]
  /\ UNCHANGED <<number, seats, step, lease, requests, faults>>

\* The snapshot's candidates that are not locked and, as the row now stands
\* and the seats then stood, still have room.
Candidates(w) ==
  {n \in work[w].room \ Locked : HasRoom(n, work[w].rows)}

\* FOR UPDATE SKIP LOCKED LIMIT 1, in the order of the numbers.
LockOne(w) ==
  /\ work[w].phase = "scanned"
  /\ \E n \in Candidates(w) :
       /\ \A m \in Candidates(w) : n <= m
       /\ work' = [work EXCEPT ![w] = [@ EXCEPT !.phase = "locked", !.number = n,
                                                !.room = {}, !.rows = {}]]
  /\ UNCHANGED <<number, seats, step, lease, requests, faults>>

\* No seat for this worker: the purchase that follows is Provisioning's, and
\* a region without a number fails the step, which is claimed again freely.
PoolIsFull(w) ==
  /\ work[w].phase = "scanned"
  /\ Candidates(w) = {}
  /\ work' = [work EXCEPT ![w] = Away]
  /\ UNCHANGED <<number, seats, step, lease, requests, faults>>

\* The room left to the first statement alone, as it once was.
Mut_RoomAsScanned(n) == TRUE

\* The second statement asks again, on a fresh snapshot and under the lock.
StillHasRoom(n) == HasRoom(n, seats)

\* It waits for a seat of the same employee that is written and not committed,
\* and fails on the unique index if one was committed.
Insert(w) ==
  LET e == work[w].employee
      n == work[w].number IN
  /\ work[w].phase = "locked"
  /\ \A v \in Workers \ {w} : ~(work[v].phase = "seated" /\ work[v].employee = e)
  /\ work' = [work EXCEPT ![w] = IF StillHasRoom(n) /\ SeatOf(e) = {}
                                 THEN [@ EXCEPT !.phase = "seated"] ELSE Away]
  /\ UNCHANGED <<number, seats, step, lease, requests, faults>>

Holds(w) == lease[work[w].employee] = w /\ step[work[w].employee] = "pending"

Mut_KeepSeatOnLostLease(w) ==
  IF work[w].phase = "seated"
  THEN {[employee |-> work[w].employee, number |-> work[w].number]} ELSE {}

\* The seat a worker's transaction commits: none once the lease is lost.
SeatTaken(w) ==
  IF work[w].phase = "seated" /\ Holds(w)
  THEN {[employee |-> work[w].employee, number |-> work[w].number]} ELSE {}

\* finish_step in the same transaction: the seat and the step's outcome are
\* committed together, or the lease was lost and both are rolled back.
Commit(w) ==
  LET e == work[w].employee IN
  /\ work[w].phase \in {"kept", "seated"}
  /\ seats' = seats \cup SeatTaken(w)
  /\ step' = IF Holds(w) THEN [step EXCEPT ![e] = "ready"] ELSE step
  /\ lease' = IF Holds(w) THEN [lease EXCEPT ![e] = None] ELSE lease
  /\ work' = [work EXCEPT ![w] = Away]
  /\ UNCHANGED <<number, requests, faults>>

\* The worker dies, or its transaction fails: everything is rolled back.
Rollback(w) ==
  /\ work[w] # Away
  /\ Fault
  /\ work' = [work EXCEPT ![w] = Away]
  /\ UNCHANGED <<number, seats, step, lease, requests>>

\* release_step of a pooled binding: the seat is freed, the number stays, and
\* the step is disabled, all in one transaction that locks no number.
Release(e) ==
  /\ step[e] = "ready"
  /\ seats' = seats \ SeatOf(e)
  /\ step' = [step EXCEPT ![e] = "released"]
  /\ UNCHANGED <<number, lease, work, requests, faults>>

-----------------------------------------------------------------------------
(* Requests with an Idempotency-Key *)

\* begin, committed before the handler runs: only the insert of the record
\* executes.  A record under another body is refused, one that is done is
\* replayed, one in flight is a 409: nothing changes.
Begin(h, k, b) ==
  /\ handler[h] = Free
  /\ record[k] = None
  /\ runs < MaxRuns
  /\ record' = [record EXCEPT ![k] = [state |-> "in_flight", body |-> b]]
  /\ handler' = [handler EXCEPT ![h] = [phase |-> "running", key |-> k, status |-> None]]
  /\ runs' = runs + 1
  /\ UNCHANGED <<pool, answered, applied, lost, faults>>

\* begin's commit landed and its acknowledgement was lost: the client is
\* answered a 5xx, no handler runs, and the record stays in flight.
BeginUnheard(h, k, b) ==
  /\ handler[h] = Free
  /\ record[k] = None
  /\ Fault
  /\ record' = [record EXCEPT ![k] = [state |-> "in_flight", body |-> b]]
  /\ lost' = lost \cup {k}
  /\ UNCHANGED <<pool, handler, answered, applied, runs>>

\* A client retries a key whose record is done: the recorded answer.
Replay(h, k, b) ==
  /\ handler[h] = Free
  /\ record[k] # None
  /\ record[k].state = "done" /\ record[k].body = b
  /\ k \notin answered
  /\ answered' = answered \cup {k}
  /\ UNCHANGED <<pool, record, handler, applied, lost, runs, faults>>

Ends(h, status) == handler' = [handler EXCEPT ![h].phase = "ran", ![h].status = status]

\* add_number refuses a body with no capacity.
Refuse(h) ==
  /\ handler[h].phase = "running"
  /\ record[handler[h].key].body.capacity < 1
  /\ Ends(h, "4xx")
  /\ UNCHANGED <<pool, record, answered, applied, lost, runs, faults>>

\* add_number: register's upsert waits for a claimer's lock on the row, and
\* sets state and capacity whatever they were and whoever sits there.  The
\* commit's acknowledgement may be lost: a 5xx for what was done.
Register(h, status) ==
  LET k == handler[h].key
      b == record[k].body IN
  /\ handler[h].phase = "running"
  /\ b.capacity >= 1
  /\ b.number \notin Locked
  /\ number' = [number EXCEPT ![b.number] = [state |-> b.state, capacity |-> b.capacity]]
  /\ applied' = [applied EXCEPT ![k] = @ + 1]
  /\ Ends(h, status)
  /\ IF status = "5xx" THEN Fault ELSE UNCHANGED faults
  /\ UNCHANGED <<seats, step, lease, work, record, answered, lost, runs>>

\* A 5xx before anything was written.
Fails(h) ==
  /\ handler[h].phase = "running"
  /\ Ends(h, "5xx")
  /\ Fault
  /\ UNCHANGED <<pool, record, answered, applied, lost, runs>>

\* An answer that is not kept leaves its key in flight.
Mut_NoRelease(h) ==
  IF handler[h].status # "201" THEN record
  ELSE [record EXCEPT ![handler[h].key].state = "done"]

\* complete keeps an answer in application/json, which of add_number's is the
\* 201 alone; release gives the key of any other back: a 5xx, and every
\* refusal, since an ApiError is application/problem+json whatever its status.
Written(h) ==
  LET k == handler[h].key IN
  IF handler[h].status # "201" THEN [record EXCEPT ![k] = None]
  ELSE [record EXCEPT ![k].state = "done"]

\* The key is given back when its answer could not be kept.
Mut_ReleaseUnwritten(h) == [record EXCEPT ![handler[h].key] = None]

\* A write that failed leaves the key in flight.
Unwritten(h) == record

\* record: the answer goes to the client whether or not the write succeeded,
\* and may not reach it.
Record(h, written, told) ==
  /\ handler[h].phase = "ran"
  /\ record' = IF written THEN Written(h) ELSE Unwritten(h)
  /\ lost' = IF written THEN lost ELSE lost \cup {handler[h].key}
  /\ IF written /\ told THEN UNCHANGED faults ELSE Fault
  /\ answered' = IF told /\ handler[h].status = "201"
                 THEN answered \cup {handler[h].key} ELSE answered
  /\ handler' = [handler EXCEPT ![h] = Free]
  /\ UNCHANGED <<pool, applied, runs>>

\* The process dies, or the client hangs up and the request is dropped.
Die(h) ==
  /\ handler[h] # Free
  /\ Fault
  /\ lost' = lost \cup {handler[h].key}
  /\ handler' = [handler EXCEPT ![h] = Free]
  /\ UNCHANGED <<pool, record, answered, applied, runs>>

Next ==
  \/ \E w \in Workers :
       \/ \E e \in Employees : Claim(w, e)
       \/ Scan(w) \/ LockOne(w) \/ PoolIsFull(w) \/ Insert(w) \/ Commit(w) \/ Rollback(w)
  \/ \E e \in Employees : Release(e)
  \/ \E h \in Handlers :
       \/ \E k \in Keys, b \in Bodies :
              Begin(h, k, b) \/ BeginUnheard(h, k, b) \/ Replay(h, k, b)
       \/ Refuse(h) \/ Fails(h) \/ Die(h)
       \/ \E s \in {"201", "5xx"} : Register(h, s)
       \/ \E written, told \in BOOLEAN : Record(h, written, told)

Spec == Init /\ [][Next]_vars

-----------------------------------------------------------------------------
(* Properties *)

\* The states each variable may take.
TypeOK ==
  /\ number \in [Numbers -> {None} \cup [state : States, capacity : Nat]]
  /\ seats \subseteq [employee : Employees, number : Numbers]
  /\ step \in [Employees -> {"pending", "ready", "released"}]
  /\ lease \in [Employees -> {None} \cup Workers]
  /\ record \in [Keys -> {None} \cup [state : {"in_flight", "done"}, body : Bodies]]
  /\ answered \subseteq Keys /\ lost \subseteq Keys
  /\ applied \in [Keys -> Nat]

\* A seat is only ever taken on a number that is active and has room for it as
\* the registrations then stand: a rival's seat committed, or the number sent
\* back to the regulator, between the claimer's snapshot and its lock is seen.
\* (A registration may lower the capacity under seats already taken.)
SeatsFit ==
  [][\A s \in seats' \ seats :
       /\ number[s.number].state = "active"
       /\ SeatsOf(seats', s.number) <= number[s.number].capacity]_vars

\* A step is ready exactly while its employee has a seat, and then one: a
\* worker whose lease was stolen after it took a seat leaves neither.
SeatMatchesStep ==
  \A e \in Employees : Cardinality(SeatOf(e)) = IF step[e] = "ready" THEN 1 ELSE 0

\* Once any client of a key has read that its request was done, nothing is
\* applied under that key again, whatever was lost on the way and however
\* often it is sent; and no two handlers ever execute one key. (A refusal
\* binds nothing: its key is free for the next request, under any body.)
AnsweredIsFinal ==
  [][/\ \A k \in answered : applied'[k] = applied[k]
     /\ \A g, h \in Handlers : g # h /\ handler[g] # Free => handler[g].key # handler[h].key]_vars

\* A key that answers 409 while no handler executes it was left so by a death,
\* a record that could not be written or a begin that was not acknowledged:
\* any other end, a failure included, frees the key or keeps its answer.
WedgedOnlyByFaults ==
  \A k \in Keys :
    /\ record[k] # None
    /\ record[k].state = "in_flight"
    /\ \A h \in Handlers : handler[h].key # k
    => k \in lost
=============================================================================
