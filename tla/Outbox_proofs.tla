---------------------------- MODULE Outbox_proofs ----------------------------
(***************************************************************************)
(* Proofs about Outbox, for any number of events, tenants and pollers and  *)
(* any value of the bounds: type correctness, exactly-once application,    *)
(* the bounds on invocations and on holders of a lease, the company stop,  *)
(* the round robin of a claim, and the implementation of Delivery.         *)
(***************************************************************************)
EXTENDS Outbox, TLAPS, FiniteSetTheorems

-----------------------------------------------------------------------------
(* What a claim may take: every operator of the SQL, in one fact.          *)

\* A batch only ever holds rows that passed the locked recheck.
LEMMA BatchIsDue ==
  ASSUME NEW S \in SUBSET Events, NEW B \in Batches(S)
  PROVE  B \in SUBSET Events /\ \A e \in B : DueRow(e)
BY DEF Batches

\* A shortlist holds events of the table.
LEMMA ShortlistOfEvents ==
  ASSUME NEW S \in Shortlists
  PROVE  S \in SUBSET Events
BY DEF Shortlists, Claimable

LEMMA MaxAttemptsNat == MaxAttempts \in Nat /\ 0 \in 0..MaxAttempts
BY OutboxAssumption

\* The updates the table sees keep a row a row.
LEMMA RowUpdates ==
  ASSUME NEW r \in Row
  PROVE  /\ [r EXCEPT !.available = "past"] \in Row
         /\ [r EXCEPT !.attempts = 0, !.available = "past"] \in Row
         /\ [r EXCEPT !.status = "published", !.error = "none"] \in Row
         /\ \A why \in Reasons : Failed(r, why) \in Row
         /\ r.attempts < MaxAttempts => Claimed(r) \in Row
<1>1. [r EXCEPT !.available = "past"] \in Row
  BY DEF Row
<1>2. \A n \in 0..MaxAttempts : [r EXCEPT !.attempts = n] \in Row
  BY DEF Row
<1>3. [r EXCEPT !.attempts = 0, !.available = "past"] \in Row
  <2>1. [r EXCEPT !.attempts = 0] \in Row
    BY <1>2, MaxAttemptsNat
  <2>2. QED
    BY <2>1 DEF Row
<1>4. [r EXCEPT !.status = "published", !.error = "none"] \in Row
  BY DEF Row
<1>5. ASSUME NEW why \in Reasons PROVE Failed(r, why) \in Row
  <2>1. [r EXCEPT !.attempts = MaxAttempts] \in Row
    BY <1>2, MaxAttemptsNat
  <2>2. [r EXCEPT !.error = why] \in Row
    BY DEF Row, Reasons
  <2>3. [[r EXCEPT !.attempts = MaxAttempts] EXCEPT !.error = why] \in Row
    BY <2>1 DEF Row, Reasons
  <2>4. QED
    BY <2>2, <2>3 DEF Failed
<1>6. ASSUME r.attempts < MaxAttempts PROVE Claimed(r) \in Row
  <2>1. r.attempts + 1 \in 0..MaxAttempts
    BY <1>6, MaxAttemptsNat DEF Row
  <2>2. [r EXCEPT !.attempts = r.attempts + 1] \in Row
    BY <1>2, <2>1
  <2>3. QED
    BY <2>2 DEF Row, Claimed
<1>7. QED
  BY <1>1, <1>3, <1>4, <1>5, <1>6

\* Moving one job of one poller keeps the job table a job table.
LEMMA JobUpdate ==
  ASSUME job \in [Pollers -> [Events -> JobState]],
         NEW p \in Pollers, NEW e \in Events, NEW s \in JobState, SetJob(p, e, s)
  PROVE  job' \in [Pollers -> [Events -> JobState]]
BY DEF SetJob

LEMMA JobStates ==
  /\ Reasons \subseteq JobState
  /\ {"none", "queued", "running", "retry"} \subseteq JobState
BY DEF JobState, Reasons

\* Replacing all of one poller's jobs, too.
LEMMA JobsUpdate ==
  ASSUME job \in [Pollers -> [Events -> JobState]],
         NEW p \in Pollers, NEW f \in [Events -> JobState], job' = [job EXCEPT ![p] = f]
  PROVE  job' \in [Pollers -> [Events -> JobState]]
OBVIOUS

-----------------------------------------------------------------------------
\* Every reachable state is well typed; in particular attempt_count never
\* passes MAX_ATTEMPTS (claim_of's WHERE attempt_count < $2, repeated under
\* the lock) and no event is revived beyond the model's bound.
THEOREM TypeCorrect == Spec => []TypeOK
<1> USE OutboxAssumption
<1>1. Init => TypeOK
  BY MaxAttemptsNat, JobStates DEF Init, TypeOK, Row, Absent, Reasons
<1>2. TypeOK /\ [Next]_vars => TypeOK'
  <2> SUFFICES ASSUME TypeOK, [Next]_vars PROVE TypeOK'
    OBVIOUS
  <2> USE DEF TypeOK
  <2>1. ASSUME NEW e \in Events, Enqueue(e) PROVE TypeOK'
    <3>1. Fresh \in Row
      BY MaxAttemptsNat DEF Fresh, Row
    <3>2. QED
      BY <2>1, <3>1 DEF Enqueue, pollers, history
  <2>2. ASSUME NEW e \in Events, LeaseExpires(e) PROVE TypeOK'
    <3>1. [row[e] EXCEPT !.available = "past"] \in Row
      BY RowUpdates
    <3>2. row' = [row EXCEPT ![e] = [row[e] EXCEPT !.available = "past"]]
      BY <2>2 DEF LeaseExpires
    <3>3. QED
      BY <2>2, <3>1, <3>2 DEF LeaseExpires, pollers
  <2>3. ASSUME NEW t \in Tenants, Stop(t) PROVE TypeOK'
    BY <2>3 DEF Stop, pollers, history
  <2>4. ASSUME NEW t \in Tenants, Resume(t) PROVE TypeOK'
    BY <2>4 DEF Resume, pollers, history
  <2>5. ASSUME NEW t \in Tenants, RequeueDeadLetters(t) PROVE TypeOK'
    <3> DEFINE R == Revivable(t)
    <3>1. \A e \in Events : [row[e] EXCEPT !.attempts = 0, !.available = "past"] \in Row
      BY RowUpdates
    <3>2. row' \in [Events -> Row]
      BY <2>5, <3>1 DEF RequeueDeadLetters
    <3>3. \A e \in R : revived[e] + 1 \in 0..MaxRevivals
      <4>1. R \subseteq Events
        BY DEF Revivable, OfTenant
      <4>2. \A e \in R : revived[e] < MaxRevivals
        BY <2>5 DEF RequeueDeadLetters
      <4>3. QED
        BY <4>1, <4>2
    <3>4. revived' \in [Events -> 0..MaxRevivals]
      <4>1. revived' = [e \in Events |-> IF e \in R THEN revived[e] + 1 ELSE revived[e]]
        BY <2>5 DEF RequeueDeadLetters
      <4>2. QED
        BY <3>3, <4>1
    <3>5. QED
      BY <2>5, <3>2, <3>4 DEF RequeueDeadLetters, pollers
  <2>6. ASSUME NEW p \in Pollers, ClaimSnapshot(p) PROVE TypeOK'
    <3>1. PICK S \in Shortlists : shortlist' = [shortlist EXCEPT ![p] = S]
      BY <2>6 DEF ClaimSnapshot
    <3>2. S \in SUBSET Events
      BY ShortlistOfEvents
    <3>3. QED
      BY <2>6, <3>1, <3>2 DEF ClaimSnapshot, table, history
  <2>7. ASSUME NEW p \in Pollers, ClaimCommit(p) PROVE TypeOK'
    <3> PICK B \in Batches(shortlist[p]) :
          /\ row' = [e \in Events |-> IF e \in B THEN Claimed(row[e]) ELSE row[e]]
          /\ job' = [job EXCEPT ![p] = [e \in Events |->
                       IF e \in B THEN "queued" ELSE "none"]]
          /\ lease' = [e \in Events |-> IF e \in B THEN lease[e] \cup {p} ELSE lease[e]]
      BY <2>7 DEF ClaimCommit
    <3>1. B \in SUBSET Events /\ \A e \in B : DueRow(e)
      BY BatchIsDue
    <3>2. \A e \in B : Claimed(row[e]) \in Row
      BY <3>1, RowUpdates DEF DueRow
    <3>3. row' \in [Events -> Row]
      BY <3>1, <3>2
    <3>4. job' \in [Pollers -> [Events -> JobState]]
      BY JobsUpdate, JobStates
    <3>5. lease' \in [Events -> SUBSET Pollers]
      OBVIOUS
    <3>6. QED
      BY <2>7, <3>3, <3>4, <3>5 DEF ClaimCommit
  <2>8. ASSUME NEW p \in Pollers, ClaimFails(p) PROVE TypeOK'
    BY <2>8 DEF ClaimFails, table, history
  <2>9. ASSUME NEW p \in Pollers, Crash(p) PROVE TypeOK'
    <3>1. [e \in Events |-> "none"] \in [Events -> JobState]
      BY JobStates
    <3>2. job' \in [Pollers -> [Events -> JobState]]
      BY <2>9, <3>1, JobsUpdate DEF Crash
    <3>3. crashes' \in 0..MaxCrashes
      BY <2>9 DEF Crash
    <3>4. phase' \in [Pollers -> {"idle", "claiming", "down"}]
      BY <2>9 DEF Crash
    <3>5. shortlist' \in [Pollers -> SUBSET Events]
      BY <2>9 DEF Crash
    <3>6. UNCHANGED <<row, stopped, locked, applied, runs, lease, revived>>
      BY <2>9 DEF Crash, table, history
    <3>7. QED
      BY <3>2, <3>3, <3>4, <3>5, <3>6
  <2>10. ASSUME NEW p \in Pollers, Restart(p) PROVE TypeOK'
    BY <2>10 DEF Restart, table, history
  <2>11. ASSUME NEW p \in Pollers, NEW e \in Events, Handle(p, e) PROVE TypeOK'
    <3>1. CASE StartHandler(p, e)
      BY <3>1, JobUpdate, JobStates DEF StartHandler, table
    <3>2. CASE CannotStart(p, e)
      BY <3>2, JobUpdate, JobStates DEF CannotStart, table, history
    <3>3. CASE HandlerSucceeds(p, e)
      <4>1. job' \in [Pollers -> [Events -> JobState]]
        BY <3>3, JobUpdate, JobStates DEF HandlerSucceeds
      <4>2. [row[e] EXCEPT !.status = "published", !.error = "none"] \in Row
        BY RowUpdates
      <4>3. \/ row' = [row EXCEPT ![e] =
                       [row[e] EXCEPT !.status = "published", !.error = "none"]]
            \/ row' = row
        BY <3>3 DEF HandlerSucceeds
      <4>4. applied' \in [Events -> Nat]
        BY <3>3 DEF HandlerSucceeds
      <4>5. row' \in [Events -> Row]
        BY <4>2, <4>3
      <4>6. QED
        BY <3>3, <4>1, <4>4, <4>5 DEF HandlerSucceeds
    <3>4. CASE HandlerFails(p, e)
      <4>1. job' \in [Pollers -> [Events -> JobState]]
        BY <3>4, JobUpdate, JobStates DEF HandlerFails
      <4>2. QED
        BY <3>4, <4>1 DEF HandlerFails, table, history
    <3>5. CASE CommitLost(p, e)
      BY <3>5, JobUpdate, JobStates DEF CommitLost, table, history
    <3>6. CASE RecordFailure(p, e)
      <4>1. job' \in [Pollers -> [Events -> JobState]]
        BY <3>6, JobUpdate, JobStates DEF RecordFailure
      <4>2. Failed(row[e], job[p][e]) \in Row
        BY <3>6, RowUpdates DEF RecordFailure
      <4>3. row' \in [Events -> Row]
        BY <3>6, <4>2 DEF RecordFailure
      <4>4. QED
        BY <3>6, <4>1, <4>3 DEF RecordFailure, history
    <3>7. CASE FailureLost(p, e)
      BY <3>7, JobUpdate, JobStates DEF FailureLost, table, history
    <3>8. QED
      BY <2>11, <3>1, <3>2, <3>3, <3>4, <3>5, <3>6, <3>7 DEF Handle
  <2>12. ASSUME NEW p \in Pollers, NEW t \in Tenants, TaskPanics(p, t) PROVE TypeOK'
    <3>1. [e \in Events |-> IF TenantOf[e] = t THEN "none" ELSE job[p][e]]
            \in [Events -> JobState]
      BY JobStates
    <3>2. job' \in [Pollers -> [Events -> JobState]]
      BY <2>12, <3>1, JobsUpdate DEF TaskPanics
    <3>3. QED
      BY <2>12, <3>2 DEF TaskPanics, table, history
  <2>13. CASE UNCHANGED vars
    BY <2>13 DEF vars, table, pollers, history
  <2>14. ASSUME NEW e \in Events, Seize(e) \/ LetGo(e) PROVE TypeOK'
    BY <2>14 DEF Seize, LetGo, pollers, history
  <2>15. QED
    BY <2>1, <2>2, <2>3, <2>4, <2>5, <2>6, <2>7, <2>8, <2>9, <2>10, <2>11, <2>12, <2>13, <2>14
       DEF Next
<1>3. QED
  BY <1>1, <1>2, PTL DEF Spec

-----------------------------------------------------------------------------
(* What one step of the system may do to one row of the table.             *)

Kept(e)      == /\ row'[e].status = row[e].status
                /\ row'[e].attempts = row[e].attempts
                /\ applied'[e] = applied[e]
Submitted(e) == /\ row[e].status = "absent" /\ row'[e] = Fresh
                /\ applied'[e] = applied[e]
Tried(e)     == /\ row[e].status = "pending" /\ row[e].attempts < MaxAttempts
                /\ row'[e].status = "pending"
                /\ row'[e].attempts = row[e].attempts + 1
                /\ applied'[e] = applied[e]
Published(e) == /\ row[e].status = "pending" /\ row'[e].status = "published"
                /\ row'[e].attempts = row[e].attempts
                /\ applied'[e] = applied[e] + 1
Buried(e)    == /\ row[e].status = "pending" /\ row'[e].status = "pending"
                /\ row'[e].attempts = MaxAttempts
                /\ applied'[e] = applied[e]
Revived(e)   == /\ row[e].status = "pending" /\ row[e].attempts = MaxAttempts
                /\ row'[e].status = "pending" /\ row'[e].attempts = 0
                /\ applied'[e] = applied[e]

RowStep(e) == \/ Kept(e) \/ Submitted(e) \/ Tried(e)
              \/ Published(e) \/ Buried(e) \/ Revived(e)

\* The fields of an updated row.
LEMMA RowFields ==
  ASSUME NEW r \in Row
  PROVE  /\ r.attempts \in 0..MaxAttempts
         /\ [r EXCEPT !.available = "past"].status = r.status
         /\ [r EXCEPT !.available = "past"].attempts = r.attempts
         /\ [r EXCEPT !.attempts = 0, !.available = "past"].status = r.status
         /\ [r EXCEPT !.attempts = 0, !.available = "past"].attempts = 0
         /\ [r EXCEPT !.status = "published", !.error = "none"].status = "published"
         /\ [r EXCEPT !.status = "published", !.error = "none"].attempts = r.attempts
         /\ Claimed(r).status = r.status
         /\ Claimed(r).attempts = r.attempts + 1
         /\ \A why \in Reasons :
              /\ Failed(r, why).status = r.status
              /\ Failed(r, why).attempts = IF why = "retry" THEN r.attempts ELSE MaxAttempts
<1>1. r.attempts \in 0..MaxAttempts
  BY DEF Row
<1>2. /\ [r EXCEPT !.available = "past"].status = r.status
      /\ [r EXCEPT !.available = "past"].attempts = r.attempts
  BY DEF Row
<1>3. /\ [r EXCEPT !.attempts = 0, !.available = "past"].status = r.status
      /\ [r EXCEPT !.attempts = 0, !.available = "past"].attempts = 0
  BY DEF Row
<1>4. /\ [r EXCEPT !.status = "published", !.error = "none"].status = "published"
      /\ [r EXCEPT !.status = "published", !.error = "none"].attempts = r.attempts
  BY DEF Row
<1>5. Claimed(r).status = r.status /\ Claimed(r).attempts = r.attempts + 1
  BY DEF Row, Claimed
<1>6. ASSUME NEW why \in Reasons
      PROVE  /\ Failed(r, why).status = r.status
             /\ Failed(r, why).attempts = IF why = "retry" THEN r.attempts ELSE MaxAttempts
  BY DEF Row, Failed
<1>7. QED
  BY <1>1, <1>2, <1>3, <1>4, <1>5, <1>6

\* Every step of the system is, row by row, one of the six.
LEMMA EveryStepIsARowStep ==
  ASSUME TypeOK, [Next]_vars, NEW x \in Events
  PROVE  RowStep(x)
<1> USE DEF RowStep
<1>0. row \in [Events -> Row] /\ row[x] \in Row /\ row[x].attempts \in 0..MaxAttempts
  BY RowFields DEF TypeOK
<1>1. ASSUME UNCHANGED <<row, applied>> PROVE RowStep(x)
  BY <1>1 DEF Kept
<1>2. ASSUME NEW e \in Events, Enqueue(e) PROVE RowStep(x)
  <2>1. applied' = applied
    BY <1>2 DEF Enqueue, history
  <2>2. CASE x = e /\ row[e].status = "absent"
    BY <1>0, <1>2, <2>1, <2>2 DEF Enqueue, Submitted
  <2>3. CASE ~(x = e /\ row[e].status = "absent")
    BY <1>0, <1>2, <2>1, <2>3 DEF Enqueue, Kept
  <2>4. QED
    BY <2>2, <2>3
<1>3. ASSUME NEW e \in Events, LeaseExpires(e) PROVE RowStep(x)
  <2>1. row' = [row EXCEPT ![e] = [row[e] EXCEPT !.available = "past"]] /\ applied' = applied
    BY <1>3 DEF LeaseExpires
  <2>2. QED
    BY <1>0, <2>1, RowFields DEF Kept
<1>4. ASSUME NEW t \in Tenants, RequeueDeadLetters(t) PROVE RowStep(x)
  <2>1. /\ row' = [e \in Events |->
                     IF e \in Revivable(t)
                     THEN [row[e] EXCEPT !.attempts = 0, !.available = "past"]
                     ELSE row[e]]
        /\ applied' = applied
    BY <1>4 DEF RequeueDeadLetters
  <2>2. CASE x \in Revivable(t)
    <3>1. row[x].status = "pending" /\ row[x].attempts = MaxAttempts
      BY <1>0, <2>2, MaxAttemptsNat DEF Revivable, DeadLetter, Unpublished, OfTenant
    <3>2. QED
      BY <1>0, <2>1, <2>2, <3>1, RowFields DEF Revived
  <2>3. CASE x \notin Revivable(t)
    BY <2>1, <2>3 DEF Kept
  <2>4. QED
    BY <2>2, <2>3
<1>5. ASSUME NEW p \in Pollers, ClaimCommit(p) PROVE RowStep(x)
  <2>1. PICK B \in Batches(shortlist[p]) :
          row' = [e \in Events |-> IF e \in B THEN Claimed(row[e]) ELSE row[e]]
    BY <1>5 DEF ClaimCommit
  <2>2. applied' = applied
    BY <1>5 DEF ClaimCommit
  <2>3. B \in SUBSET Events /\ \A e \in B : DueRow(e)
    BY BatchIsDue DEF TypeOK
  <2>4. CASE x \in B
    BY <1>0, <2>1, <2>2, <2>3, <2>4, RowFields DEF DueRow, Unpublished, Tried
  <2>5. CASE x \notin B
    BY <2>1, <2>2, <2>5 DEF Kept
  <2>6. QED
    BY <2>4, <2>5
<1>6. ASSUME NEW p \in Pollers, NEW e \in Events, HandlerSucceeds(p, e) PROVE RowStep(x)
  <2>1. CASE Unpublished(e)
    <3>1. /\ row' = [row EXCEPT ![e] = [row[e] EXCEPT !.status = "published", !.error = "none"]]
          /\ applied' = [applied EXCEPT ![e] = @ + 1]
      BY <1>6, <2>1 DEF HandlerSucceeds
    <3>2. CASE x = e
      BY <1>0, <2>1, <3>1, <3>2, RowFields DEF Published, Unpublished, TypeOK
    <3>3. CASE x # e
      BY <1>0, <3>1, <3>3 DEF Kept, TypeOK
    <3>4. QED
      BY <3>2, <3>3
  <2>2. CASE ~Unpublished(e)
    BY <1>1, <1>6, <2>2 DEF HandlerSucceeds
  <2>3. QED
    BY <2>1, <2>2
<1>7. ASSUME NEW p \in Pollers, NEW e \in Events, RecordFailure(p, e) PROVE RowStep(x)
  <2>1. /\ job[p][e] \in Reasons
        /\ row' = [row EXCEPT ![e] =
                     IF Unpublished(e) THEN Failed(row[e], job[p][e]) ELSE row[e]]
        /\ applied' = applied
    BY <1>7 DEF RecordFailure, history
  <2>2. CASE x = e /\ Unpublished(e)
    BY <1>0, <2>1, <2>2, RowFields DEF Unpublished, Kept, Buried
  <2>3. CASE ~(x = e /\ Unpublished(e))
    BY <1>0, <2>1, <2>3 DEF Kept
  <2>4. QED
    BY <2>2, <2>3
<1>8. QED
  BY <1>1, <1>2, <1>3, <1>4, <1>5, <1>6, <1>7
     DEF Next, Handle, Seize, LetGo, Stop, Resume, ClaimSnapshot, ClaimFails, Crash, Restart,
         StartHandler, CannotStart, HandlerFails, CommitLost, FailureLost, TaskPanics,
         vars, table, history

-----------------------------------------------------------------------------
\* Exactly once: whatever the interleaving of claims, lease expiries, crashes
\* and revivals, the handler's committed transaction and published_at go
\* together (loops/outbox.rs handle: mark_done inside the tenant transaction).
THEOREM AppliedExactlyOnce == Spec => []AppliedOnce
<1>1. Init => AppliedOnce
  BY DEF Init, AppliedOnce, Absent
<1>2. TypeOK /\ AppliedOnce /\ [Next]_vars => AppliedOnce'
  <2> SUFFICES ASSUME TypeOK, AppliedOnce, [Next]_vars, NEW e \in Events
               PROVE  applied'[e] = IF row'[e].status = "published" THEN 1 ELSE 0
    BY DEF AppliedOnce
  <2>1. applied[e] = IF row[e].status = "published" THEN 1 ELSE 0
    BY DEF AppliedOnce
  <2>2. RowStep(e)
    BY EveryStepIsARowStep
  <2>3. QED
    BY <2>1, <2>2 DEF RowStep, Kept, Submitted, Tried, Published, Buried, Revived, Fresh
<1>3. QED
  BY <1>1, <1>2, TypeCorrect, PTL DEF Spec

\* The outbox keeps the promise of Delivery: bounded tries, one effect, a
\* published event never touched again, attempts handed back only to an event
\* that had used them all.
THEOREM OutboxImplementsDelivery == Spec => ImplementsDelivery
<1> DEFINE item == [e \in Events |-> [status  |-> row[e].status,
                                     tries   |-> row[e].attempts,
                                     effects |-> applied[e]]]
<1>1. Init => Promise!Init
  BY DEF Init, Promise!Init, Absent
<1>2. ASSUME TypeOK, TypeOK', AppliedOnce, AppliedOnce', [Next]_vars
      PROVE  [Promise!Next]_item
  <2>1. item' \in [Events -> Promise!Item]
    <3>1. \A e \in Events : row'[e] \in Row /\ applied'[e] \in {0, 1}
      BY <1>2 DEF TypeOK, AppliedOnce
    <3>2. QED
      BY <3>1 DEF Promise!Item, Row
  <2>2. ASSUME NEW e \in Events
        PROVE  \/ item'[e] = item[e]
               \/ Promise!Submit(item[e], item'[e])  \/ Promise!Try(item[e], item'[e])
               \/ Promise!Publish(item[e], item'[e]) \/ Promise!Bury(item[e], item'[e])
               \/ Promise!Revive(item[e], item'[e])
    <3>1. RowStep(e)
      BY <1>2, EveryStepIsARowStep
    <3>2. /\ applied[e] = IF row[e].status = "published" THEN 1 ELSE 0
          /\ applied'[e] = IF row'[e].status = "published" THEN 1 ELSE 0
      BY <1>2 DEF AppliedOnce
    <3>3. /\ item[e] = [status |-> row[e].status, tries |-> row[e].attempts,
                        effects |-> applied[e]]
          /\ item'[e] = [status |-> row'[e].status, tries |-> row'[e].attempts,
                         effects |-> applied'[e]]
      OBVIOUS
    <3> HIDE DEF item
    <3>4. CASE Kept(e)
      BY <3>3, <3>4 DEF Kept
    <3>5. CASE Submitted(e)
      BY <3>2, <3>3, <3>5 DEF Submitted, Fresh, Promise!Submit
    <3>6. CASE Tried(e)
      BY <3>3, <3>6 DEF Tried, Promise!Try
    <3>7. CASE Published(e)
      <4>1. applied'[e] = 1 /\ row[e].status = "pending" /\ row'[e].status = "published"
        BY <3>2, <3>7 DEF Published
      <4>2. row'[e].attempts = row[e].attempts
        BY <3>7 DEF Published
      <4>3. item'[e] = [status |-> "published", tries |-> row[e].attempts, effects |-> 1]
        BY <3>3, <4>1, <4>2
      <4>4. item[e].status = "pending" /\ item[e].tries = row[e].attempts
        BY <3>3, <4>1
      <4>5. QED
        BY <4>3, <4>4 DEF Promise!Publish
    <3>8. CASE Buried(e)
      BY <3>3, <3>8 DEF Buried, Promise!Bury
    <3>9. CASE Revived(e)
      BY <3>3, <3>9 DEF Revived, Promise!Revive
    <3>10. QED
      BY <3>1, <3>4, <3>5, <3>6, <3>7, <3>8, <3>9 DEF RowStep
  <2>3. QED
    BY <2>1, <2>2 DEF Promise!Next
<1>3. QED
  BY <1>1, <1>2, TypeCorrect, AppliedExactlyOnce, PTL
     DEF Spec, ImplementsDelivery, Promise!Spec

-----------------------------------------------------------------------------
(* What one step of the system may do to the holders of one event.         *)

\* Nobody takes hold of e: an attempt may be burnt, a lease or a holder lost.
Released(e) ==
  /\ runs'[e] = runs[e] /\ revived'[e] = revived[e]
  /\ row'[e].attempts >= row[e].attempts \/ (row[e].status = "absent" /\ row'[e] = Fresh)
  /\ lease'[e] \subseteq lease[e]
  /\ row'[e].status = "absent" => row'[e] = row[e]
  /\ row'[e].available = "past" => row[e].available = "past" \/ row[e].status = "absent"
                                  \/ lease'[e] = {}
  /\ \A p \in Pollers : job'[p][e] \in {"none", job[p][e]}
                        \/ (job[p][e] # "none" /\ job'[p][e] # "queued")

\* A claim takes it, on an attempt of its own.
Taken(p, e) ==
  /\ DueRow(e) /\ row'[e] = Claimed(row[e]) /\ lease'[e] = lease[e] \cup {p}
  /\ runs'[e] = runs[e] /\ revived'[e] = revived[e]
  /\ \A q \in Pollers \ {p} : job'[q][e] = job[q][e]

\* Its handler is invoked.
Begun(p, e) ==
  /\ job[p][e] = "queued" /\ job'[p][e] = "running" /\ runs'[e] = runs[e] + 1
  /\ row'[e] = row[e] /\ lease'[e] = lease[e] /\ revived'[e] = revived[e]
  /\ \A q \in Pollers \ {p} : job'[q][e] = job[q][e]

\* An operator hands it back.
HandedBack(e) ==
  /\ DeadLetter(e) /\ row'[e].status = row[e].status /\ row'[e].attempts = 0
  /\ revived'[e] = revived[e] + 1 /\ runs'[e] = runs[e]
  /\ \A q \in Pollers : job'[q][e] = job[q][e]

HolderStep(e) ==
  \/ Released(e) \/ HandedBack(e)
  \/ \E p \in Pollers : Taken(p, e) \/ Begun(p, e)

LEMMA RowsOnly ==
  ASSUME TypeOK, NEW x \in Events, UNCHANGED <<job, runs, lease, revived>>,
         row'[x].attempts >= row[x].attempts,
         row'[x].status = "absent" => row'[x] = row[x],
         row'[x].available = "past" => row[x].available = "past" \/ row[x].status = "absent"
  PROVE  Released(x)
BY DEF Released

\* The steps of a handler that do not invoke one.
LEMMA JobMoves ==
  ASSUME TypeOK, NEW p \in Pollers, NEW e \in Events, NEW x \in Events, NEW s \in JobState,
         SetJob(p, e, s), s # "queued", job[p][e] # "none",
         UNCHANGED <<runs, lease, revived>>,
         row'[x].attempts >= row[x].attempts,
         row'[x].status = "absent" => row'[x] = row[x],
         row'[x].available = "past" => row[x].available = "past"
  PROVE  Released(x)
<1>1. \A q \in Pollers : job'[q][x] = IF q = p /\ x = e THEN s ELSE job[q][x]
  BY DEF SetJob, TypeOK
<1>2. QED
  BY <1>1 DEF Released

LEMMA JobsDropped ==
  ASSUME TypeOK, NEW x \in Events, UNCHANGED <<row, runs, lease, revived>>,
         \A q \in Pollers : job'[q][x] \in {"none", job[q][x]}
  PROVE  Released(x)
<1>1. row[x].attempts \in Nat
  BY OutboxAssumption, RowFields DEF TypeOK
<1>2. QED
  BY <1>1 DEF Released

LEMMA HandlerSteps ==
  ASSUME TypeOK, NEW p \in Pollers, NEW e \in Events, Handle(p, e), NEW x \in Events
  PROVE  HolderStep(x)
<1>. USE DEF HolderStep
<1>0. row[x] \in Row /\ row[x].attempts \in 0..MaxAttempts /\ row[x].attempts \in Nat
      /\ MaxAttempts \in Nat
  BY MaxAttemptsNat, RowFields DEF TypeOK
<1>1. CASE StartHandler(p, e)
  <2>1. /\ UNCHANGED <<row, lease, revived>> /\ job[p][e] = "queued"
        /\ \A q \in Pollers : job'[q][x] = IF q = p /\ x = e THEN "running" ELSE job[q][x]
        /\ runs'[x] = IF x = e THEN runs[e] + 1 ELSE runs[x]
    BY <1>1 DEF StartHandler, SetJob, TypeOK, table
  <2>2. CASE x = e
    BY <2>1, <2>2 DEF Begun
  <2>3. CASE x # e
    BY <1>0, <2>1, <2>3 DEF Released
  <2>4. QED
    BY <2>2, <2>3
<1>2. CASE CannotStart(p, e)
  BY <1>0, <1>2, JobMoves, JobStates DEF CannotStart, table, history
<1>3. CASE HandlerSucceeds(p, e)
  <2>1. CASE /\ Unpublished(e) /\ SetJob(p, e, "none")
             /\ row' = [row EXCEPT ![e].status = "published", ![e].error = "none"]
    <3>1. row'[x] = IF x = e THEN [row[x] EXCEPT !.status = "published", !.error = "none"]
                             ELSE row[x]
      BY <2>1 DEF TypeOK
    <3>2. /\ row'[x].attempts >= row[x].attempts
          /\ row'[x].status = "absent" => row'[x] = row[x]
          /\ row'[x].available = "past" => row[x].available = "past"
      BY <1>0, <3>1 DEF Row
    <3>3. job[p][e] # "none" /\ UNCHANGED <<runs, lease, revived>>
      BY <1>3 DEF HandlerSucceeds
    <3>4. QED
      BY <2>1, <3>2, <3>3, JobMoves, JobStates
  <2>2. CASE SetJob(p, e, "retry") /\ UNCHANGED row
    BY <1>0, <1>3, <2>2, JobMoves, JobStates DEF HandlerSucceeds
  <2>3. QED
    BY <1>3, <2>1, <2>2 DEF HandlerSucceeds
<1>4. CASE HandlerFails(p, e)
  <2>1. PICK why \in Reasons : SetJob(p, e, why)
    BY <1>4 DEF HandlerFails
  <2>2. why \in JobState /\ why # "queued" /\ job[p][e] # "none"
        /\ UNCHANGED <<row, runs, lease, revived>>
    BY <1>4, JobStates DEF HandlerFails, table, history, Reasons
  <2>3. QED
    BY <1>0, <2>1, <2>2, JobMoves
<1>5. CASE CommitLost(p, e)
  BY <1>0, <1>5, JobMoves, JobStates DEF CommitLost, table, history
<1>6. CASE RecordFailure(p, e)
  <2>. DEFINE why == job[p][e]
  <2>1. /\ why \in Reasons /\ SetJob(p, e, "none") /\ UNCHANGED <<runs, lease, revived>>
        /\ row' = [row EXCEPT ![e] = IF Unpublished(e) THEN Failed(@, why) ELSE @]
    BY <1>6 DEF RecordFailure, history
  <2>2. why # "none"
    BY <2>1 DEF Reasons
  <2>. HIDE DEF why
  <2>3. row'[x] \in {row[x], Failed(row[x], why)}
    BY <2>1 DEF TypeOK
  <2>4. /\ Failed(row[x], why).attempts >= row[x].attempts
        /\ Failed(row[x], why).status = row[x].status
        /\ Failed(row[x], why).available = row[x].available
    <3>1. Failed(row[x], why).available = row[x].available
      BY <1>0 DEF Row, Failed
    <3>2. QED
      BY <1>0, <2>1, <3>1, RowFields
  <2>5. row[x].status = "absent" => row'[x] = row[x]
    BY <2>1 DEF TypeOK, Unpublished
  <2>6. /\ row'[x].attempts >= row[x].attempts
        /\ row'[x].status = "absent" => row'[x] = row[x]
        /\ row'[x].available = "past" => row[x].available = "past"
    BY <1>0, <2>3, <2>4, <2>5
  <2>7. QED
    BY <2>1, <2>2, <2>6, JobMoves, JobStates DEF why
<1>7. CASE FailureLost(p, e)
  <2>1. job[p][e] # "none"
    BY <1>7 DEF FailureLost, Reasons
  <2>2. QED
    BY <1>0, <1>7, <2>1, JobMoves, JobStates DEF FailureLost, table, history
<1>8. QED
  BY <1>1, <1>2, <1>3, <1>4, <1>5, <1>6, <1>7 DEF Handle

\* Every step of the system is, event by event, one of the four.
LEMMA EveryStepIsAHolderStep ==
  ASSUME TypeOK, [Next]_vars, NEW x \in Events
  PROVE  HolderStep(x)
<1>. USE DEF HolderStep
<1>0. row[x] \in Row /\ row[x].attempts \in 0..MaxAttempts /\ row[x].attempts \in Nat
      /\ MaxAttempts \in Nat
  BY MaxAttemptsNat, RowFields DEF TypeOK
<1>1. ASSUME NEW e \in Events, Enqueue(e) PROVE HolderStep(x)
  <2>1. /\ UNCHANGED <<job, runs, lease, revived>>
        /\ row'[x] = IF x = e /\ row[x].status = "absent" THEN Fresh ELSE row[x]
    BY <1>1 DEF Enqueue, pollers, history, TypeOK
  <2>2. CASE row'[x] = row[x]
    BY <1>0, <2>1, <2>2, RowsOnly
  <2>3. CASE row[x].status = "absent" /\ row'[x] = Fresh
    BY <1>0, <2>1, <2>3 DEF Released, Fresh
  <2>4. QED
    BY <2>1, <2>2, <2>3
<1>2. ASSUME NEW e \in Events, LeaseExpires(e) PROVE HolderStep(x)
  <2>1. /\ UNCHANGED <<job, runs, revived>> /\ row[e].status = "pending"
        /\ row'[x] = IF x = e THEN [row[x] EXCEPT !.available = "past"] ELSE row[x]
        /\ lease'[x] = IF x = e THEN {} ELSE lease[x]
    BY <1>2 DEF LeaseExpires, pollers, TypeOK, Unpublished
  <2>2. CASE x = e
    <3>1. row'[x].status = "pending" /\ row'[x].attempts = row[x].attempts
      BY <1>0, <2>1, <2>2, RowFields
    <3>2. QED
      BY <1>0, <2>1, <2>2, <3>1 DEF Released
  <2>3. CASE x # e
    BY <1>0, <2>1, <2>3 DEF Released
  <2>4. QED
    BY <2>2, <2>3
<1>3. ASSUME NEW t \in Tenants, RequeueDeadLetters(t) PROVE HolderStep(x)
  <2>1. UNCHANGED <<job, runs, lease>>
    BY <1>3 DEF RequeueDeadLetters, pollers
  <2>2. CASE x \in Revivable(t)
    <3>1. /\ DeadLetter(x) /\ revived'[x] = revived[x] + 1
          /\ row'[x] = [row[x] EXCEPT !.attempts = 0, !.available = "past"]
      BY <1>3, <2>2 DEF RequeueDeadLetters, Revivable
    <3>2. row'[x].status = row[x].status /\ row'[x].attempts = 0
      BY <1>0, <3>1, RowFields
    <3>3. QED
      BY <2>1, <3>1, <3>2 DEF HandedBack
  <2>3. CASE x \notin Revivable(t)
    <3>1. row'[x] = row[x] /\ revived'[x] = revived[x]
      BY <1>3, <2>3 DEF RequeueDeadLetters
    <3>2. QED
      BY <1>0, <2>1, <3>1 DEF Released
  <2>4. QED
    BY <2>2, <2>3
<1>4. ASSUME NEW p \in Pollers, ClaimCommit(p) PROVE HolderStep(x)
  <2>1. PICK B \in Batches(shortlist[p]) :
          /\ row' = [e \in Events |-> IF e \in B THEN Claimed(row[e]) ELSE row[e]]
          /\ job' = [job EXCEPT ![p] = [e \in Events |->
                                          IF e \in B THEN "queued" ELSE "none"]]
          /\ lease' = [e \in Events |-> IF e \in B THEN lease[e] \cup {p} ELSE lease[e]]
    BY <1>4 DEF ClaimCommit
  <2>2. UNCHANGED <<runs, revived>>
    BY <1>4 DEF ClaimCommit
  <2>3. \A q \in Pollers :
          job'[q][x] = IF q = p THEN (IF x \in B THEN "queued" ELSE "none") ELSE job[q][x]
    BY <2>1 DEF TypeOK
  <2>4. x \in B => DueRow(x)
    BY BatchIsDue DEF TypeOK
  <2>5. CASE x \in B
    BY <2>1, <2>2, <2>3, <2>4, <2>5 DEF Taken
  <2>6. CASE x \notin B
    BY <1>0, <2>1, <2>2, <2>3, <2>6 DEF Released
  <2>7. QED
    BY <2>5, <2>6
<1>5. ASSUME NEW p \in Pollers, Crash(p) PROVE HolderStep(x)
  <2>1. UNCHANGED <<row, runs, lease, revived>>
    BY <1>5 DEF Crash, table, history
  <2>2. \A q \in Pollers : job'[q][x] \in {"none", job[q][x]}
    BY <1>5 DEF Crash, TypeOK
  <2>3. QED
    BY <2>1, <2>2, JobsDropped
<1>6. ASSUME NEW p \in Pollers, NEW t \in Tenants, TaskPanics(p, t) PROVE HolderStep(x)
  <2>1. UNCHANGED <<row, runs, lease, revived>>
    BY <1>6 DEF TaskPanics, table, history
  <2>2. \A q \in Pollers : job'[q][x] \in {"none", job[q][x]}
    BY <1>6 DEF TaskPanics, TypeOK
  <2>3. QED
    BY <2>1, <2>2, JobsDropped
<1>7. ASSUME UNCHANGED <<row, job, runs, lease, revived>> PROVE HolderStep(x)
  BY <1>7, JobsDropped
<1>8. ASSUME NEW t \in Tenants, Stop(t) \/ Resume(t) PROVE HolderStep(x)
  BY <1>7, <1>8 DEF Stop, Resume, pollers, history
<1>12. ASSUME NEW e \in Events, Seize(e) \/ LetGo(e) PROVE HolderStep(x)
  BY <1>7, <1>12 DEF Seize, LetGo, pollers, history
<1>9. ASSUME NEW p \in Pollers, ClaimSnapshot(p) \/ ClaimFails(p) \/ Restart(p)
      PROVE  HolderStep(x)
  BY <1>7, <1>9 DEF ClaimSnapshot, ClaimFails, Restart, table, history
<1>10. CASE UNCHANGED vars
  BY <1>7, <1>10 DEF vars, table, pollers, history
<1>13. QED
  BY <1>1, <1>2, <1>3, <1>4, <1>5, <1>6, <1>8, <1>9, <1>10, <1>12, HandlerSteps DEF Next

-----------------------------------------------------------------------------
\* A lease that has run out, or was never given, has no holder; one that has
\* not run out has one.
Leased(e) ==
  revived[e] = 0 =>
    /\ row[e].available = "past" \/ row[e].status = "absent" => lease[e] = {}
    /\ \A p, q \in Holders(e) : p = q

LEMMA LeasedStep ==
  ASSUME TypeOK, NEW e \in Events, Leased(e), HolderStep(e)
  PROVE  Leased(e)'
<1>0. /\ row[e] \in Row /\ revived[e] \in Nat /\ lease[e] \subseteq Pollers
  BY OutboxAssumption DEF TypeOK
<1>1. CASE Released(e)
  <2>1. Holders(e)' \subseteq Holders(e)
    BY <1>0, <1>1 DEF Released, Holders
  <2>2. row'[e].status = "absent" => row[e].status = "absent"
    BY <1>1 DEF Released
  <2>3. QED
    BY <1>1, <2>1, <2>2 DEF Released, Leased
<1>2. CASE HandedBack(e)
  BY <1>0, <1>2 DEF HandedBack, Leased
<1>3. ASSUME NEW p \in Pollers, Taken(p, e) PROVE Leased(e)'
  <2>1. SUFFICES ASSUME revived[e] = 0 PROVE Leased(e)'
    BY <1>3 DEF Taken, Leased
  <2>2. lease[e] = {} /\ row[e].status = "pending"
    BY <1>3, <2>1 DEF Taken, DueRow, Leased, Unpublished
  <2>3. row'[e].available = "future" /\ row'[e].status = "pending" /\ lease'[e] = {p}
    BY <1>0, <1>3, <2>2 DEF Taken, Claimed, Row
  <2>4. Holders(e)' \subseteq {p}
    BY <2>3 DEF Holders
  <2>5. QED
    BY <2>3, <2>4 DEF Leased
<1>4. ASSUME NEW p \in Pollers, Begun(p, e) PROVE Leased(e)'
  <2>1. Holders(e)' = Holders(e)
    BY <1>0, <1>4 DEF Begun, Holders
  <2>2. QED
    BY <1>4, <2>1 DEF Begun, Leased
<1>5. QED
  BY <1>1, <1>2, <1>3, <1>4 DEF HolderStep

\* While a lease has not run out nobody else holds the event (claim_of's
\* available_at, LEASE_SECS), unless an operator has handed it back.
THEOREM LeaseHeldByOne == Spec => []LeaseIsExclusive
<1>. DEFINE L == \A e \in Events : Leased(e)
<1>1. Init => L
  BY DEF Init, Leased, Holders
<1>2. TypeOK /\ L /\ [Next]_vars => L'
  BY LeasedStep, EveryStepIsAHolderStep
<1>3. L => LeaseIsExclusive
  <2>1. ASSUME NEW e \in Events, Leased(e), revived[e] = 0
        PROVE  Cardinality(Holders(e)) <= 1
    <3>1. CASE Holders(e) = {}
      BY <3>1, FS_EmptySet
    <3>2. CASE Holders(e) # {}
      <4>1. PICK p : Holders(e) = {p}
        BY <2>1, <3>2 DEF Leased
      <4>2. Cardinality({p}) = 1
        BY FS_Singleton
      <4>3. QED
        BY <4>1, <4>2
    <3>3. QED
      BY <3>1, <3>2
  <2>2. QED
    BY <2>1 DEF LeaseIsExclusive
<1>4. QED
  BY <1>1, <1>2, <1>3, TypeCorrect, PTL DEF Spec

-----------------------------------------------------------------------------
\* The claims of e whose handler has not been invoked.
Queued(e) == {p \in Pollers : job[p][e] = "queued"}

\* An invocation is paid for by an attempt: those an operator gave back were
\* all used, and what is queued was counted when it was claimed.
Counted(e) ==
  /\ row[e].status = "absent" => row[e].attempts = 0
  /\ runs[e] + Cardinality(Queued(e)) <= MaxAttempts * revived[e] + row[e].attempts

LEMMA QueuedIsFinite ==
  ASSUME NEW e PROVE IsFiniteSet(Queued(e)) /\ Cardinality(Queued(e)) \in Nat
<1>1. Queued(e) \subseteq Pollers
  BY DEF Queued
<1>2. QED
  BY <1>1, OutboxAssumption, FS_Subset, FS_CardinalityType

LEMMA CountedStep ==
  ASSUME TypeOK, TypeOK', NEW e \in Events, Counted(e), HolderStep(e)
  PROVE  Counted(e)'
<1>. DEFINE P == Queued(e)
            Q == Queued(e)'
            credit == MaxAttempts * revived[e]
<1>0. /\ row[e].attempts \in Nat /\ row[e].attempts <= MaxAttempts
      /\ row'[e].attempts \in Nat
      /\ revived[e] \in Nat /\ runs[e] \in Nat /\ MaxAttempts \in Nat
  <2>1. row[e] \in Row /\ row'[e] \in Row /\ revived[e] \in Nat /\ runs[e] \in Nat
    BY OutboxAssumption DEF TypeOK
  <2>2. QED
    BY <2>1, MaxAttemptsNat, RowFields
<1>1. credit \in Nat /\ runs[e] + Cardinality(P) <= credit + row[e].attempts
  BY <1>0 DEF Counted
<1>2. IsFiniteSet(P) /\ Cardinality(P) \in Nat
  BY QueuedIsFinite
<1>3. CASE Released(e)
  <2>1. Q \subseteq P
    BY <1>3 DEF Released, Queued
  <2>2. row[e].status = "absent" => row[e].attempts = 0
    BY DEF Counted
  <2>3. row'[e].status = "absent" => row'[e].attempts = 0
    BY <1>3, <2>2 DEF Released
  <2>4. row'[e].attempts >= row[e].attempts
    BY <1>0, <1>3, <2>2 DEF Released, Fresh
  <2>5. runs'[e] = runs[e] /\ revived'[e] = revived[e]
    BY <1>3 DEF Released
  <2>. HIDE DEF P, Q
  <2>6. Cardinality(Q) \in Nat /\ Cardinality(Q) <= Cardinality(P)
    BY <1>2, <2>1, FS_Subset, FS_CardinalityType
  <2>. HIDE DEF credit
  <2>7. runs[e] + Cardinality(Q) <= credit + row'[e].attempts
    BY <1>0, <1>1, <1>2, <2>4, <2>6
  <2>8. QED
    BY <2>3, <2>5, <2>7 DEF Counted, Q, credit
<1>4. CASE HandedBack(e)
  <2>1. /\ row[e].status = "pending" /\ row'[e].status = "pending"
        /\ row[e].attempts = MaxAttempts /\ row'[e].attempts = 0
        /\ revived'[e] = revived[e] + 1 /\ runs'[e] = runs[e]
    BY <1>0, <1>4 DEF HandedBack, DeadLetter, Unpublished
  <2>2. Q = P
    BY <1>4 DEF HandedBack, Queued
  <2>3. MaxAttempts * revived'[e] = credit + MaxAttempts
    BY <1>0, <2>1
  <2>. HIDE DEF credit, P, Q
  <2>4. runs'[e] + Cardinality(Q) <= MaxAttempts * revived'[e] + row'[e].attempts
    BY <1>0, <1>1, <1>2, <2>1, <2>2, <2>3
  <2>5. QED
    BY <2>1, <2>4 DEF Counted, Q
<1>5. ASSUME NEW p \in Pollers, Taken(p, e) PROVE Counted(e)'
  <2>1. row[e] \in Row /\ row[e].status = "pending" /\ row'[e] = Claimed(row[e])
    BY <1>5 DEF Taken, DueRow, Unpublished, TypeOK
  <2>2. row'[e].status = "pending" /\ row'[e].attempts = row[e].attempts + 1
    BY <2>1, RowFields
  <2>3. runs'[e] = runs[e] /\ revived'[e] = revived[e]
    BY <1>5 DEF Taken
  <2>4. Q \subseteq P \cup {p}
    BY <1>5 DEF Taken, Queued
  <2>. HIDE DEF P, Q
  <2>5. /\ IsFiniteSet(P \cup {p})
        /\ Cardinality(P \cup {p}) = IF p \in P THEN Cardinality(P) ELSE Cardinality(P) + 1
    BY <1>2, FS_AddElement
  <2>6. Cardinality(Q) \in Nat /\ Cardinality(Q) <= Cardinality(P \cup {p})
    BY <2>4, <2>5, FS_Subset, FS_CardinalityType
  <2>7. Cardinality(Q) <= Cardinality(P) + 1
    BY <1>2, <2>5, <2>6
  <2>. HIDE DEF credit
  <2>8. runs[e] + Cardinality(Q) <= credit + row'[e].attempts
    BY <1>0, <1>1, <1>2, <2>2, <2>6, <2>7
  <2>9. QED
    BY <2>2, <2>3, <2>8 DEF Counted, Q, credit
<1>6. ASSUME NEW p \in Pollers, Begun(p, e) PROVE Counted(e)'
  <2>1. /\ runs'[e] = runs[e] + 1 /\ revived'[e] = revived[e] /\ row'[e] = row[e]
        /\ p \in P /\ Q \subseteq P \ {p}
    BY <1>6 DEF Begun, Queued
  <2>2. row[e].status = "absent" => row[e].attempts = 0
    BY DEF Counted
  <2>. HIDE DEF P, Q
  <2>3. /\ IsFiniteSet(P \ {p}) /\ Cardinality(P \ {p}) = Cardinality(P) - 1
    BY <1>2, <2>1, FS_RemoveElement
  <2>4. Cardinality(Q) \in Nat /\ Cardinality(Q) <= Cardinality(P \ {p})
    BY <2>1, <2>3, FS_Subset, FS_CardinalityType
  <2>. HIDE DEF credit
  <2>5. runs'[e] + Cardinality(Q) <= credit + row[e].attempts
    BY <1>0, <1>1, <1>2, <2>1, <2>3, <2>4
  <2>6. QED
    BY <2>1, <2>2, <2>5 DEF Counted, Q, credit
<1>7. QED
  BY <1>3, <1>4, <1>5, <1>6 DEF HolderStep

\* A poison event is invoked at most MAX_ATTEMPTS times between two
\* interventions (claim_of counts the attempt before the handler runs): each
\* invocation and each claim in hand is an attempt spent.
THEOREM PoisonIsBounded == Spec => []PoisonBounded
<1>. DEFINE C == \A e \in Events : Counted(e)
<1>1. Init => C
  <2>1. ASSUME Init, NEW e \in Events PROVE Counted(e)
    <3>1. Queued(e) = {} /\ runs[e] = 0 /\ revived[e] = 0 /\ row[e] = Absent
      BY <2>1 DEF Init, Queued
    <3>2. Cardinality(Queued(e)) = 0
      BY <3>1, FS_EmptySet
    <3>3. QED
      BY <3>1, <3>2, MaxAttemptsNat DEF Counted, Absent
  <2>2. QED
    BY <2>1
<1>2. TypeOK /\ TypeOK' /\ C /\ [Next]_vars => C'
  BY CountedStep, EveryStepIsAHolderStep
<1>3. TypeOK /\ C => PoisonBounded
  <2>1. ASSUME TypeOK, NEW e \in Events, Counted(e)
        PROVE  runs[e] <= MaxAttempts * (revived[e] + 1)
    <3>. DEFINE n == Cardinality(Queued(e))
                m == MaxAttempts * revived[e]
    <3>1. /\ row[e].attempts \in Nat /\ row[e].attempts <= MaxAttempts
          /\ revived[e] \in Nat /\ runs[e] \in Nat /\ MaxAttempts \in Nat
      BY <2>1, MaxAttemptsNat, RowFields, OutboxAssumption DEF TypeOK
    <3>2. n \in Nat /\ m \in Nat /\ MaxAttempts * (revived[e] + 1) = m + MaxAttempts
      BY <3>1, QueuedIsFinite
    <3>3. runs[e] + n <= m + row[e].attempts
      BY <2>1 DEF Counted
    <3>. HIDE DEF n, m
    <3>4. QED
      BY <3>1, <3>2, <3>3
  <2>2. QED
    BY <2>1 DEF PoisonBounded
<1>4. QED
  BY <1>1, <1>2, <1>3, TypeCorrect, PTL DEF Spec
-----------------------------------------------------------------------------
(* A stop defers.                                                          *)

\* An event no claim has listed and no poller has in hand.
Free(e) == \A p \in Pollers : e \notin shortlist[p] /\ job[p][e] = "none"

\* A handler's steps are about an event in hand; the others are left alone.
LEMMA HandlersLeaveFree ==
  ASSUME TypeOK, NEW x \in Events, Free(x), NEW p \in Pollers, NEW e \in Events, Handle(p, e)
  PROVE  Free(x)' /\ row'[x] = row[x]
<1>1. job[p][e] # "none"
  BY DEF Handle, StartHandler, CannotStart, HandlerSucceeds, HandlerFails, CommitLost,
         RecordFailure, FailureLost, Reasons
<1>2. x # e
  BY <1>1 DEF Free
<1>3. shortlist' = shortlist
  BY DEF Handle, StartHandler, CannotStart, HandlerSucceeds, HandlerFails, CommitLost,
         RecordFailure, FailureLost
<1>4. PICK s : SetJob(p, e, s)
  BY DEF Handle, StartHandler, CannotStart, HandlerSucceeds, HandlerFails, CommitLost,
         RecordFailure, FailureLost
<1>5. \A q \in Pollers : job'[q][x] = job[q][x]
  BY <1>2, <1>4 DEF SetJob, TypeOK
<1>6. row'[x] = row[x]
  <2>1. CASE UNCHANGED row
    BY <2>1
  <2>2. CASE HandlerSucceeds(p, e)
    BY <1>2, <2>2 DEF HandlerSucceeds, TypeOK
  <2>3. CASE RecordFailure(p, e)
    BY <1>2, <2>3 DEF RecordFailure, TypeOK
  <2>4. QED
    BY <2>1, <2>2, <2>3 DEF Handle, StartHandler, CannotStart, HandlerFails, CommitLost,
                            FailureLost, table
<1>7. QED
  BY <1>3, <1>5, <1>6 DEF Free

\* Only a claim's snapshot lists an event, and it lists no stopped tenant's.
LEMMA ClaimsPassStopped ==
  ASSUME TypeOK, NEW x \in Events, Free(x), TenantOf[x] \in stopped, NEW p \in Pollers,
         \/ ClaimSnapshot(p) \/ ClaimCommit(p) \/ ClaimFails(p) \/ Crash(p) \/ Restart(p)
  PROVE  Free(x)' /\ row'[x] = row[x]
<1>1. CASE ClaimSnapshot(p)
  <2>1. PICK S \in Shortlists : shortlist' = [shortlist EXCEPT ![p] = S]
    BY <1>1 DEF ClaimSnapshot
  <2>2. x \notin S
    BY DEF Shortlists, Claimable
  <2>3. UNCHANGED <<row, job>>
    BY <1>1 DEF ClaimSnapshot, table
  <2>4. QED
    BY <2>1, <2>2, <2>3 DEF Free, TypeOK
<1>2. CASE ClaimCommit(p)
  <2>1. PICK B \in Batches(shortlist[p]) :
          /\ row' = [e \in Events |-> IF e \in B THEN Claimed(row[e]) ELSE row[e]]
          /\ job' = [job EXCEPT ![p] = [e \in Events |->
                                          IF e \in B THEN "queued" ELSE "none"]]
    BY <1>2 DEF ClaimCommit
  <2>2. x \notin B
    BY DEF Batches, Free
  <2>3. shortlist' = [shortlist EXCEPT ![p] = {}]
    BY <1>2 DEF ClaimCommit
  <2>4. row'[x] = row[x] /\ \A q \in Pollers : job'[q][x] = "none"
    BY <2>1, <2>2 DEF Free, TypeOK
  <2>5. QED
    BY <2>3, <2>4 DEF Free, TypeOK
<1>3. CASE ClaimFails(p)
  BY <1>3 DEF ClaimFails, Free, TypeOK, table
<1>4. CASE Crash(p)
  BY <1>4 DEF Crash, Free, TypeOK, table
<1>5. CASE Restart(p)
  BY <1>5 DEF Restart, Free, table
<1>6. QED
  BY <1>1, <1>2, <1>3, <1>4, <1>5

LEMMA StoppedStaysFree ==
  ASSUME TypeOK, [Next]_vars, NEW x \in Events, Free(x), TenantOf[x] \in stopped,
         row[x].status # "absent"
  PROVE  Free(x)' /\ row'[x].attempts <= row[x].attempts
<1>0. row[x] \in Row /\ row[x].attempts \in Nat
  BY MaxAttemptsNat, RowFields DEF TypeOK
<1>1. ASSUME Free(x)', row'[x] = row[x] PROVE Free(x)' /\ row'[x].attempts <= row[x].attempts
  BY <1>0, <1>1
<1>2. ASSUME NEW p \in Pollers, NEW e \in Events, Handle(p, e) PROVE row'[x] = row[x] /\ Free(x)'
  BY <1>2, HandlersLeaveFree
<1>3. ASSUME NEW p \in Pollers,
             \/ ClaimSnapshot(p) \/ ClaimCommit(p) \/ ClaimFails(p) \/ Crash(p) \/ Restart(p)
      PROVE  row'[x] = row[x] /\ Free(x)'
  BY <1>3, ClaimsPassStopped
<1>4. ASSUME NEW p \in Pollers, NEW t \in Tenants, TaskPanics(p, t)
      PROVE  row'[x] = row[x] /\ Free(x)'
  <2>1. UNCHANGED <<row, shortlist>>
    BY <1>4 DEF TaskPanics, table
  <2>2. \A q \in Pollers : job'[q][x] \in {"none", job[q][x]}
    BY <1>4 DEF TaskPanics, TypeOK
  <2>3. QED
    BY <2>1, <2>2 DEF Free
<1>5. ASSUME UNCHANGED pollers PROVE Free(x)'
  BY <1>5 DEF pollers, Free
<1>6. ASSUME NEW e \in Events, Enqueue(e) PROVE row'[x] = row[x] /\ Free(x)'
  <2>1. row'[x] = row[x]
    BY <1>6 DEF Enqueue, TypeOK
  <2>2. QED
    BY <1>5, <1>6, <2>1 DEF Enqueue
<1>7. ASSUME NEW e \in Events, LeaseExpires(e)
      PROVE  row'[x].attempts <= row[x].attempts /\ Free(x)'
  <2>1. row'[x] \in {row[x], [row[x] EXCEPT !.available = "past"]}
    BY <1>7 DEF LeaseExpires, TypeOK
  <2>2. row'[x].attempts = row[x].attempts
    BY <1>0, <2>1, RowFields
  <2>3. QED
    BY <1>0, <1>5, <1>7, <2>2 DEF LeaseExpires
<1>8. ASSUME NEW t \in Tenants, RequeueDeadLetters(t)
      PROVE  row'[x].attempts <= row[x].attempts /\ Free(x)'
  <2>1. row'[x] \in {row[x], [row[x] EXCEPT !.attempts = 0, !.available = "past"]}
    BY <1>8 DEF RequeueDeadLetters
  <2>2. row'[x].attempts \in {0, row[x].attempts}
    BY <1>0, <2>1, RowFields
  <2>3. row'[x].attempts <= row[x].attempts
    BY <1>0, <2>2
  <2>4. UNCHANGED pollers
    BY <1>8 DEF RequeueDeadLetters
  <2>5. QED
    BY <1>5, <2>3, <2>4
<1>9. ASSUME NEW t \in Tenants, Stop(t) \/ Resume(t) PROVE row'[x] = row[x] /\ Free(x)'
  BY <1>5, <1>9 DEF Stop, Resume
<1>10. CASE UNCHANGED vars
  BY <1>0, <1>5, <1>10 DEF vars, table
<1>11. ASSUME NEW e \in Events, Seize(e) \/ LetGo(e) PROVE row'[x] = row[x] /\ Free(x)'
  BY <1>5, <1>11 DEF Seize, LetGo
<1>12. QED
  BY <1>1, <1>2, <1>3, <1>4, <1>6, <1>7, <1>8, <1>9, <1>10, <1>11 DEF Next

\* A stop defers and does not burn (claim_of's seated, which leaves a stopped
\* company's events out): what no claim holds, none takes.
THEOREM StopDefers == Spec => StopDefersEvents
<1>1. TypeOK /\ [Next]_vars =>
        [\A e \in Events :
           (~Held(e) /\ TenantOf[e] \in stopped /\ row[e].status # "absent")
             => ~Held(e)' /\ row'[e].attempts <= row[e].attempts]_vars
  <2>1. \A e \in Events : (~Held(e) <=> Free(e)) /\ (~Held(e)' <=> Free(e)')
    BY DEF Held, Free
  <2>2. QED
    BY <2>1, StoppedStaysFree
<1>2. QED
  BY <1>1, TypeCorrect, PTL DEF Spec, StopDefersEvents

-----------------------------------------------------------------------------
(* Round robin.                                                            *)

\* row_number() numbers each tenant's events one to one, from 1.
LEMMA SeatsOfOneTenant ==
  ASSUME NEW S \in SUBSET Events, IsFiniteSet(S), NEW seat \in Seatings(S), NEW t \in Tenants
  PROVE  /\ \A e \in S : seat[e] \in Nat /\ seat[e] >= 1
         /\ \A e, f \in OfTenant(S, t) : seat[e] = seat[f] => e = f
         /\ OfTenant(S, t) # {} => \E e \in OfTenant(S, t) : seat[e] = 1
<1>. DEFINE X == OfTenant(S, t)
            g == [e \in X |-> seat[e]]
            n == Cardinality(X)
<1>1. /\ seat \in [S -> 1..Cardinality(S)]
      /\ {seat[e] : e \in X} = 1..n
  BY DEF Seatings
<1>2. Cardinality(S) \in Nat
  BY FS_CardinalityType
<1>3. X \subseteq S
  BY DEF OfTenant
<1>4. IsFiniteSet(X) /\ n \in Nat
  BY <1>3, FS_Subset, FS_CardinalityType
<1>. HIDE DEF X, n
<1>5. \A e \in S : seat[e] \in Nat /\ seat[e] >= 1
  BY <1>1, <1>2
<1>6. g \in Surjection(X, 1..n)
  <2>1. \A e \in X : g[e] \in 1..n
    BY <1>1
  <2>2. \A i \in 1..n : \E e \in X : g[e] = i
    BY <1>1
  <2>3. QED
    BY <2>1, <2>2 DEF Surjection
<1>7. Cardinality(1..n) = n
  BY <1>4, FS_Interval
<1>8. g \in Injection(X, 1..n)
  BY <1>4, <1>6, <1>7, FS_SurjSameCardinalityImpliesInj DEF n
<1>9. \A e, f \in X : seat[e] = seat[f] => e = f
  BY <1>8 DEF Injection, IsInjective
<1>10. X # {} => \E e \in X : seat[e] = 1
  <2>. SUFFICES ASSUME X # {} PROVE \E e \in X : seat[e] = 1
    OBVIOUS
  <2>1. n # 0
    BY <1>4, FS_EmptySet DEF n
  <2>2. 1 \in 1..n
    BY <1>4, <2>1
  <2>3. QED
    BY <1>1, <2>2
<1>11. QED
  BY <1>5, <1>9, <1>10 DEF X

\* Of a set with more than one element, two are distinct.
LEMMA TwoOfMany ==
  ASSUME NEW X, IsFiniteSet(X), Cardinality(X) > 1
  PROVE  \E x, y \in X : x # y
<1>1. X # {}
  BY FS_EmptySet
<1>2. PICK x \in X : TRUE
  BY <1>1
<1>3. X # {x}
  BY FS_Singleton
<1>4. QED
  BY <1>2, <1>3

\* A batch with two events of one tenant has one of every listed tenant whose
\* listed events all passed the recheck and were nobody's to lock.
LEMMA BatchInTurn ==
  ASSUME TenantOf \in [Events -> Tenants],
         NEW S \in SUBSET Events, IsFiniteSet(S), NEW B \in Batches(S),
         NEW t \in Tenants, Cardinality(OfTenant(B, t)) > 1,
         NEW e \in S, \A f \in OfTenant(S, TenantOf[e]) : DueRow(f) /\ f \notin locked
  PROVE  OfTenant(B, TenantOf[e]) # {}
<1>. DEFINE due == {x \in S : DueRow(x) /\ x \notin locked}
            u == TenantOf[e]
<1>1. B \subseteq due /\ due \subseteq S
  BY DEF Batches
<1>2. PICK seat \in Seatings(S) : \A x \in B, f \in due \ B : seat[x] <= seat[f]
  BY DEF Batches, FirstBySeat
<1>3. u \in Tenants /\ e \in OfTenant(S, u)
  BY DEF OfTenant
<1>4. PICK f \in OfTenant(S, u) : seat[f] = 1
  BY <1>3, SeatsOfOneTenant
<1>5. f \in due /\ TenantOf[f] = u
  BY DEF OfTenant
<1>6. SUFFICES ASSUME OfTenant(B, u) = {} PROVE FALSE
  OBVIOUS
<1>7. f \notin B
  BY <1>5, <1>6 DEF OfTenant
<1>8. OfTenant(B, t) \subseteq B /\ OfTenant(B, t) \subseteq OfTenant(S, t)
  BY <1>1 DEF OfTenant
<1>9. IsFiniteSet(OfTenant(B, t))
  <2>1. OfTenant(B, t) \subseteq S
    BY <1>1, <1>8
  <2>2. QED
    BY <2>1, FS_Subset
<1>10. PICK x, y \in OfTenant(B, t) : x # y
  BY <1>9, TwoOfMany
<1>11. x \in S /\ y \in S /\ x \in OfTenant(S, t) /\ y \in OfTenant(S, t) /\ x \in B /\ y \in B
  BY <1>1, <1>8, <1>10
<1>12. seat[x] <= 1 /\ seat[y] <= 1
  BY <1>2, <1>4, <1>5, <1>7, <1>11
<1>13. seat[x] \in Nat /\ seat[x] >= 1 /\ seat[y] \in Nat /\ seat[y] >= 1
  BY <1>11, SeatsOfOneTenant
<1>14. seat[x] = seat[y]
  BY <1>12, <1>13
<1>15. QED
  BY <1>10, <1>11, <1>14, SeatsOfOneTenant

\* A shortlist with a seat for every due tenant lists every due tenant.
LEMMA ShortlistInTurn ==
  ASSUME TenantOf \in [Events -> Tenants], Limit * Headroom \in Nat,
         IsFiniteSet(Claimable), NEW P \in Shortlists,
         Cardinality({TenantOf[e] : e \in Claimable}) <= Limit * Headroom
  PROVE  {TenantOf[e] : e \in Claimable} \subseteq {TenantOf[e] : e \in P}
<1>. DEFINE C == Claimable
            due == {TenantOf[e] : e \in C}
            n == Limit * Headroom
<1>1. C \subseteq Events
  BY DEF Claimable
<1>2. PICK seat \in Seatings(C) : FirstBySeat(P, C, n, seat)
  BY DEF Shortlists
<1>3. /\ P \subseteq C /\ Cardinality(P) = AtMost(n, C)
      /\ \A x \in P, f \in C \ P : seat[x] <= seat[f]
  BY <1>2 DEF FirstBySeat
<1>4. IsFiniteSet(due)
  <2>1. [e \in C |-> TenantOf[e]] \in Surjection(C, due)
    BY DEF Surjection
  <2>2. QED
    BY <2>1, FS_Surjection
<1>5. IsFiniteSet(P) /\ Cardinality(P) \in Nat /\ Cardinality(C) \in Nat /\ Cardinality(due) \in Nat
  BY <1>3, <1>4, FS_Subset, FS_CardinalityType
<1>6. IsFiniteSet(C) /\ Cardinality(due) <= n /\ n \in Nat
  OBVIOUS
<1>. HIDE DEF due, n, C
<1>7. SUFFICES ASSUME NEW e \in C, TenantOf[e] \notin {TenantOf[x] : x \in P} PROVE FALSE
  BY DEF due, C
<1>. DEFINE u == TenantOf[e]
<1>8. u \in Tenants /\ u \in due /\ e \in OfTenant(C, u)
  BY <1>1 DEF OfTenant, due
<1>9. \A t \in Tenants : OfTenant(C, t) # {} => \E f \in OfTenant(C, t) : seat[f] = 1
  BY <1>1, <1>2, <1>6, SeatsOfOneTenant
<1>10. PICK f \in OfTenant(C, u) : seat[f] = 1
  BY <1>8, <1>9
<1>11. f \in C \ P
  BY <1>7 DEF OfTenant
<1>12. \A x \in P : seat[x] = 1
  <2>. TAKE x \in P
  <2>1. seat[x] <= 1
    BY <1>3, <1>10, <1>11
  <2>2. seat[x] \in Nat /\ seat[x] >= 1
    BY <1>1, <1>2, <1>3, <1>8, <1>6, SeatsOfOneTenant
  <2>3. QED
    BY <2>1, <2>2
<1>13. \A x, y \in P : TenantOf[x] = TenantOf[y] => x = y
  <2>. SUFFICES ASSUME NEW x \in P, NEW y \in P, TenantOf[x] = TenantOf[y] PROVE x = y
    OBVIOUS
  <2>1. /\ TenantOf[x] \in Tenants
        /\ x \in OfTenant(C, TenantOf[x]) /\ y \in OfTenant(C, TenantOf[x])
    BY <1>1, <1>3 DEF OfTenant
  <2>2. seat[x] = seat[y]
    BY <1>12
  <2>3. QED
    BY <1>1, <1>2, <2>1, <2>2, <1>6, SeatsOfOneTenant
<1>14. Cardinality(P) <= Cardinality(due \ {u})
  <2>. DEFINE g == [x \in P |-> TenantOf[x]]
  <2>1. \A x \in P : TenantOf[x] \in due \ {u}
    BY <1>3, <1>7 DEF due
  <2>2. g \in Injection(P, due \ {u})
    BY <1>13, <2>1 DEF Injection, IsInjective
  <2>3. IsFiniteSet(due \ {u})
    BY <1>4, FS_RemoveElement
  <2>4. QED
    BY <2>2, <2>3, FS_Injection
<1>15. Cardinality(due \ {u}) = Cardinality(due) - 1
  BY <1>4, <1>8, FS_RemoveElement
<1>16. Cardinality(P) < n
  BY <1>5, <1>14, <1>15, <1>6
<1>17. Cardinality(P) = Cardinality(C)
  BY <1>3, <1>16, <1>6 DEF AtMost
<1>18. P = C
  BY <1>3, <1>17, <1>6, FS_Subset
<1>19. QED
  BY <1>11, <1>18

\* The events that were ever enqueued: finitely many, at any time.
Stored == {e \in Events : row[e].status # "absent"}

\* Only enqueue inserts a row.
LEMMA OnlyEnqueueInserts ==
  ASSUME TypeOK, [Next]_vars, NEW x \in Events, row[x].status = "absent", ~Enqueue(x)
  PROVE  row'[x].status = "absent"
<1>0. x \notin {e \in Events : Unpublished(e)}
  BY DEF Unpublished
<1>1. CASE UNCHANGED row
  BY <1>1
<1>2. ASSUME NEW e \in Events, Enqueue(e) PROVE row'[x] = row[x]
  BY <1>2 DEF Enqueue, TypeOK
<1>3. ASSUME NEW e \in Events, LeaseExpires(e) PROVE row'[x] = row[x]
  BY <1>0, <1>3 DEF LeaseExpires, TypeOK
<1>4. ASSUME NEW t \in Tenants, RequeueDeadLetters(t) PROVE row'[x] = row[x]
  BY <1>0, <1>4 DEF RequeueDeadLetters, Revivable, OfTenant, DeadLetter
<1>5. ASSUME NEW p \in Pollers, ClaimCommit(p) PROVE row'[x] = row[x]
  <2>1. PICK B \in Batches(shortlist[p]) :
          row' = [e \in Events |-> IF e \in B THEN Claimed(row[e]) ELSE row[e]]
    BY <1>5 DEF ClaimCommit
  <2>2. x \notin B
    BY <1>0, BatchIsDue DEF TypeOK, DueRow
  <2>3. QED
    BY <2>1, <2>2
<1>6. ASSUME NEW p \in Pollers, NEW e \in Events, HandlerSucceeds(p, e) PROVE row'[x] = row[x]
  <2>1. CASE Unpublished(e)
    BY <1>0, <1>6, <2>1 DEF HandlerSucceeds, TypeOK
  <2>2. CASE ~Unpublished(e)
    BY <1>6, <2>2 DEF HandlerSucceeds
  <2>3. QED
    BY <2>1, <2>2
<1>7. ASSUME NEW p \in Pollers, NEW e \in Events, RecordFailure(p, e) PROVE row'[x] = row[x]
  BY <1>0, <1>7 DEF RecordFailure, TypeOK
<1>8. QED
  BY <1>1, <1>2, <1>3, <1>4, <1>5, <1>6, <1>7
     DEF Next, Handle, Seize, LetGo, Stop, Resume, ClaimSnapshot, ClaimFails, Crash, Restart,
         StartHandler, CannotStart, HandlerFails, CommitLost, FailureLost, TaskPanics,
         vars, table

\* Rows stay, and a step inserts at most one.
LEMMA StoredStep ==
  ASSUME TypeOK, [Next]_vars
  PROVE  /\ Stored \subseteq Stored'
         /\ IsFiniteSet(Stored) => IsFiniteSet(Stored')
<1>1. Stored \subseteq Stored'
  <2>. SUFFICES ASSUME NEW x \in Events, row[x].status # "absent"
                PROVE  row'[x].status # "absent"
    BY DEF Stored
  <2>1. RowStep(x)
    BY EveryStepIsARowStep
  <2>2. QED
    BY <2>1 DEF RowStep, Kept, Submitted, Tried, Published, Buried, Revived
<1>2. CASE \E e \in Events : Enqueue(e)
  <2>1. PICK e \in Events : Enqueue(e)
    BY <1>2
  <2>2. \A x \in Events \ {e} : row'[x] = row[x]
    BY <2>1 DEF Enqueue, TypeOK
  <2>3. Stored' \subseteq Stored \cup {e}
    BY <2>2 DEF Stored
  <2>4. IsFiniteSet(Stored) => IsFiniteSet(Stored')
    BY <2>3, FS_AddElement, FS_Subset
  <2>5. QED
    BY <1>1, <2>4
<1>3. CASE ~\E e \in Events : Enqueue(e)
  <2>1. Stored' \subseteq Stored
    BY <1>3, OnlyEnqueueInserts DEF Stored
  <2>2. QED
    BY <1>1, <2>1, FS_Subset
<1>4. QED
  BY <1>2, <1>3

\* What a step that is no claim of p's own does to p's claim and batch.
NoClaim(p) ==
  /\ shortlist'[p] \subseteq shortlist[p]
  /\ phase'[p] = "claiming" => phase[p] = "claiming"
  /\ \A e \in Events : job[p][e] = "none" => job'[p][e] = "none"

\* Only a poller's own claim lists events for it, or hands it any.
LEMMA EveryStepIsAClaimStep ==
  ASSUME TypeOK, [Next]_vars, NEW q \in Pollers
  PROVE  ClaimSnapshot(q) \/ ClaimCommit(q) \/ NoClaim(q)
<1>1. ASSUME NEW p \in Pollers, ClaimSnapshot(p), p # q PROVE NoClaim(q)
  BY <1>1 DEF ClaimSnapshot, TypeOK, NoClaim
<1>2. ASSUME NEW p \in Pollers, ClaimCommit(p), p # q PROVE NoClaim(q)
  BY <1>2 DEF ClaimCommit, TypeOK, NoClaim
<1>3. ASSUME NEW p \in Pollers, ClaimFails(p) PROVE NoClaim(q)
  BY <1>3 DEF ClaimFails, TypeOK, NoClaim
<1>4. ASSUME NEW p \in Pollers, Crash(p) PROVE NoClaim(q)
  BY <1>4 DEF Crash, TypeOK, NoClaim
<1>5. ASSUME NEW p \in Pollers, Restart(p) PROVE NoClaim(q)
  BY <1>5 DEF Restart, TypeOK, NoClaim
<1>6. ASSUME NEW p \in Pollers, NEW e \in Events, Handle(p, e) PROVE NoClaim(q)
  <2>1. job[p][e] # "none"
    BY <1>6 DEF Handle, StartHandler, CannotStart, HandlerSucceeds, HandlerFails, CommitLost,
                RecordFailure, FailureLost, Reasons
  <2>2. UNCHANGED <<phase, shortlist>>
    BY <1>6 DEF Handle, StartHandler, CannotStart, HandlerSucceeds, HandlerFails, CommitLost,
                RecordFailure, FailureLost
  <2>3. PICK s : SetJob(p, e, s)
    BY <1>6 DEF Handle, StartHandler, CannotStart, HandlerSucceeds, HandlerFails, CommitLost,
                RecordFailure, FailureLost
  <2>4. \A x \in Events : job[q][x] = "none" => job'[q][x] = "none"
    BY <2>1, <2>3 DEF SetJob, TypeOK
  <2>5. QED
    BY <2>2, <2>4 DEF NoClaim
<1>7. ASSUME NEW p \in Pollers, NEW t \in Tenants, TaskPanics(p, t) PROVE NoClaim(q)
  <2>1. UNCHANGED <<phase, shortlist>>
    BY <1>7 DEF TaskPanics
  <2>2. \A x \in Events : job[q][x] = "none" => job'[q][x] = "none"
    BY <1>7 DEF TaskPanics, TypeOK
  <2>3. QED
    BY <2>1, <2>2 DEF NoClaim
<1>8. CASE UNCHANGED pollers
  BY <1>8 DEF pollers, NoClaim
<1>9. QED
  BY <1>1, <1>2, <1>3, <1>4, <1>5, <1>6, <1>7, <1>8
     DEF Next, Enqueue, Seize, LetGo, LeaseExpires, Stop, Resume, RequeueDeadLetters, vars

\* A claim works on rows of the table, and its poller has nothing in hand.
Claiming ==
  /\ IsFiniteSet(Stored)
  /\ \A p \in Pollers :
       /\ shortlist[p] \subseteq Stored
       /\ phase[p] = "claiming" => \A e \in Events : job[p][e] = "none"

\* Every step keeps it.
LEMMA ClaimingStep ==
  ASSUME TypeOK, Claiming, [Next]_vars
  PROVE  Claiming'
<1>1. Stored \subseteq Stored' /\ IsFiniteSet(Stored')
  BY StoredStep DEF Claiming
<1>2. ASSUME NEW p \in Pollers
      PROVE  /\ shortlist'[p] \subseteq Stored'
             /\ phase'[p] = "claiming" => \A e \in Events : job'[p][e] = "none"
  <2>0. /\ shortlist[p] \subseteq Stored
        /\ phase[p] = "claiming" => \A e \in Events : job[p][e] = "none"
    BY DEF Claiming
  <2>1. CASE ClaimSnapshot(p)
    <3>1. PICK S \in Shortlists : shortlist' = [shortlist EXCEPT ![p] = S]
      BY <2>1 DEF ClaimSnapshot
    <3>2. S \subseteq Stored
      BY DEF Shortlists, Claimable, DueRow, Unpublished, Stored
    <3>3. job' = job /\ \A e \in Events : job[p][e] = "none"
      BY <2>1 DEF ClaimSnapshot, Idle
    <3>4. shortlist'[p] = S
      BY <3>1 DEF TypeOK
    <3>5. QED
      BY <1>1, <3>2, <3>3, <3>4
  <2>2. CASE ClaimCommit(p)
    <3>1. shortlist'[p] = {} /\ phase'[p] = "idle"
      BY <2>2 DEF ClaimCommit, TypeOK
    <3>2. QED
      BY <3>1
  <2>3. CASE NoClaim(p)
    BY <1>1, <2>0, <2>3 DEF NoClaim
  <2>4. QED
    BY <2>1, <2>2, <2>3, EveryStepIsAClaimStep
<1>3. QED
  BY <1>1, <1>2 DEF Claiming

\* It holds from the start.
LEMMA ClaimingHolds == Spec => []Claiming
<1>1. Init => Claiming
  <2>. SUFFICES ASSUME Init PROVE Claiming
    OBVIOUS
  <2>1. Stored = {}
    BY DEF Init, Absent, Stored
  <2>2. QED
    BY <2>1, FS_EmptySet DEF Init, Claiming
<1>2. QED
  BY <1>1, ClaimingStep, TypeCorrect, PTL DEF Spec

\* Round robin, whatever the number of companies and however full their
\* queues (claim_of's seated, row_number() within each tenant, read by
\* shortlist and again by due, which skips locked rows): a company's second
\* event takes the place of another company's first one only where an event of
\* the other was taken meanwhile or held by another transaction.
THEOREM ClaimsAreSeatedFairly == Spec => SeatedFairly
<1>. DEFINE Batch(p) == {e \in Events : job[p][e] = "none" /\ job'[p][e] = "queued"}
            Due == {TenantOf[e] : e \in Claimable}
            Turns(p) ==
              /\ (\E t \in Tenants : Cardinality(OfTenant(Batch(p), t)) > 1)
                 => \A e \in shortlist[p] :
                      \/ OfTenant(Batch(p), TenantOf[e]) # {}
                      \/ \E f \in OfTenant(shortlist[p], TenantOf[e]) :
                           ~DueRow(f) \/ f \in locked
              /\ (phase[p] = "idle" /\ phase'[p] = "claiming"
                    /\ Cardinality(Due) <= Limit * Headroom)
                 => Due \subseteq {TenantOf[e] : e \in shortlist'[p]}
<1>1. ASSUME TypeOK, Claiming, [Next]_vars, NEW p \in Pollers PROVE Turns(p)
  <2>0. /\ TenantOf \in [Events -> Tenants] /\ Limit * Headroom \in Nat
        /\ shortlist[p] \in SUBSET Events
    BY <1>1, OutboxAssumption DEF TypeOK
  <2>1. ASSUME Batch(p) = {}
        PROVE  ~\E t \in Tenants : Cardinality(OfTenant(Batch(p), t)) > 1
    <3>. SUFFICES ASSUME NEW t \in Tenants PROVE ~(Cardinality(OfTenant(Batch(p), t)) > 1)
      OBVIOUS
    <3>1. OfTenant(Batch(p), t) = {}
      BY <2>1 DEF OfTenant
    <3>2. Cardinality(OfTenant(Batch(p), t)) = 0
      BY <3>1, FS_EmptySet
    <3>3. QED
      BY <3>2
  <2>2. CASE ClaimSnapshot(p)
    <3>1. job' = job /\ Batch(p) = {}
      BY <2>2 DEF ClaimSnapshot
    <3>2. PICK S \in Shortlists : shortlist' = [shortlist EXCEPT ![p] = S]
      BY <2>2 DEF ClaimSnapshot
    <3>3. shortlist'[p] = S
      BY <1>1, <3>2 DEF TypeOK
    <3>4. IsFiniteSet(Claimable)
      <4>1. Claimable \subseteq Stored
        BY DEF Claimable, DueRow, Unpublished, Stored
      <4>2. QED
        BY <1>1, <4>1, FS_Subset DEF Claiming
    <3>5. Cardinality(Due) <= Limit * Headroom => Due \subseteq {TenantOf[e] : e \in S}
      BY <2>0, <3>4, ShortlistInTurn
    <3>6. QED
      BY <2>1, <3>1, <3>3, <3>5
  <2>3. CASE ClaimCommit(p)
    <3>. DEFINE S == shortlist[p]
    <3>1. PICK B \in Batches(S) :
            job' = [job EXCEPT ![p] = [e \in Events |-> IF e \in B THEN "queued" ELSE "none"]]
      BY <2>3 DEF ClaimCommit
    <3>2. B \subseteq Events
      BY <2>0, BatchIsDue
    <3>3. \A e \in Events : job[p][e] = "none"
      BY <1>1, <2>3 DEF Claiming, ClaimCommit
    <3>4. \A e \in Events : job'[p][e] = IF e \in B THEN "queued" ELSE "none"
      BY <1>1, <3>1 DEF TypeOK
    <3>5. Batch(p) = B
      BY <3>2, <3>3, <3>4
    <3>6. phase'[p] = "idle"
      BY <1>1, <2>3 DEF ClaimCommit, TypeOK
    <3>7. IsFiniteSet(S)
      BY <1>1, FS_Subset DEF Claiming
    <3>8. ASSUME NEW t \in Tenants, Cardinality(OfTenant(B, t)) > 1, NEW e \in S,
                 \A f \in OfTenant(S, TenantOf[e]) : DueRow(f) /\ f \notin locked
          PROVE  OfTenant(B, TenantOf[e]) # {}
      BY <2>0, <3>7, <3>8, BatchInTurn
    <3>9. QED
      BY <3>5, <3>6, <3>8
  <2>4. CASE NoClaim(p)
    <3>1. Batch(p) = {} /\ ~(phase[p] = "idle" /\ phase'[p] = "claiming")
      BY <2>4 DEF NoClaim
    <3>2. QED
      BY <2>1, <3>1
  <2>5. QED
    BY <1>1, <2>2, <2>3, <2>4, EveryStepIsAClaimStep
<1>2. TypeOK /\ Claiming /\ [Next]_vars => [\A p \in Pollers : Turns(p)]_vars
  BY <1>1
<1>3. QED
  BY <1>2, TypeCorrect, ClaimingHolds, PTL DEF Spec, SeatedFairly
=============================================================================
