------------------------ MODULE Provisioning_proofs ------------------------
(***************************************************************************)
(* Proofs about Provisioning, for any resources, workers and limits: what  *)
(* is ready stays ready, the order of the steps holds, no binding is       *)
(* forgotten while the provider runs it, an accord is spent once, and a    *)
(* first call that died leaves its evidence and is not made again.         *)
(***************************************************************************)
EXTENDS Provisioning, TLAPS, FiniteSetTheorems, SequenceTheorems

-----------------------------------------------------------------------------
(* Types *)

Typed ==
  /\ lifecycle \in [Employees -> {"active", "suspended", "terminated"}]
  /\ row \in [Resources -> Row]
  /\ intent \in [Resources -> {"absent", "in_flight", "succeeded", "failed", "orphaned"}]
  /\ named \in [Resources -> Nat] /\ asked \in [Resources -> Nat]
  /\ accord \in [Resources -> SUBSET Nat]
  /\ notices \in [Employees -> {0, 1}]
  /\ job \in [Workers -> [Resources -> JobState]]
  /\ token \in [Workers -> [Resources -> 0..MaxBought]]
  /\ copy \in [Workers -> Copy]
  /\ held \in [Resources -> 0..MaxBought]
  /\ bought \in [Resources -> 0..MaxBought]
  /\ resumed \in [Resources -> Nat]

LEMMA Limits == MaxAttempts \in Nat /\ MaxBought \in Nat
BY ProvisioningAssumption

LEMMA JobStates ==
  /\ {"none", "planned", "suspect", "calling", "toEscalate"} \subseteq JobState
  /\ AnswerKinds \subseteq JobState /\ ReleaseJobs \subseteq JobState /\ Outcomes \subseteq JobState
BY DEF JobState, ReleaseJobs

\* What SetJob does to each job.
LEMMA JobSet ==
  ASSUME job \in [Workers -> [Resources -> JobState]],
         NEW w \in Workers, NEW r \in Resources, NEW s \in JobState, SetJob(w, r, s)
  PROVE  /\ job' \in [Workers -> [Resources -> JobState]]
         /\ \A v \in Workers, q \in Resources :
              job'[v][q] = IF v = w /\ q = r THEN s ELSE job[v][q]
BY DEF SetJob

LEMMA TokenSet ==
  ASSUME token \in [Workers -> [Resources -> 0..MaxBought]],
         NEW w \in Workers, NEW r \in Resources, NEW b \in 0..MaxBought,
         token' = [token EXCEPT ![w][r] = b]
  PROVE  /\ token' \in [Workers -> [Resources -> 0..MaxBought]]
         /\ \A v \in Workers, q \in Resources :
              token'[v][q] = IF v = w /\ q = r THEN b ELSE token[v][q]
OBVIOUS

\* One row is written.
LEMMA RowSet ==
  ASSUME row \in [Resources -> Row], NEW r \in Resources, NEW k \in Row,
         row' = [row EXCEPT ![r] = k]
  PROVE  /\ row' \in [Resources -> Row]
         /\ \A q \in Resources : row'[q] = IF q = r THEN k ELSE row[q]
OBVIOUS

LEMMA TypedInit == Init => Typed
<1>. SUFFICES ASSUME Init PROVE Typed
  OBVIOUS
<1>1. [state |-> "pending", owner |-> Nobody, lease |-> "none",
       attempts |-> 0, binding |-> 0, error |-> "none"] \in Row /\ NoCopy \in Copy
  BY Limits DEF Row, State, NoCopy, Copy
<1>2. "none" \in JobState
  BY JobStates
<1>3. row \in [Resources -> Row] /\ job \in [Workers -> [Resources -> JobState]]
  BY <1>1, <1>2 DEF Init
<1>4. copy \in [Workers -> Copy]
  BY <1>1 DEF Init
<1>5. QED
  BY <1>3, <1>4, Limits DEF Init, Typed

\* The rows a claim, a finish and a release write.
ClaimedRow(w, r) ==
  [row[r] EXCEPT !.state = "provisioning", !.owner = w, !.lease = "live",
                 !.attempts = Min2(@ + 1, MaxAttempts), !.error = "none"]

SavedRow(w, r) == [Saved(w, r) EXCEPT !.error = Verdict(w, r)]
KeptRow(w, r)  == [row[r] EXCEPT !.error = Verdict(w, r)]

LEMMA ClaimedRows ==
  ASSUME Typed, NEW w \in Workers, NEW r \in Resources
  PROVE  /\ ClaimedRow(w, r) \in Row
         /\ ClaimedRow(w, r).state = "provisioning" /\ ClaimedRow(w, r).owner = w
         /\ ClaimedRow(w, r).binding = row[r].binding
<1>1. row[r] \in Row
  BY DEF Typed
<1>2. Min2(row[r].attempts + 1, MaxAttempts) \in 0..MaxAttempts
  BY <1>1, Limits DEF Row, Min2
<1>3. QED
  BY <1>1, <1>2 DEF ClaimedRow, Row, State

LEMMA FinishedRows ==
  ASSUME Typed, NEW r \in Resources, NEW answer \in AnswerKinds, NEW b \in 0..MaxBought
  PROVE  /\ Finished(r, answer, b) \in Row
         /\ Finished(r, answer, b).owner = Nobody
         /\ Finished(r, answer, b).state = "ready" => answer = "ready"
         /\ Finished(r, answer, b).binding = IF b # 0 THEN b ELSE row[r].binding
<1>1. row[r] \in Row
  BY DEF Typed
<1>2. QED
  BY <1>1 DEF Finished, Row, State, AnswerKinds

\* A row with another state, binding and error.
Rewritten(k, s, b, x) == [[k EXCEPT !.state = s, !.binding = b] EXCEPT !.error = x]

LEMMA RowRewritten ==
  ASSUME NEW k \in Row, NEW s \in State, NEW b \in 0..MaxBought,
         NEW x \in {"none", "retryable", "unreleasable"}
  PROVE  /\ Rewritten(k, s, b, x) \in Row
         /\ Rewritten(k, s, b, x).state = s /\ Rewritten(k, s, b, x).binding = b
         /\ Rewritten(k, s, b, x).owner = k.owner /\ Rewritten(k, s, b, x).lease = k.lease
BY DEF Rewritten, Row

LEMMA ReleasedRows ==
  ASSUME Typed, NEW w \in Workers, NEW r \in Resources, job[w][r] \in Outcomes
  PROVE  /\ SavedRow(w, r) \in Row /\ KeptRow(w, r) \in Row
         /\ SavedRow(w, r).state # "ready" /\ KeptRow(w, r).state = row[r].state
         /\ SavedRow(w, r).owner = row[r].owner /\ KeptRow(w, r).owner = row[r].owner
         /\ SavedRow(w, r).lease = row[r].lease /\ KeptRow(w, r).lease = row[r].lease
         /\ KeptRow(w, r).binding = row[r].binding
         /\ \/ SavedRow(w, r).binding = copy[w].binding
            \/ /\ job[w][r] = "released" /\ SavedRow(w, r).binding = 0
               /\ copy[w].binding = token[w][r]
<1>1. row[r] \in Row /\ copy[w] \in Copy
  BY DEF Typed
<1>2. Verdict(w, r) \in {"none", "retryable", "unreleasable"}
  BY DEF Outcomes, Verdict
<1>3. Unbound(w, r) = copy[w].binding \/ (Unbound(w, r) = 0 /\ copy[w].binding = token[w][r])
  BY DEF Unbound
<1>4. copy[w].binding \in 0..MaxBought /\ Unbound(w, r) \in 0..MaxBought
  BY <1>1, <1>3, Limits DEF Copy
<1>5. /\ KeptRow(w, r) \in Row /\ KeptRow(w, r).state = row[r].state
      /\ KeptRow(w, r).owner = row[r].owner /\ KeptRow(w, r).lease = row[r].lease
      /\ KeptRow(w, r).binding = row[r].binding
  BY <1>1, <1>2 DEF KeptRow, Row
<1>6. CASE job[w][r] = "released"
  <2>1. SavedRow(w, r) = Rewritten(row[r], "disabled", Unbound(w, r), Verdict(w, r))
    BY <1>6 DEF SavedRow, Saved, Rewritten
  <2>2. "disabled" \in State
    BY DEF State
  <2>3. /\ SavedRow(w, r) \in Row /\ SavedRow(w, r).state = "disabled"
        /\ SavedRow(w, r).binding = Unbound(w, r)
        /\ SavedRow(w, r).owner = row[r].owner /\ SavedRow(w, r).lease = row[r].lease
    BY <1>1, <1>2, <1>4, <2>1, <2>2, RowRewritten
  <2>4. QED
    BY <1>3, <1>5, <1>6, <2>3
<1>7. CASE job[w][r] # "released"
  <2>. DEFINE st == IF copy[w].state = "disabled" THEN "disabled" ELSE "failed"
              b == copy[w].binding
              new == Rewritten(row[r], st, b, Verdict(w, r))
  <2>1. SavedRow(w, r) = new
    BY <1>7 DEF SavedRow, Saved, Rewritten
  <2>2. st \in State /\ st # "ready"
    BY DEF State
  <2>3. b \in 0..MaxBought
    BY <1>4
  <2>. HIDE DEF st, b
  <2>4. /\ new \in Row /\ new.state = st /\ new.binding = b
        /\ new.owner = row[r].owner /\ new.lease = row[r].lease
    BY <1>1, <1>2, <2>2, <2>3, RowRewritten
  <2>. HIDE DEF new
  <2>5. QED
    BY <1>5, <2>1, <2>2, <2>4 DEF b
<1>8. QED
  BY <1>6, <1>7

-----------------------------------------------------------------------------
(* What a step does to a row, a job and the provider *)

\* The steps that write no row.
RowsKept ==
  \/ \E w \in Workers, e \in Employees : Pick(w, e) \/ OnTerminated(w, e) \/ Sweep(w, e)
  \/ \E w \in Workers : Wave(w) \/ EndRelease(w) \/ LosesRace(w) \/ Crash(w) \/ Abort(w)
  \/ \E w \in Workers, r \in Resources :
       FindsCrash(w, r) \/ Park(w, r) \/ TurnedAway(w, r) \/ Answer(w, r)
         \/ CallRelease(w, r) \/ ReadBack(w, r) \/ Escalate(w, r)
  \/ \E r \in Resources : \E k \in 1..asked[r] : Redeem(r, k)
  \/ \E e \in Employees : Suspend(e) \/ Reinstate(e) \/ Terminate(e) \/ Crowd(e)
  \/ Halt

LEMMA NextCases ==
  ASSUME Next
  PROVE  \/ RowsKept
         \/ \E w \in Workers, r \in Resources : Claim(w, r) \/ Record(w, r) \/ RecordRelease(w, r)
         \/ \E w \in Workers : EndWaves(w)
         \/ \E r \in Resources : LeaseLapses(r) \/ WaitRunsOut(r)
BY DEF Next, RowsKept, StepOf, ReleaseOf

LEMMA RowsAreKept == ASSUME RowsKept PROVE UNCHANGED row
BY DEF RowsKept, Pick, OnTerminated, Sweep, Wave, EndRelease, LosesRace, Crash, Abort, FindsCrash,
       Park, TurnedAway, Answer, CallRelease, ReadBack, Escalate, Redeem, Suspend, Reinstate, Terminate, Crowd, Halt, store

\* A row is claimed, finished, released, or aged.
LEMMA RowChanges ==
  ASSUME Typed, [Next]_vars
  PROVE  /\ row' \in [Resources -> Row]
         /\ \A r \in Resources :
              \/ row'[r] = row[r]
              \/ \E w \in Workers : Claim(w, r) /\ row'[r] = ClaimedRow(w, r)
              \/ \E w \in Workers : /\ Record(w, r) /\ Owns(w, r)
                                    /\ row'[r] = Finished(r, job[w][r], token[w][r])
              \/ \E w \in Workers : /\ RecordRelease(w, r) /\ copy[w].is \in {"fresh", "moved"}
                                    /\ row'[r] \in {SavedRow(w, r), KeptRow(w, r)}
              \/ row[r].state = "overdue" /\ row'[r] = [row[r] EXCEPT !.state = "failed"]
              \/ row'[r] = [row[r] EXCEPT !.lease = "lapsed"]
              \/ row[r].state = "waiting" /\ row'[r] = [row[r] EXCEPT !.state = "overdue"]
<1>1. ASSUME NEW w \in Workers, NEW r \in Resources, Claim(w, r)
      PROVE  row' = [row EXCEPT ![r] = ClaimedRow(w, r)]
  BY <1>1 DEF Claim, ClaimedRow
<1>2. ASSUME NEW w \in Workers, NEW r \in Resources, Record(w, r)
      PROVE  /\ job[w][r] \in AnswerKinds
             /\ IF Owns(w, r) THEN row' = [row EXCEPT ![r] = Finished(r, job[w][r], token[w][r])]
                ELSE row' = row
  BY <1>2 DEF Record
<1>3. ASSUME NEW w \in Workers, NEW r \in Resources, RecordRelease(w, r)
      PROVE  /\ job[w][r] \in Outcomes /\ copy[w].is \in {"fresh", "moved"}
             /\ \/ row' = [row EXCEPT ![r] = SavedRow(w, r)]
                \/ row' = [row EXCEPT ![r] = KeptRow(w, r)]
  BY <1>3 DEF RecordRelease, SavedRow, KeptRow
<1>4. ASSUME NEW w \in Workers, EndWaves(w)
      PROVE  /\ row' \in [Resources -> Row]
             /\ \A r \in Resources :
                  \/ row'[r] = row[r]
                  \/ row[r].state = "overdue" /\ row'[r] = [row[r] EXCEPT !.state = "failed"]
  <2>1. row' = [r \in Resources |->
                  IF r \in Steps(emp[w]) /\ row[r].state = "overdue"
                  THEN [row[r] EXCEPT !.state = "failed"] ELSE row[r]]
    BY <1>4 DEF EndWaves
  <2>2. ASSUME NEW r \in Resources PROVE [row[r] EXCEPT !.state = "failed"] \in Row
    <3>1. row[r] \in Row
      BY DEF Typed
    <3>2. QED
      BY <3>1 DEF Row, State
  <2>3. QED
    BY <2>1, <2>2 DEF Typed
<1>5. ASSUME NEW r \in Resources
      PROVE  [row[r] EXCEPT !.lease = "lapsed"] \in Row /\ [row[r] EXCEPT !.state = "overdue"] \in Row
  <2>1. row[r] \in Row
    BY DEF Typed
  <2>2. QED
    BY <2>1 DEF Row, State
<1>6. CASE RowsKept \/ UNCHANGED vars
  BY <1>6, RowsAreKept DEF vars, store, Typed
<1>7. ASSUME NEW w \in Workers, NEW r \in Resources, Claim(w, r) PROVE row' \in [Resources -> Row]
        /\ \A q \in Resources : row'[q] = row[q] \/ (q = r /\ row'[q] = ClaimedRow(w, q))
  <2>1. ClaimedRow(w, r) \in Row /\ row \in [Resources -> Row]
    BY ClaimedRows DEF Typed
  <2>2. QED
    BY <1>1, <1>7, <2>1, RowSet
<1>8. ASSUME NEW w \in Workers, NEW r \in Resources, Record(w, r) PROVE row' \in [Resources -> Row]
        /\ \A q \in Resources : row'[q] = row[q]
             \/ (q = r /\ Owns(w, q) /\ row'[q] = Finished(q, job[w][q], token[w][q]))
  <2>1. token[w][r] \in 0..MaxBought /\ row \in [Resources -> Row]
    BY DEF Typed
  <2>2. Finished(r, job[w][r], token[w][r]) \in Row
    BY <1>2, <1>8, <2>1, FinishedRows
  <2>3. QED
    BY <1>2, <1>8, <2>1, <2>2, RowSet
<1>9. ASSUME NEW w \in Workers, NEW r \in Resources, RecordRelease(w, r) PROVE row' \in [Resources -> Row]
        /\ \A q \in Resources : row'[q] = row[q]
             \/ (q = r /\ copy[w].is \in {"fresh", "moved"} /\ row'[q] \in {SavedRow(w, q), KeptRow(w, q)})
  <2>1. SavedRow(w, r) \in Row /\ KeptRow(w, r) \in Row /\ row \in [Resources -> Row]
    BY <1>3, <1>9, ReleasedRows DEF Typed
  <2>2. PICK k \in {SavedRow(w, r), KeptRow(w, r)} : row' = [row EXCEPT ![r] = k]
    BY <1>3, <1>9
  <2>3. row' \in [Resources -> Row] /\ \A q \in Resources : row'[q] = IF q = r THEN k ELSE row[q]
    BY <2>1, <2>2, RowSet
  <2>4. QED
    BY <1>3, <1>9, <2>3
<1>10. ASSUME NEW r \in Resources, LeaseLapses(r) \/ WaitRunsOut(r) PROVE row' \in [Resources -> Row]
        /\ \A q \in Resources :
             \/ row'[q] = row[q]
             \/ row'[q] = [row[q] EXCEPT !.lease = "lapsed"]
             \/ row[q].state = "waiting" /\ row'[q] = [row[q] EXCEPT !.state = "overdue"]
  <2>0. row \in [Resources -> Row]
    BY DEF Typed
  <2>1. CASE LeaseLapses(r)
    <3>1. row' = [row EXCEPT ![r] = [row[r] EXCEPT !.lease = "lapsed"]]
      BY <2>1 DEF LeaseLapses
    <3>2. QED
      BY <1>5, <2>0, <3>1, RowSet
  <2>2. CASE WaitRunsOut(r)
    <3>1. row[r].state = "waiting" /\ row' = [row EXCEPT ![r] = [row[r] EXCEPT !.state = "overdue"]]
      BY <2>2 DEF WaitRunsOut
    <3>2. QED
      BY <1>5, <2>0, <3>1, RowSet
  <2>3. QED
    BY <1>10, <2>1, <2>2
<1>11. CASE \E w \in Workers, r \in Resources : Claim(w, r)
  BY <1>7, <1>11
<1>12. CASE \E w \in Workers, r \in Resources : Record(w, r)
  BY <1>8, <1>12
<1>13. CASE \E w \in Workers, r \in Resources : RecordRelease(w, r)
  BY <1>9, <1>13
<1>14. CASE \E w \in Workers : EndWaves(w)
  BY <1>4, <1>14
<1>15. CASE \E r \in Resources : LeaseLapses(r) \/ WaitRunsOut(r)
  BY <1>10, <1>15
<1>16. QED
  BY <1>6, <1>11, <1>12, <1>13, <1>14, <1>15, NextCases

\* A step that handles one job, and the steps that handle none.
OneJob(w, r) ==
  \/ \E s \in {"none", "suspect", "calling"} : SetJob(w, r, s) /\ UNCHANGED token
  \/ SetJob(w, r, "none") /\ token' = [token EXCEPT ![w][r] = 0]

NoJob ==
  \/ \E w \in Workers, e \in Employees : Pick(w, e)
  \/ \E w \in Workers : EndWaves(w) \/ EndRelease(w) \/ \E r \in Resources : ReadBack(w, r)
  \/ \E r \in Resources :
       \/ LeaseLapses(r) \/ WaitRunsOut(r)
       \/ \E k \in 1..asked[r] : Redeem(r, k)
  \/ \E e \in Employees : Suspend(e) \/ Reinstate(e) \/ Terminate(e) \/ Crowd(e)
  \/ Halt

LEMMA NoJobKept == ASSUME NoJob PROVE UNCHANGED <<job, token, held, bought>>
BY DEF NoJob, Pick, EndWaves, EndRelease, ReadBack, LeaseLapses, WaitRunsOut, Redeem, Suspend, Reinstate,
       Terminate, Crowd, Halt, desk, provider

LEMMA JobCases ==
  ASSUME Next
  PROVE  \/ NoJob
         \/ \E w \in Workers, r \in Resources :
              FindsCrash(w, r) \/ Park(w, r) \/ TurnedAway(w, r) \/ Claim(w, r) \/ Record(w, r)
                \/ RecordRelease(w, r) \/ Escalate(w, r)
         \/ \E w \in Workers, r \in Resources : Answer(w, r) \/ CallRelease(w, r)
         \/ \E w \in Workers : Wave(w) \/ LosesRace(w) \/ Crash(w) \/ Abort(w)
         \/ \E w \in Workers, e \in Employees : OnTerminated(w, e) \/ Sweep(w, e)
BY DEF Next, NoJob, StepOf, ReleaseOf

\* What a provider answers, and what its answer leaves running.
LEMMA Answered ==
  ASSUME Typed, NEW w \in Workers, NEW r \in Resources, Answer(w, r)
  PROVE  /\ job[w][r] = "calling"
         /\ held' \in [Resources -> 0..MaxBought] /\ bought' \in [Resources -> 0..MaxBought]
         /\ \A q \in Resources \ {r} : held'[q] = held[q] /\ bought'[q] = bought[q]
         /\ \/ held'[r] = held[r] /\ bought'[r] = bought[r]
            \/ held[r] = 0 /\ bought'[r] = bought[r] + 1 /\ held'[r] = bought[r] + 1
         /\ \E answer \in AnswerKinds :
              /\ SetJob(w, r, answer)
              /\ token' = [token EXCEPT ![w][r] = IF answer = "ready" THEN held'[r] ELSE 0]
<1>1. PICK answer \in Answers :
        /\ UNCHANGED <<held, bought>> \/ Buys(r)
        /\ SetJob(w, r, answer)
        /\ token' = [token EXCEPT ![w][r] = IF answer = "ready" THEN held'[r] ELSE 0]
  BY DEF Answer, provider
<1>2. answer \in AnswerKinds
  BY ProvisioningAssumption
<1>3. CASE UNCHANGED <<held, bought>>
  BY <1>1, <1>2, <1>3 DEF Typed, Answer
<1>4. CASE Buys(r)
  <2>1. /\ held[r] = 0 /\ bought[r] < MaxBought /\ bought[r] \in 0..MaxBought
        /\ bought' = [bought EXCEPT ![r] = bought[r] + 1]
        /\ held' = [held EXCEPT ![r] = bought[r] + 1]
    BY <1>4 DEF Buys, Typed
  <2>2. bought[r] + 1 \in 0..MaxBought
    BY <2>1, Limits
  <2>3. /\ held' \in [Resources -> 0..MaxBought] /\ bought' \in [Resources -> 0..MaxBought]
        /\ \A q \in Resources \ {r} : held'[q] = held[q] /\ bought'[q] = bought[q]
        /\ held'[r] = bought[r] + 1 /\ bought'[r] = bought[r] + 1
    BY <2>1, <2>2 DEF Typed
  <2>4. QED
    BY <1>1, <1>2, <2>1, <2>3 DEF Answer
<1>5. QED
  BY <1>1, <1>3, <1>4

LEMMA Freed ==
  ASSUME Typed, NEW w \in Workers, NEW r \in Resources, CallRelease(w, r)
  PROVE  /\ job[w][r] = "toRelease" /\ UNCHANGED <<token, bought>>
         /\ held' \in [Resources -> 0..MaxBought]
         /\ \A q \in Resources \ {r} : held'[q] = held[q]
         /\ held'[r] \in {held[r], 0}
         /\ \E s \in Outcomes :
              /\ SetJob(w, r, s)
              /\ s = "released" => held'[r] # token[w][r] \/ token[w][r] = 0
<1>1. held' = held \/ held' = [held EXCEPT ![r] = IF held[r] = token[w][r] THEN 0 ELSE held[r]]
  BY DEF CallRelease
<1>2. /\ held' \in [Resources -> 0..MaxBought]
      /\ \A q \in Resources \ {r} : held'[q] = held[q]
      /\ held'[r] \in {held[r], 0}
  BY <1>1, Limits DEF Typed
<1>3. \E s \in Outcomes :
        /\ SetJob(w, r, s)
        /\ s = "released" => held' = [held EXCEPT ![r] = IF held[r] = token[w][r] THEN 0 ELSE held[r]]
  BY DEF CallRelease, Outcomes
<1>4. held' = [held EXCEPT ![r] = IF held[r] = token[w][r] THEN 0 ELSE held[r]]
        => held'[r] # token[w][r] \/ token[w][r] = 0
  BY DEF Typed
<1>5. QED
  BY <1>2, <1>3, <1>4 DEF CallRelease, MayRelease

\* The desk of a worker, one resource at a time.
DeskStep(w, r) ==
  \/ job'[w][r] = job[w][r] /\ token'[w][r] = token[w][r]
  \/ job'[w][r] \in {"none", "suspect"}
  \/ job'[w][r] = "planned" /\ r \in Runnable(w)
  \/ job'[w][r] = "calling" /\ Claim(w, r)
  \/ /\ job'[w][r] \in AnswerKinds /\ Answer(w, r)
     /\ token'[w][r] = IF job'[w][r] = "ready" THEN held'[r] ELSE 0
  \/ /\ job'[w][r] \in {"toRelease", "toEscalate"}
     /\ lifecycle[EmployeeOf[r]] = "terminated" \/ notices[EmployeeOf[r]] > 0
     /\ row[r].binding # 0
     /\ job'[w][r] = "toRelease" => token'[w][r] = row[r].binding
  \/ /\ job'[w][r] \in Outcomes /\ job[w][r] = "toRelease" /\ CallRelease(w, r)
     /\ token'[w][r] = token[w][r]
     /\ job'[w][r] = "released" => held'[r] # token'[w][r] \/ token'[w][r] = 0

HeldStep(r) ==
  \/ held'[r] \in {held[r], 0} /\ bought'[r] = bought[r]
  \/ held[r] = 0 /\ bought'[r] = bought[r] + 1 /\ held'[r] = bought[r] + 1

DeskTyped ==
  /\ job' \in [Workers -> [Resources -> JobState]]
  /\ token' \in [Workers -> [Resources -> 0..MaxBought]]
  /\ held' \in [Resources -> 0..MaxBought] /\ bought' \in [Resources -> 0..MaxBought]

Desks == DeskTyped /\ \A r \in Resources : HeldStep(r) /\ \A w \in Workers : DeskStep(w, r)

LEMMA DesksAlone ==
  ASSUME Typed, NEW w \in Workers, NEW r \in Resources,
         FindsCrash(w, r) \/ Park(w, r) \/ TurnedAway(w, r) \/ Claim(w, r) \/ Record(w, r)
           \/ RecordRelease(w, r) \/ Escalate(w, r)
  PROVE  Desks
<1>1. UNCHANGED <<held, bought>>
  BY DEF FindsCrash, Park, TurnedAway, Claim, Record, RecordRelease, Escalate, provider
<1>2. PICK s \in {"none", "suspect", "calling"} :
        /\ SetJob(w, r, s)
        /\ UNCHANGED token \/ (s = "none" /\ token' = [token EXCEPT ![w][r] = 0])
        /\ s = "calling" => Claim(w, r)
  BY DEF FindsCrash, Park, TurnedAway, Claim, Record, RecordRelease, Escalate
<1>3. s \in JobState
  BY JobStates
<1>4. /\ job' \in [Workers -> [Resources -> JobState]]
      /\ \A v \in Workers, q \in Resources : job'[v][q] = IF v = w /\ q = r THEN s ELSE job[v][q]
  BY <1>2, <1>3, JobSet DEF Typed
<1>5. /\ token' \in [Workers -> [Resources -> 0..MaxBought]]
      /\ \A v \in Workers, q \in Resources : (v # w \/ q # r) => token'[v][q] = token[v][q]
  <2>1. 0 \in 0..MaxBought
    BY Limits
  <2>2. QED
    BY <1>2, <2>1, TokenSet DEF Typed
<1>6. \A v \in Workers, q \in Resources : DeskStep(v, q)
  BY <1>2, <1>4, <1>5 DEF DeskStep
<1>7. QED
  BY <1>1, <1>4, <1>5, <1>6 DEF Desks, DeskTyped, HeldStep, Typed

LEMMA DesksCall ==
  ASSUME Typed, NEW w \in Workers, NEW r \in Resources, Answer(w, r) \/ CallRelease(w, r)
  PROVE  Desks
<1>1. CASE Answer(w, r)
  <2>1. PICK answer \in AnswerKinds :
          /\ SetJob(w, r, answer)
          /\ token' = [token EXCEPT ![w][r] = IF answer = "ready" THEN held'[r] ELSE 0]
    BY <1>1, Answered
  <2>2. held' \in [Resources -> 0..MaxBought] /\ bought' \in [Resources -> 0..MaxBought]
        /\ \A q \in Resources : HeldStep(q)
    BY <1>1, Answered DEF HeldStep
  <2>3. answer \in JobState /\ job \in [Workers -> [Resources -> JobState]]
    BY JobStates DEF Typed
  <2>4. /\ job' \in [Workers -> [Resources -> JobState]]
        /\ \A v \in Workers, q \in Resources :
             job'[v][q] = IF v = w /\ q = r THEN answer ELSE job[v][q]
    BY <2>1, <2>3, JobSet
  <2>. DEFINE b == IF answer = "ready" THEN held'[r] ELSE 0
  <2>5. b \in 0..MaxBought /\ token \in [Workers -> [Resources -> 0..MaxBought]]
    BY <2>2, Limits DEF Typed
  <2>6. token' = [token EXCEPT ![w][r] = b] /\ (answer = "ready" => b = held'[r])
        /\ (answer # "ready" => b = 0)
    BY <2>1
  <2>. HIDE DEF b
  <2>7. /\ token' \in [Workers -> [Resources -> 0..MaxBought]]
        /\ \A v \in Workers, q \in Resources :
             token'[v][q] = IF v = w /\ q = r THEN b ELSE token[v][q]
    BY <2>5, <2>6, TokenSet
  <2>8. \A v \in Workers, q \in Resources : DeskStep(v, q)
    BY <1>1, <2>4, <2>6, <2>7 DEF DeskStep
  <2>9. QED
    BY <2>2, <2>4, <2>7, <2>8 DEF Desks, DeskTyped
<1>2. CASE CallRelease(w, r)
  <2>1. PICK s \in Outcomes :
          /\ SetJob(w, r, s)
          /\ s = "released" => held'[r] # token[w][r] \/ token[w][r] = 0
    BY <1>2, Freed
  <2>2. /\ held' \in [Resources -> 0..MaxBought] /\ UNCHANGED <<token, bought>>
        /\ job[w][r] = "toRelease" /\ \A q \in Resources : held'[q] \in {held[q], 0}
    BY <1>2, Freed
  <2>3. s \in JobState /\ job \in [Workers -> [Resources -> JobState]]
    BY JobStates DEF Typed
  <2>4. /\ job' \in [Workers -> [Resources -> JobState]]
        /\ \A v \in Workers, q \in Resources :
             job'[v][q] = IF v = w /\ q = r THEN s ELSE job[v][q]
    BY <2>1, <2>3, JobSet
  <2>5. \A v \in Workers, q \in Resources : DeskStep(v, q)
    BY <1>2, <2>1, <2>2, <2>4 DEF DeskStep
  <2>6. QED
    BY <2>2, <2>4, <2>5 DEF Desks, DeskTyped, HeldStep, Typed
<1>3. QED
  BY <1>1, <1>2

LEMMA DesksAll ==
  ASSUME Typed, NEW w \in Workers, Wave(w) \/ LosesRace(w) \/ Crash(w) \/ Abort(w)
  PROVE  Desks
<1>1. UNCHANGED <<held, bought>>
  BY DEF Wave, LosesRace, Crash, Abort, provider
<1>2. CASE Wave(w)
  <2>1. PICK J \in [Resources -> {"planned", "none"}] :
          /\ job' = [job EXCEPT ![w] = J]
          /\ \A r \in Resources : J[r] = "planned" => r \in Runnable(w)
    <3>. DEFINE J == [r \in Resources |->
                        IF /\ r \in Runnable(w)
                           /\ lifecycle[emp[w]] = "active"
                           /\ row[r].state \notin {"waiting", "overdue"}
                        THEN "planned" ELSE "none"]
    <3>1. J \in [Resources -> {"planned", "none"}] /\ job' = [job EXCEPT ![w] = J]
          /\ \A r \in Resources : J[r] = "planned" => r \in Runnable(w)
      BY <1>2 DEF Wave
    <3>2. QED
      BY <3>1
  <2>2. J \in [Resources -> JobState] /\ UNCHANGED token
    BY <1>2, JobStates DEF Wave
  <2>3. job' \in [Workers -> [Resources -> JobState]]
        /\ \A v \in Workers : job'[v] = IF v = w THEN J ELSE job[v]
    BY <2>1, <2>2 DEF Typed
  <2>4. \A v \in Workers, q \in Resources : DeskStep(v, q)
    BY <2>1, <2>2, <2>3 DEF DeskStep
  <2>5. QED
    BY <1>1, <2>2, <2>3, <2>4 DEF Desks, DeskTyped, HeldStep, Typed
<1>3. CASE LosesRace(w) \/ Crash(w) \/ Abort(w)
  <2>1. /\ job' = [job EXCEPT ![w] = [r \in Resources |-> "none"]]
        /\ token' = [token EXCEPT ![w] = [r \in Resources |-> 0]]
    BY <1>3 DEF LosesRace, Crash, Abort, Abandon
  <2>2. "none" \in JobState /\ 0 \in 0..MaxBought
    BY JobStates, Limits
  <2>3. /\ job' \in [Workers -> [Resources -> JobState]]
        /\ token' \in [Workers -> [Resources -> 0..MaxBought]]
        /\ \A v \in Workers \ {w} : job'[v] = job[v] /\ token'[v] = token[v]
        /\ \A r \in Resources : job'[w][r] = "none"
    BY <2>1, <2>2 DEF Typed
  <2>4. \A v \in Workers, q \in Resources : DeskStep(v, q)
    BY <2>3 DEF DeskStep
  <2>5. QED
    BY <1>1, <2>3, <2>4 DEF Desks, DeskTyped, HeldStep, Typed
<1>4. QED
  BY <1>2, <1>3

LEMMA DesksRelease ==
  ASSUME Typed, NEW w \in Workers, NEW e \in Employees, OnTerminated(w, e) \/ Sweep(w, e)
  PROVE  Desks
<1>1. UNCHANGED <<held, bought>>
  BY DEF OnTerminated, Sweep, provider
<1>2. PICK J \in [Resources -> {"toRelease", "toEscalate", "none"}] :
        /\ TakeOn(w, e, J)
        /\ \A r \in Resources : J[r] # "none" =>
             /\ row[r].binding # 0
             /\ lifecycle[EmployeeOf[r]] = "terminated" \/ notices[EmployeeOf[r]] > 0
  <2>1. CASE OnTerminated(w, e)
    <3>. DEFINE J == [r \in Resources |->
                        IF r \in Steps(e) /\ row[r].binding # 0 THEN "toRelease" ELSE "none"]
    <3>1. TakeOn(w, e, J) /\ notices[e] > 0
      BY <2>1 DEF OnTerminated
    <3>2. J \in [Resources -> {"toRelease", "toEscalate", "none"}]
          /\ \A r \in Resources : J[r] # "none" => EmployeeOf[r] = e /\ row[r].binding # 0
      BY DEF Steps
    <3>. HIDE DEF J
    <3>3. QED
      BY <3>1, <3>2
  <2>2. CASE Sweep(w, e)
    <3>1. PICK S \in SUBSET {r \in Steps(e) : Sweepable(r)} :
            TakeOn(w, e, [r \in Resources |->
              IF r \notin S THEN "none"
              ELSE IF sweeps[r] < MaxAttempts THEN "toRelease" ELSE "toEscalate"])
      BY <2>2 DEF Sweep
    <3>. DEFINE J == [r \in Resources |->
                        IF r \notin S THEN "none"
                        ELSE IF sweeps[r] < MaxAttempts THEN "toRelease" ELSE "toEscalate"]
    <3>2. TakeOn(w, e, J)
      BY <3>1
    <3>3. J \in [Resources -> {"toRelease", "toEscalate", "none"}]
          /\ \A r \in Resources : J[r] # "none" => Sweepable(r)
      OBVIOUS
    <3>. HIDE DEF J
    <3>4. QED
      BY <3>2, <3>3 DEF Sweepable
  <2>3. QED
    BY <2>1, <2>2
<1>3. /\ job' = [job EXCEPT ![w] = J]
      /\ token' = [token EXCEPT ![w] =
           [r \in Resources |-> IF J[r] = "toRelease" THEN row[r].binding ELSE 0]]
  BY <1>2 DEF TakeOn
<1>4. J \in [Resources -> JobState]
  BY JobStates DEF JobState, ReleaseJobs
<1>5. \A r \in Resources : row[r].binding \in 0..MaxBought
  <2>1. \A r \in Resources : row[r] \in Row
    BY DEF Typed
  <2>2. QED
    BY <2>1 DEF Row
<1>6. [r \in Resources |-> IF J[r] = "toRelease" THEN row[r].binding ELSE 0]
        \in [Resources -> 0..MaxBought]
  BY <1>5, Limits
<1>7. /\ job' \in [Workers -> [Resources -> JobState]]
      /\ \A v \in Workers : job'[v] = IF v = w THEN J ELSE job[v]
  BY <1>3, <1>4 DEF Typed
<1>8. /\ token' \in [Workers -> [Resources -> 0..MaxBought]]
      /\ \A v \in Workers \ {w} : token'[v] = token[v]
      /\ \A r \in Resources : J[r] = "toRelease" => token'[w][r] = row[r].binding
  BY <1>3, <1>6 DEF Typed
<1>9. \A v \in Workers, q \in Resources : DeskStep(v, q)
  BY <1>2, <1>7, <1>8 DEF DeskStep
<1>10. QED
  BY <1>1, <1>7, <1>8, <1>9 DEF Desks, DeskTyped, HeldStep, Typed

LEMMA DeskChanges == ASSUME Typed, [Next]_vars PROVE Desks
<1>1. CASE NoJob \/ UNCHANGED vars
  BY <1>1, NoJobKept DEF vars, desk, provider, Desks, DeskTyped, DeskStep, HeldStep, Typed
<1>2. QED
  BY <1>1, JobCases, DesksAlone, DesksCall, DesksAll, DesksRelease

\* What a step does to the intent of a resource and to the questions about it.
FilesKept(r) ==
  /\ intent'[r] = intent[r] /\ named'[r] = named[r] /\ asked'[r] = asked[r]
  /\ accord'[r] = accord[r] /\ resumed'[r] = resumed[r]

FileStep(r) ==
  \/ FilesKept(r)
  \/ /\ asked'[r] = asked[r] + 1 /\ accord'[r] = accord[r] /\ resumed'[r] = resumed[r]
     /\ \/ intent'[r] = intent[r] /\ named'[r] = named[r]
        \/ intent'[r] = "orphaned" /\ named'[r] = asked[r] + 1
  \/ /\ asked'[r] = asked[r] /\ accord'[r] = accord[r] /\ intent'[r] = IntentBegun(r)
     /\ IF Reconciled(r) THEN named'[r] = 0 /\ resumed'[r] = resumed[r] + 1
        ELSE named'[r] = named[r] /\ resumed'[r] = resumed[r]
  \/ /\ named'[r] = named[r] /\ asked'[r] = asked[r]
     /\ accord'[r] = accord[r] /\ resumed'[r] = resumed[r]
     /\ intent'[r] \in {"succeeded", "failed"} /\ r \in settled'
  \/ /\ intent'[r] = intent[r] /\ named'[r] = named[r] /\ asked'[r] = asked[r]
     /\ resumed'[r] = resumed[r]
     /\ \E k \in (1..asked[r]) \ accord[r] : accord'[r] = accord[r] \cup {k}

Intents == {"absent", "in_flight", "succeeded", "failed", "orphaned"}

Files ==
  /\ intent' \in [Resources -> Intents]
  /\ named' \in [Resources -> Nat] /\ asked' \in [Resources -> Nat]
  /\ accord' \in [Resources -> SUBSET Nat] /\ resumed' \in [Resources -> Nat]
  /\ \A r \in Resources : FileStep(r)

LEMMA FilesUntouched ==
  ASSUME Typed, UNCHANGED <<intent, named, asked, accord, resumed>> PROVE Files
BY DEF Typed, Files, FileStep, FilesKept, Intents

LEMMA FilesPark ==
  ASSUME Typed, NEW w \in Workers, NEW r \in Resources, Park(w, r) PROVE Files
<1>1. /\ asked' = [asked EXCEPT ![r] = asked[r] + 1] /\ UNCHANGED <<accord, resumed>>
      /\ \/ UNCHANGED <<intent, named>>
         \/ /\ intent' = [intent EXCEPT ![r] = "orphaned"]
            /\ named' = [named EXCEPT ![r] = asked[r] + 1]
  BY DEF Park, history
<1>2. asked[r] + 1 \in Nat
  BY DEF Typed
<1>3. /\ asked' \in [Resources -> Nat] /\ asked'[r] = asked[r] + 1
      /\ \A q \in Resources \ {r} : asked'[q] = asked[q]
  BY <1>1, <1>2 DEF Typed
<1>4. /\ intent' \in [Resources -> Intents] /\ named' \in [Resources -> Nat]
      /\ \A q \in Resources \ {r} : intent'[q] = intent[q] /\ named'[q] = named[q]
      /\ \/ intent'[r] = intent[r] /\ named'[r] = named[r]
         \/ intent'[r] = "orphaned" /\ named'[r] = asked[r] + 1
  BY <1>1, <1>2 DEF Typed, Intents
<1>5. QED
  BY <1>1, <1>3, <1>4 DEF Files, FileStep, FilesKept, Typed

LEMMA FilesClaim ==
  ASSUME Typed, NEW w \in Workers, NEW r \in Resources, Claim(w, r) PROVE Files
<1>1. /\ intent' = [intent EXCEPT ![r] = IntentBegun(r)] /\ UNCHANGED <<asked, accord>>
      /\ IF Reconciled(r)
         THEN /\ named' = [named EXCEPT ![r] = 0]
              /\ resumed' = [resumed EXCEPT ![r] = resumed[r] + 1]
         ELSE UNCHANGED <<named, resumed>>
  BY DEF Claim, human
<1>2. IntentBegun(r) \in Intents
  BY DEF IntentBegun, Typed, Intents
<1>3. /\ intent' \in [Resources -> Intents] /\ intent'[r] = IntentBegun(r)
      /\ \A q \in Resources \ {r} : intent'[q] = intent[q]
  BY <1>1, <1>2 DEF Typed, Intents
<1>4. resumed[r] + 1 \in Nat /\ 0 \in Nat
  BY DEF Typed
<1>5. /\ named' \in [Resources -> Nat] /\ resumed' \in [Resources -> Nat]
      /\ \A q \in Resources \ {r} : named'[q] = named[q] /\ resumed'[q] = resumed[q]
      /\ IF Reconciled(r) THEN named'[r] = 0 /\ resumed'[r] = resumed[r] + 1
         ELSE named'[r] = named[r] /\ resumed'[r] = resumed[r]
  BY <1>1, <1>4 DEF Typed
<1>6. QED
  BY <1>1, <1>3, <1>5 DEF Files, FileStep, FilesKept, Typed

LEMMA FilesRecord ==
  ASSUME Typed, NEW w \in Workers, NEW r \in Resources, Record(w, r) PROVE Files
<1>1. UNCHANGED <<named, asked, accord, resumed>>
  BY DEF Record, human
<1>2. CASE Owns(w, r)
  <2>1. PICK s \in {"succeeded", "failed"} :
          intent' = [intent EXCEPT ![r] = s] /\ settled' = settled \cup {r}
    BY <1>2 DEF Record
  <2>2. QED
    BY <1>1, <2>1 DEF Typed, Files, FileStep, FilesKept, Intents
<1>3. CASE ~Owns(w, r)
  BY <1>1, <1>3, FilesUntouched DEF Record
<1>4. QED
  BY <1>2, <1>3

LEMMA FilesRedeem ==
  ASSUME Typed, NEW r \in Resources, NEW k \in 1..asked[r], Redeem(r, k) PROVE Files
<1>1. /\ k \in (1..asked[r]) \ accord[r] /\ UNCHANGED <<intent, named, asked, resumed>>
      /\ accord' = [accord EXCEPT ![r] = accord[r] \cup {k}]
  BY DEF Redeem, store, history
<1>2. k \in Nat
  BY DEF Typed
<1>3. /\ accord' \in [Resources -> SUBSET Nat] /\ accord'[r] = accord[r] \cup {k}
      /\ \A q \in Resources \ {r} : accord'[q] = accord[q]
  BY <1>1, <1>2 DEF Typed
<1>4. QED
  BY <1>1, <1>3 DEF Typed, Files, FileStep, FilesKept, Intents

LEMMA FileChanges == ASSUME Typed, [Next]_vars PROVE Files
<1>1. ASSUME NEW w \in Workers, NEW r \in Resources,
             FindsCrash(w, r) \/ TurnedAway(w, r) \/ Answer(w, r) \/ ReleaseOf(w, r)
      PROVE  UNCHANGED <<intent, named, asked, accord, resumed>>
  BY <1>1 DEF FindsCrash, TurnedAway, Answer, ReleaseOf, CallRelease, ReadBack, RecordRelease,
     Escalate, store, human, history
<1>2. ASSUME NEW w \in Workers,
             \/ \E e \in Employees : Pick(w, e) \/ OnTerminated(w, e) \/ Sweep(w, e)
             \/ Wave(w) \/ EndWaves(w) \/ EndRelease(w) \/ LosesRace(w) \/ Crash(w) \/ Abort(w)
      PROVE  UNCHANGED <<intent, named, asked, accord, resumed>>
  BY <1>2 DEF Pick, OnTerminated, Sweep, Wave, EndWaves, EndRelease, LosesRace, Crash, Abort, Abandon, store, human, history
<1>3. ASSUME \/ \E r \in Resources : LeaseLapses(r) \/ WaitRunsOut(r)
             \/ \E e \in Employees : Suspend(e) \/ Reinstate(e) \/ Terminate(e) \/ Crowd(e)
             \/ Halt \/ UNCHANGED vars
      PROVE  UNCHANGED <<intent, named, asked, accord, resumed>>
  BY <1>3 DEF LeaseLapses, WaitRunsOut, Suspend, Reinstate, Terminate, Crowd, Halt, vars, store, human, history
<1>4. QED
  BY <1>1, <1>2, <1>3, FilesUntouched, FilesPark, FilesClaim, FilesRecord, FilesRedeem
     DEF Next, StepOf

\* Nobody comes back from termination, and a notice is of a termination.
LEMMA PeopleChange ==
  ASSUME Typed, [Next]_vars
  PROVE  /\ lifecycle' \in [Employees -> {"active", "suspended", "terminated"}]
         /\ notices' \in [Employees -> {0, 1}]
         /\ \A e \in Employees :
              /\ lifecycle[e] = "terminated" => lifecycle'[e] = "terminated"
              /\ notices'[e] > 0 => notices[e] > 0 \/ lifecycle'[e] = "terminated"
<1>1. ASSUME NEW e \in Employees, Suspend(e) \/ Reinstate(e) \/ Terminate(e) \/ Crowd(e) PROVE
        /\ lifecycle' \in [Employees -> {"active", "suspended", "terminated"}]
        /\ notices' \in [Employees -> {0, 1}]
        /\ \A f \in Employees :
              /\ lifecycle[f] = "terminated" => lifecycle'[f] = "terminated"
              /\ notices'[f] > 0 => notices[f] > 0 \/ lifecycle'[f] = "terminated"
  BY <1>1 DEF Suspend, Reinstate, Terminate, Crowd, Typed, release
<1>2. ASSUME NEW w \in Workers, NEW e \in Employees, OnTerminated(w, e) PROVE
        /\ UNCHANGED lifecycle /\ notices' \in [Employees -> {0, 1}]
        /\ \A f \in Employees : notices'[f] > 0 => notices[f] > 0
  <2>0. UNCHANGED lifecycle /\ notices[e] > 0 /\ notices' = [notices EXCEPT ![e] = notices[e] - 1]
    BY <1>2 DEF OnTerminated, people
  <2>1. UNCHANGED lifecycle /\ notices[e] = 1 /\ notices' = [notices EXCEPT ![e] = 0]
    <3>1. notices[e] \in {0, 1}
      BY DEF Typed
    <3>2. notices[e] = 1 /\ notices[e] - 1 = 0
      BY <2>0, <3>1
    <3>3. QED
      BY <2>0, <3>2
  <2>2. QED
    BY <2>1 DEF Typed
<1>3. CASE \/ \E w \in Workers :
                \/ \E e \in Employees : Pick(w, e) \/ Sweep(w, e)
                \/ \E r \in Resources : StepOf(w, r) \/ ReleaseOf(w, r)
                \/ Wave(w) \/ EndWaves(w) \/ EndRelease(w)
                \/ LosesRace(w) \/ Crash(w) \/ Abort(w)
           \/ \E r \in Resources :
                \/ LeaseLapses(r) \/ WaitRunsOut(r)
                \/ \E k \in 1..asked[r] : Redeem(r, k)
           \/ Halt \/ UNCHANGED vars
  <2>1. UNCHANGED <<lifecycle, notices>>
    <3>1. ASSUME NEW w \in Workers, NEW r \in Resources, StepOf(w, r) \/ ReleaseOf(w, r)
          PROVE  UNCHANGED <<lifecycle, notices>>
      BY <3>1 DEF StepOf, FindsCrash, Park, TurnedAway, Claim, Answer, Record, ReleaseOf,
         CallRelease, ReadBack, RecordRelease, Escalate, people, release
    <3>2. ASSUME NEW w \in Workers,
                 \/ \E e \in Employees : Pick(w, e) \/ Sweep(w, e)
                 \/ Wave(w) \/ EndWaves(w) \/ EndRelease(w)
                 \/ LosesRace(w) \/ Crash(w) \/ Abort(w)
          PROVE  UNCHANGED <<lifecycle, notices>>
      BY <3>2 DEF Pick, Sweep, Wave, EndWaves, EndRelease, LosesRace, Crash, Abort, people, release
    <3>3. ASSUME \/ \E r \in Resources :
                      \/ LeaseLapses(r) \/ WaitRunsOut(r)
                      \/ \E k \in 1..asked[r] : Redeem(r, k)
                 \/ Halt \/ UNCHANGED vars
          PROVE  UNCHANGED <<lifecycle, notices>>
      BY <3>3 DEF LeaseLapses, WaitRunsOut, Redeem, Halt, vars, people, release
    <3>4. QED
      BY <1>3, <3>1, <3>2, <3>3
  <2>2. QED
    BY <2>1 DEF Typed
<1>4. QED
  BY <1>1, <1>2, <1>3 DEF Next, Typed

-----------------------------------------------------------------------------
(* What a worker has in hand, and the copies of its releases *)

Phases == {"idle", "waves", "release", "dead"}

\* Steps are taken in waves and bindings given back in a release, of the
\* employee the worker is at.
Duties ==
  /\ phase \in [Workers -> Phases] /\ emp \in [Workers -> Employees \cup {Nobody}]
  /\ \A w \in Workers, r \in Resources : job[w][r] # "none" =>
       \/ phase[w] = "waves" /\ job[w][r] \in {"planned", "suspect", "calling"} \cup AnswerKinds
       \/ /\ phase[w] = "release" /\ job[w][r] \in ReleaseJobs \cup {"toEscalate"}
          /\ emp[w] = EmployeeOf[r]

LEMMA DutiesInit == Init => Duties
BY DEF Init, Duties, Phases

\* A step is taken by a worker in its phase, and moves it to no other.
LEMMA DutiesOfOne ==
  ASSUME Typed, Duties, NEW w \in Workers, NEW r \in Resources, StepOf(w, r) \/ ReleaseOf(w, r)
  PROVE  Duties'
<1>1. UNCHANGED <<phase, emp>>
  BY DEF StepOf, ReleaseOf, FindsCrash, Park, TurnedAway, Claim, Answer, Record, CallRelease,
     ReadBack, RecordRelease, Escalate, worker
<1>2. job \in [Workers -> [Resources -> JobState]]
  BY DEF Typed
<1>3. CASE StepOf(w, r)
  <2>1. PICK s \in {"none", "suspect", "calling"} \cup AnswerKinds : SetJob(w, r, s)
    <3>1. CASE Answer(w, r)
      BY <3>1, Answered
    <3>2. CASE ~Answer(w, r)
      BY <1>3, <3>2 DEF StepOf, FindsCrash, Park, TurnedAway, Claim, Record
    <3>3. QED
      BY <3>1, <3>2
  <2>2. job[w][r] \in {"planned", "suspect", "calling"} \cup AnswerKinds
    BY <1>3 DEF StepOf, FindsCrash, Park, TurnedAway, Claim, Answer, Record
  <2>3. phase[w] = "waves"
    BY <2>2 DEF Duties, AnswerKinds, ReleaseJobs, Outcomes
  <2>4. \A v \in Workers, q \in Resources : job'[v][q] = IF v = w /\ q = r THEN s ELSE job[v][q]
    BY <1>2, <2>1 DEF SetJob
  <2>5. QED
    BY <1>1, <2>1, <2>3, <2>4 DEF Duties
<1>4. CASE ReleaseOf(w, r)
  <2>1. PICK s \in {"none"} \cup Outcomes : SetJob(w, r, s) \/ job' = job
    BY <1>4 DEF ReleaseOf, CallRelease, ReadBack, RecordRelease, Escalate, Outcomes
  <2>2. job[w][r] \in ReleaseJobs \cup {"toEscalate"}
    BY <1>4 DEF ReleaseOf, CallRelease, MayRelease, ReadBack, RecordRelease, Escalate, ReleaseJobs
  <2>3. phase[w] = "release" /\ emp[w] = EmployeeOf[r]
    BY <2>2 DEF Duties, AnswerKinds, ReleaseJobs, Outcomes
  <2>4. \A v \in Workers, q \in Resources :
          job'[v][q] = job[v][q] \/ (v = w /\ q = r /\ job'[v][q] = s)
    BY <1>2, <2>1 DEF SetJob
  <2>5. QED
    BY <1>1, <2>1, <2>3, <2>4 DEF Duties, ReleaseJobs
<1>5. QED
  BY <1>3, <1>4

\* What a worker takes on it does in the phase it enters.
LEMMA DutiesOfAll ==
  ASSUME Typed, Duties, NEW w \in Workers,
         \/ \E e \in Employees : Pick(w, e) \/ OnTerminated(w, e) \/ Sweep(w, e)
         \/ Wave(w) \/ EndWaves(w) \/ EndRelease(w) \/ LosesRace(w) \/ Crash(w) \/ Abort(w)
  PROVE  Duties'
<1>0. /\ phase \in [Workers -> Phases] /\ emp \in [Workers -> Employees \cup {Nobody}]
      /\ job \in [Workers -> [Resources -> JobState]]
  BY DEF Duties, Typed
<1>1. ASSUME NEW e \in Employees, Pick(w, e) PROVE Duties'
  <2>1. /\ phase[w] = "idle" /\ phase' = [phase EXCEPT ![w] = "waves"]
        /\ emp' = [emp EXCEPT ![w] = e] /\ job' = job
    BY <1>1 DEF Pick, Idle, desk
  <2>2. QED
    BY <1>0, <2>1 DEF Duties, Phases
<1>2. ASSUME NEW e \in Employees, OnTerminated(w, e) \/ Sweep(w, e) PROVE Duties'
  <2>1. PICK J \in [Resources -> {"toRelease", "toEscalate", "none"}] :
          TakeOn(w, e, J) /\ \A r \in Resources : J[r] # "none" => EmployeeOf[r] = e
    <3>1. CASE OnTerminated(w, e)
      <4>. DEFINE J == [r \in Resources |->
                          IF r \in Steps(e) /\ row[r].binding # 0 THEN "toRelease" ELSE "none"]
      <4>1. TakeOn(w, e, J)
        BY <3>1 DEF OnTerminated
      <4>2. J \in [Resources -> {"toRelease", "toEscalate", "none"}]
            /\ \A r \in Resources : J[r] # "none" => EmployeeOf[r] = e
        BY DEF Steps
      <4>. HIDE DEF J
      <4>3. QED
        BY <4>1, <4>2
    <3>2. CASE Sweep(w, e)
      <4>1. PICK S \in SUBSET {r \in Steps(e) : Sweepable(r)} :
              TakeOn(w, e, [r \in Resources |->
                IF r \notin S THEN "none"
                ELSE IF sweeps[r] < MaxAttempts THEN "toRelease" ELSE "toEscalate"])
        BY <3>2 DEF Sweep
      <4>. DEFINE J == [r \in Resources |->
                          IF r \notin S THEN "none"
                          ELSE IF sweeps[r] < MaxAttempts THEN "toRelease" ELSE "toEscalate"]
      <4>2. TakeOn(w, e, J)
        BY <4>1
      <4>3. J \in [Resources -> {"toRelease", "toEscalate", "none"}]
            /\ \A r \in Resources : J[r] # "none" => EmployeeOf[r] = e
        BY DEF Steps
      <4>. HIDE DEF J
      <4>4. QED
        BY <4>2, <4>3
    <3>3. QED
      BY <1>2, <3>1, <3>2
  <2>2. /\ job' = [job EXCEPT ![w] = J] /\ phase' = [phase EXCEPT ![w] = "release"]
        /\ emp' = [emp EXCEPT ![w] = e]
    BY <2>1 DEF TakeOn
  <2>3. /\ phase' \in [Workers -> Phases] /\ emp' \in [Workers -> Employees \cup {Nobody}]
        /\ phase'[w] = "release" /\ emp'[w] = e /\ job'[w] = J
        /\ \A v \in Workers \ {w} : phase'[v] = phase[v] /\ emp'[v] = emp[v] /\ job'[v] = job[v]
    BY <1>0, <2>2 DEF Phases
  <2>4. \A r \in Resources : J[r] # "none" => J[r] \in ReleaseJobs \cup {"toEscalate"}
    BY DEF ReleaseJobs
  <2>5. QED
    BY <2>1, <2>3, <2>4 DEF Duties
<1>3. CASE Wave(w)
  <2>1. PICK J \in [Resources -> {"planned", "none"}] : job' = [job EXCEPT ![w] = J]
    <3>. DEFINE J == [r \in Resources |->
                        IF /\ r \in Runnable(w)
                           /\ lifecycle[emp[w]] = "active"
                           /\ row[r].state \notin {"waiting", "overdue"}
                        THEN "planned" ELSE "none"]
    <3>1. J \in [Resources -> {"planned", "none"}] /\ job' = [job EXCEPT ![w] = J]
      BY <1>3 DEF Wave
    <3>2. QED
      BY <3>1
  <2>2. phase[w] = "waves" /\ UNCHANGED <<phase, emp>>
    BY <1>3 DEF Wave
  <2>3. job'[w] = J /\ \A v \in Workers \ {w} : job'[v] = job[v]
    BY <1>0, <2>1
  <2>4. QED
    BY <1>0, <2>1, <2>2, <2>3 DEF Duties
<1>4. CASE EndWaves(w) \/ EndRelease(w)
  <2>1. /\ phase' = [phase EXCEPT ![w] = "idle"] /\ emp' = [emp EXCEPT ![w] = Nobody]
        /\ job' = job /\ \A r \in Resources : job[w][r] = "none"
    BY <1>4 DEF EndWaves, EndRelease, NoJobs, desk
  <2>2. QED
    BY <1>0, <2>1 DEF Duties, Phases
<1>5. CASE LosesRace(w) \/ Crash(w) \/ Abort(w)
  <2>1. PICK x \in {"idle", "dead"} : phase' = [phase EXCEPT ![w] = x]
    BY <1>5 DEF LosesRace, Crash, Abort, Abandon
  <2>2. emp' = [emp EXCEPT ![w] = Nobody] /\ job' = [job EXCEPT ![w] = [r \in Resources |-> "none"]]
    BY <1>5 DEF LosesRace, Crash, Abort, Abandon
  <2>3. /\ phase' \in [Workers -> Phases] /\ emp' \in [Workers -> Employees \cup {Nobody}]
        /\ \A v \in Workers \ {w} : phase'[v] = phase[v] /\ emp'[v] = emp[v] /\ job'[v] = job[v]
        /\ \A r \in Resources : job'[w][r] = "none"
    BY <1>0, <2>1, <2>2 DEF Phases
  <2>4. QED
    BY <2>3 DEF Duties
<1>6. QED
  BY <1>1, <1>2, <1>3, <1>4, <1>5

LEMMA DutiesNext == Typed /\ Duties /\ [Next]_vars => Duties'
<1>. SUFFICES ASSUME Typed, Duties, [Next]_vars PROVE Duties'
  OBVIOUS
<1>1. CASE \/ \E r \in Resources :
                \/ LeaseLapses(r) \/ WaitRunsOut(r)
                \/ \E k \in 1..asked[r] : Redeem(r, k)
           \/ \E e \in Employees : Suspend(e) \/ Reinstate(e) \/ Terminate(e) \/ Crowd(e)
           \/ Halt \/ UNCHANGED vars
  <2>1. UNCHANGED <<phase, emp, job>>
    BY <1>1 DEF LeaseLapses, WaitRunsOut, Redeem, Suspend, Reinstate, Terminate, Crowd, Halt, vars,
       worker, desk
  <2>2. QED
    BY <2>1 DEF Duties
<1>2. QED
  BY <1>1, DutiesOfOne, DutiesOfAll DEF Next

\* Who writes a copy.
CopyForms ==
  \/ UNCHANGED copy
  \/ \E w \in Workers, r \in Resources : (Claim(w, r) \/ Record(w, r)) /\ copy' = Overtaken(r)
  \/ \E w \in Workers : EndWaves(w) /\ copy' = Outdated(w)
  \/ \E w \in Workers, r \in Resources : RecordRelease(w, r) /\ copy' = Outdated(w)
  \/ \E w \in Workers : /\ LosesRace(w) \/ Crash(w) \/ Abort(w)
                        /\ copy' = [copy EXCEPT ![w] = NoCopy]
  \/ \E w \in Workers, r \in Resources : ReadBack(w, r)

LEMMA CopyCases == ASSUME [Next]_vars PROVE CopyForms
<1>1. ASSUME NEW w \in Workers, NEW r \in Resources, StepOf(w, r) \/ ReleaseOf(w, r)
      PROVE  CopyForms
  <2>1. CASE Record(w, r)
    BY <2>1 DEF Record, CopyForms
  <2>2. CASE Claim(w, r)
    BY <2>2 DEF Claim, CopyForms
  <2>3. CASE RecordRelease(w, r)
    BY <2>3 DEF RecordRelease, CopyForms
  <2>4. CASE ReadBack(w, r)
    BY <2>4 DEF CopyForms
  <2>5. CASE FindsCrash(w, r) \/ Park(w, r) \/ TurnedAway(w, r) \/ Answer(w, r)
               \/ CallRelease(w, r) \/ Escalate(w, r)
    BY <2>5 DEF FindsCrash, Park, TurnedAway, Answer, CallRelease, Escalate, CopyForms
  <2>6. QED
    BY <1>1, <2>1, <2>2, <2>3, <2>4, <2>5 DEF StepOf, ReleaseOf
<1>2. ASSUME NEW w \in Workers,
             \/ \E e \in Employees : Pick(w, e) \/ OnTerminated(w, e) \/ Sweep(w, e)
             \/ Wave(w) \/ EndRelease(w)
      PROVE  UNCHANGED copy
  BY <1>2 DEF Pick, OnTerminated, Sweep, TakeOn, Wave, EndRelease, desk
<1>3. ASSUME NEW w \in Workers, EndWaves(w) PROVE CopyForms
  BY <1>3 DEF EndWaves, CopyForms
<1>4. ASSUME NEW w \in Workers, LosesRace(w) \/ Crash(w) \/ Abort(w) PROVE CopyForms
  BY <1>4 DEF LosesRace, Crash, Abort, Abandon, CopyForms
<1>5. CASE \/ \E r \in Resources :
                \/ LeaseLapses(r) \/ WaitRunsOut(r)
                \/ \E k \in 1..asked[r] : Redeem(r, k)
           \/ \E e \in Employees : Suspend(e) \/ Reinstate(e) \/ Terminate(e) \/ Crowd(e)
           \/ Halt \/ UNCHANGED vars
  BY <1>5 DEF LeaseLapses, WaitRunsOut, Redeem, Suspend, Reinstate, Terminate, Crowd, Halt, vars,
     desk, CopyForms
<1>6. QED
  BY <1>1, <1>2, <1>3, <1>4, <1>5 DEF Next, CopyForms

\* What becomes of one copy.
CopyStep(v) ==
  \/ copy'[v] \in {copy[v], NoCopy}
  \/ copy[v].is = "fresh" /\ copy'[v] = [copy[v] EXCEPT !.is = "moved"]
  \/ copy[v].is # "none" /\ copy'[v] = [NoCopy EXCEPT !.is = "stale"]
  \/ \E r \in Resources :
       /\ ReadBack(v, r)
       /\ copy'[v] = [is |-> "fresh", state |-> row[r].state, binding |-> row[r].binding]

LEMMA EmptyCopies ==
  /\ NoCopy.is = "none" /\ NoCopy.binding = 0
  /\ [NoCopy EXCEPT !.is = "stale"].is = "stale" /\ [NoCopy EXCEPT !.is = "stale"].binding = 0
BY DEF NoCopy

LEMMA MovedCopy ==
  ASSUME NEW c \in Copy
  PROVE  /\ [c EXCEPT !.is = "moved"].is = "moved"
         /\ [c EXCEPT !.is = "moved"].binding = c.binding
BY DEF Copy

LEMMA CopyChanges ==
  ASSUME Typed, [Next]_vars
  PROVE  copy' \in [Workers -> Copy] /\ \A v \in Workers : CopyStep(v)
<1>0. /\ copy \in [Workers -> Copy] /\ NoCopy \in Copy /\ [NoCopy EXCEPT !.is = "stale"] \in Copy
      /\ \A v \in Workers : [copy[v] EXCEPT !.is = "moved"] \in Copy
  <2>1. NoCopy \in Copy /\ [NoCopy EXCEPT !.is = "stale"] \in Copy
    BY Limits DEF Copy, NoCopy, State
  <2>2. \A c \in Copy : [c EXCEPT !.is = "moved"] \in Copy
    BY DEF Copy
  <2>3. QED
    BY <2>1, <2>2 DEF Typed
<1>1. CASE UNCHANGED copy
  BY <1>0, <1>1 DEF CopyStep
<1>2. ASSUME NEW r \in Resources, copy' = Overtaken(r)
      PROVE  copy' \in [Workers -> Copy] /\ \A v \in Workers : CopyStep(v)
  BY <1>0, <1>2 DEF Overtaken, CopyStep
<1>3. ASSUME NEW w \in Workers, copy' = Outdated(w)
      PROVE  copy' \in [Workers -> Copy] /\ \A v \in Workers : CopyStep(v)
  BY <1>0, <1>3 DEF Outdated, CopyStep
<1>4. ASSUME NEW w \in Workers, copy' = [copy EXCEPT ![w] = NoCopy]
      PROVE  copy' \in [Workers -> Copy] /\ \A v \in Workers : CopyStep(v)
  BY <1>0, <1>4 DEF CopyStep
<1>5. ASSUME NEW w \in Workers, NEW r \in Resources, ReadBack(w, r)
      PROVE  copy' \in [Workers -> Copy] /\ \A v \in Workers : CopyStep(v)
  <2>. DEFINE c == [is |-> "fresh", state |-> row[r].state, binding |-> row[r].binding]
  <2>1. row[r] \in Row
    BY DEF Typed
  <2>2. c \in Copy
    BY <2>1 DEF Row, Copy
  <2>3. copy' = [copy EXCEPT ![w] = c]
    BY <1>5 DEF ReadBack
  <2>4. copy'[w] = c
    BY <1>0, <2>3
  <2>5. CopyStep(w)
    BY <1>5, <2>4 DEF CopyStep
  <2>. HIDE DEF c
  <2>6. copy' \in [Workers -> Copy] /\ \A v \in Workers \ {w} : copy'[v] = copy[v]
    BY <1>0, <2>2, <2>3
  <2>7. QED
    BY <2>5, <2>6 DEF CopyStep
<1>6. QED
  BY <1>1, <1>2, <1>3, <1>4, <1>5, CopyCases DEF CopyForms

LEMMA TypedNext == Typed /\ [Next]_vars => Typed'
BY RowChanges, DeskChanges, CopyChanges, FileChanges, PeopleChange DEF Typed, Desks, DeskTyped, Files, Intents

\* The engine's rows, jobs, intents and questions keep their types.
THEOREM TypesProved == Spec => []Typed
BY TypedInit, TypedNext, PTL DEF Spec

-----------------------------------------------------------------------------
(* Accords *)

\* An approval that was redeemed had been filed, and one of them is still to
\* spend while the intent names it.
Accords ==
  \A r \in Resources :
    /\ accord[r] \subseteq 1..asked[r]
    /\ named[r] \in 0..asked[r]
    /\ resumed[r] <= Cardinality(accord[r])
    /\ named[r] \in accord[r] => resumed[r] < Cardinality(accord[r])

LEMMA AccordsInit == Init => Accords
BY FS_EmptySet DEF Init, Accords

LEMMA AccordsNext == Typed /\ Accords /\ [Next]_vars => Accords'
<1>. SUFFICES ASSUME Typed, Accords, [Next]_vars PROVE Accords'
  OBVIOUS
<1>1. ASSUME NEW r \in Resources
      PROVE  /\ accord'[r] \subseteq 1..asked'[r]
             /\ named'[r] \in 0..asked'[r]
             /\ resumed'[r] <= Cardinality(accord'[r])
             /\ named'[r] \in accord'[r] => resumed'[r] < Cardinality(accord'[r])
  <2>0. FileStep(r)
    BY FileChanges DEF Files
  <2>1. /\ accord[r] \subseteq 1..asked[r] /\ named[r] \in 0..asked[r]
        /\ resumed[r] <= Cardinality(accord[r])
        /\ named[r] \in accord[r] => resumed[r] < Cardinality(accord[r])
        /\ asked[r] \in Nat /\ resumed[r] \in Nat /\ named[r] \in Nat
    BY DEF Accords, Typed
  <2>2. IsFiniteSet(accord[r]) /\ Cardinality(accord[r]) \in Nat
    <3>1. IsFiniteSet(1..asked[r])
      BY <2>1, FS_Interval
    <3>2. QED
      BY <2>1, <3>1, FS_Subset, FS_CardinalityType
  <2>3. CASE FilesKept(r)
    BY <2>1, <2>3 DEF FilesKept
  <2>4. CASE /\ asked'[r] = asked[r] + 1 /\ accord'[r] = accord[r] /\ resumed'[r] = resumed[r]
             /\ \/ intent'[r] = intent[r] /\ named'[r] = named[r]
                \/ intent'[r] = "orphaned" /\ named'[r] = asked[r] + 1
    <3>1. 1..asked[r] \subseteq 1..(asked[r] + 1) /\ asked[r] + 1 \notin 1..asked[r]
      BY <2>1
    <3>2. QED
      BY <2>1, <2>4, <3>1
  <2>5. CASE /\ asked'[r] = asked[r] /\ accord'[r] = accord[r] /\ intent'[r] = IntentBegun(r)
             /\ IF Reconciled(r) THEN named'[r] = 0 /\ resumed'[r] = resumed[r] + 1
                ELSE named'[r] = named[r] /\ resumed'[r] = resumed[r]
    <3>1. Reconciled(r) => named[r] \in accord[r]
      BY DEF Reconciled
    <3>2. 0 \notin accord[r]
      BY <2>1
    <3>3. QED
      BY <2>1, <2>2, <2>5, <3>1, <3>2
  <2>6. CASE /\ named'[r] = named[r] /\ asked'[r] = asked[r]
             /\ accord'[r] = accord[r] /\ resumed'[r] = resumed[r]
    BY <2>1, <2>6
  <2>7. CASE /\ named'[r] = named[r] /\ asked'[r] = asked[r] /\ resumed'[r] = resumed[r]
             /\ \E k \in (1..asked[r]) \ accord[r] : accord'[r] = accord[r] \cup {k}
    <3>1. PICK k \in (1..asked[r]) \ accord[r] : accord'[r] = accord[r] \cup {k}
      BY <2>7
    <3>2. Cardinality(accord'[r]) = Cardinality(accord[r]) + 1
      BY <2>2, <3>1, FS_AddElement
    <3>3. QED
      BY <2>1, <2>2, <2>7, <3>1, <3>2
  <2>8. QED
    BY <2>0, <2>3, <2>4, <2>5, <2>6, <2>7 DEF FileStep
<1>2. QED
  BY <1>1 DEF Accords

\* resume_orphaned_intent: a redeemed approval puts a step back in flight once,
\* because the resumption takes its number off the intent.
THEOREM AccordsAreSpentOnce == Spec => []AccordSpentOnce
<1>1. Accords => AccordSpentOnce
  BY DEF Accords, AccordSpentOnce
<1>2. QED
  BY <1>1, TypesProved, AccordsInit, AccordsNext, PTL DEF Spec

-----------------------------------------------------------------------------
(* The order of the steps *)

Employed(r) == lifecycle[EmployeeOf[r]] # "terminated"

\* Resources are given back of retired employees only.
Releases ==
  /\ \A e \in Employees : notices[e] > 0 => lifecycle[e] = "terminated"
  /\ \A w \in Workers, r \in Resources :
       job[w][r] \in ReleaseJobs \cup {"toEscalate"} => ~Employed(r)

\* A ready row has no owner, and what somebody works on, or has finished, has
\* what it depends on.
Order ==
  /\ \A r \in Resources : Ready(r) => row[r].owner = Nobody
  /\ \A r \in Resources : Ready(r) /\ Employed(r) => ~Unmet(r)
  /\ \A w \in Workers, r \in Resources :
       job[w][r] \in {"planned", "calling"} \cup AnswerKinds /\ Employed(r) => ~Unmet(r)

LEMMA OrderInit == Init => Releases /\ Order
<1>. SUFFICES ASSUME Init PROVE Releases /\ Order
  OBVIOUS
<1>1. \A r \in Resources : row[r].state = "pending"
  BY DEF Init
<1>2. \A w \in Workers, r \in Resources : job[w][r] = "none"
  BY DEF Init
<1>3. \A e \in Employees : notices[e] = 0
  BY DEF Init
<1>4. QED
  BY <1>1, <1>2, <1>3 DEF Releases, Order, Ready, ReleaseJobs, AnswerKinds, Outcomes

LEMMA Retired ==
  ASSUME Typed, [Next]_vars, NEW r \in Resources, ~Employed(r)
  PROVE  lifecycle'[EmployeeOf[r]] = "terminated"
<1>1. EmployeeOf[r] \in Employees
  BY ProvisioningAssumption
<1>2. QED
  BY <1>1, PeopleChange DEF Employed

LEMMA ReleasesNext == Typed /\ Releases /\ [Next]_vars => Releases'
<1>. SUFFICES ASSUME Typed, Releases, [Next]_vars PROVE Releases'
  OBVIOUS
<1>1. \A e \in Employees : notices'[e] > 0 => lifecycle'[e] = "terminated"
  BY PeopleChange DEF Releases
<1>2. ASSUME NEW w \in Workers, NEW r \in Resources,
             job'[w][r] \in ReleaseJobs \cup {"toEscalate"}
      PROVE  lifecycle'[EmployeeOf[r]] = "terminated"
  <2>1. DeskStep(w, r)
    BY DeskChanges DEF Desks
  <2>2. \/ job[w][r] \in ReleaseJobs \cup {"toEscalate"}
        \/ lifecycle[EmployeeOf[r]] = "terminated" \/ notices[EmployeeOf[r]] > 0
    BY <1>2, <2>1 DEF DeskStep, ReleaseJobs, AnswerKinds, Outcomes
  <2>3. EmployeeOf[r] \in Employees
    BY ProvisioningAssumption
  <2>4. ~Employed(r)
    BY <2>2, <2>3 DEF Releases, Employed
  <2>5. QED
    BY <2>4, Retired
<1>3. QED
  BY <1>1, <1>2 DEF Releases, Employed

\* Nobody undoes a ready step: a claim passes it over, an answer that comes
\* late finds no owner, and a release waits for the employee's termination.
LEMMA ReadyKept ==
  ASSUME Typed, Releases, Order, [Next]_vars, NEW r \in Resources, Ready(r), Employed(r)
  PROVE  row'[r].state = "ready" /\ row'[r].owner = Nobody /\ row'[r].binding = row[r].binding
<1>1. row[r] \in Row /\ row[r].state = "ready" /\ row[r].owner = Nobody
  BY DEF Typed, Ready, Order
<1>2. ASSUME NEW w \in Workers, Claim(w, r) PROVE FALSE
  BY <1>1, <1>2 DEF Claim, Takeable
<1>3. ASSUME NEW w \in Workers, Owns(w, r) PROVE FALSE
  BY <1>1, <1>3, ProvisioningAssumption DEF Owns
<1>4. ASSUME NEW w \in Workers, RecordRelease(w, r) PROVE FALSE
  BY <1>4 DEF RecordRelease, Releases, ReleaseJobs
<1>5. row'[r] = row[r] \/ row'[r] = [row[r] EXCEPT !.lease = "lapsed"]
  BY <1>1, <1>2, <1>3, <1>4, RowChanges
<1>6. QED
  BY <1>1, <1>5 DEF Row

LEMMA DependenciesKept ==
  ASSUME Typed, Releases, Order, [Next]_vars, NEW r \in Resources, Employed(r), ~Unmet(r)
  PROVE  ~(\E d \in DependsOn[r] : row'[d].state # "ready")
<1>1. ASSUME NEW d \in DependsOn[r] PROVE row'[d].state = "ready"
  <2>1. d \in Resources /\ EmployeeOf[d] = EmployeeOf[r]
    BY ProvisioningAssumption
  <2>2. Ready(d) /\ Employed(d)
    BY <2>1 DEF Unmet, Employed
  <2>3. QED
    BY <2>1, <2>2, ReadyKept
<1>2. QED
  BY <1>1

\* A row that becomes ready is finished by its owner.
LEMMA BecomesReady ==
  ASSUME Typed, [Next]_vars, NEW r \in Resources, ~Ready(r), row'[r].state = "ready"
  PROVE  /\ row'[r].owner = Nobody
         /\ \E w \in Workers : job[w][r] \in AnswerKinds
<1>1. row[r] \in Row
  BY DEF Typed
<1>2. PICK w \in Workers : /\ Record(w, r) /\ Owns(w, r)
                           /\ row'[r] = Finished(r, job[w][r], token[w][r])
  <2>1. ASSUME NEW w \in Workers, RecordRelease(w, r), row'[r] \in {SavedRow(w, r), KeptRow(w, r)}
        PROVE  FALSE
    BY <2>1, ReleasedRows DEF RecordRelease, Ready
  <2>2. ASSUME NEW w \in Workers, row'[r] = ClaimedRow(w, r) PROVE FALSE
    BY <2>2, ClaimedRows
  <2>3. row'[r] # row[r] /\ row'[r] # [row[r] EXCEPT !.lease = "lapsed"]
        /\ row'[r] # [row[r] EXCEPT !.state = "failed"]
        /\ row'[r] # [row[r] EXCEPT !.state = "overdue"]
    BY <1>1 DEF Ready, Row
  <2>4. QED
    BY <2>1, <2>2, <2>3, RowChanges
<1>3. job[w][r] \in AnswerKinds /\ token[w][r] \in 0..MaxBought
  BY <1>2 DEF Record, Typed
<1>4. QED
  BY <1>2, <1>3, FinishedRows

LEMMA OrderNext == Typed /\ Releases /\ Order /\ [Next]_vars => Order'
<1>. SUFFICES ASSUME Typed, Releases, Order, [Next]_vars PROVE Order'
  OBVIOUS
<1>0. ASSUME NEW r \in Resources, lifecycle'[EmployeeOf[r]] # "terminated" PROVE Employed(r)
  BY <1>0, Retired
<1>1. ASSUME NEW r \in Resources, row'[r].state = "ready" PROVE row'[r].owner = Nobody
  <2>1. CASE ~Ready(r)
    BY <1>1, <2>1, BecomesReady
  <2>2. CASE Ready(r)
    <3>1. row[r] \in Row /\ row[r].state = "ready" /\ row[r].owner = Nobody
      BY <2>2 DEF Typed, Ready, Order
    <3>2. ASSUME NEW w \in Workers, Claim(w, r) PROVE FALSE
      BY <3>1, <3>2 DEF Claim, Takeable
    <3>3. ASSUME NEW w \in Workers, Owns(w, r) PROVE FALSE
      BY <3>1, <3>3, ProvisioningAssumption DEF Owns
    <3>4. ASSUME NEW w \in Workers, RecordRelease(w, r), row'[r] \in {SavedRow(w, r), KeptRow(w, r)}
          PROVE  row'[r].owner = row[r].owner
      BY <3>4, ReleasedRows DEF RecordRelease
    <3>5. CASE row'[r] = row[r] \/ row'[r] = [row[r] EXCEPT !.lease = "lapsed"]
      BY <3>1, <3>5 DEF Row
    <3>6. QED
      BY <3>1, <3>2, <3>3, <3>4, <3>5, RowChanges
  <2>3. QED
    BY <2>1, <2>2
<1>2. ASSUME NEW r \in Resources, row'[r].state = "ready", lifecycle'[EmployeeOf[r]] # "terminated"
      PROVE  ~(\E d \in DependsOn[r] : row'[d].state # "ready")
  <2>1. Employed(r)
    BY <1>0, <1>2
  <2>2. ~Unmet(r)
    BY <1>2, <2>1, BecomesReady DEF Order
  <2>3. QED
    BY <2>1, <2>2, DependenciesKept
<1>3. ASSUME NEW w \in Workers, NEW r \in Resources,
             job'[w][r] \in {"planned", "calling"} \cup AnswerKinds,
             lifecycle'[EmployeeOf[r]] # "terminated"
      PROVE  ~(\E d \in DependsOn[r] : row'[d].state # "ready")
  <2>1. Employed(r)
    BY <1>0, <1>3
  <2>2. DeskStep(w, r)
    BY DeskChanges DEF Desks
  <2>3. \/ job[w][r] \in {"planned", "calling"} \cup AnswerKinds
        \/ r \in Runnable(w)
    BY <1>3, <2>2 DEF DeskStep, AnswerKinds, Outcomes, Claim, Answer
  <2>4. ~Unmet(r)
    BY <2>1, <2>3 DEF Order, Runnable
  <2>5. QED
    BY <2>1, <2>4, DependenciesKept
<1>4. QED
  BY <1>1, <1>2, <1>3 DEF Order, Ready, Unmet, Employed

\* Releases and Order are invariants.
LEMMA OrderProved == Spec => [](Releases /\ Order)
BY TypesProved, OrderInit, ReleasesNext, OrderNext, PTL DEF Spec

\* plan_wave, first_unmet: a wave planned on a snapshot keeps the order of the
\* steps, because what it saw ready stays ready while its employee is employed.
THEOREM DependenciesAreReady == Spec => []DependenciesReady
<1>1. Order => DependenciesReady
  BY DEF Order, DependenciesReady, Employed
<1>2. QED
  BY <1>1, OrderProved, PTL

\* finish_step's fence and claim_step's guard: no late answer, second claim or
\* release undoes a ready step of an employee.
THEOREM ReadyIsKept == Spec => ReadyStays
<1>1. ASSUME Typed, Releases, Order, [Next]_vars
      PROVE  [\A r \in Resources :
                (Ready(r) /\ lifecycle[EmployeeOf[r]] # "terminated")
                => (Ready(r)' /\ row'[r].binding = row[r].binding)]_vars
  BY <1>1, ReadyKept DEF Ready, Employed
<1>2. QED
  BY <1>1, TypesProved, OrderProved, PTL DEF Spec, ReadyStays

-----------------------------------------------------------------------------
(* The copies of the releases *)

\* A worker gives back one resource at a time and has a copy of none but that
\* one; the copy is fresh only while the row has the binding it was read with.
Copies ==
  \A w \in Workers :
    /\ \A r, q \in Resources : job[w][r] \in Outcomes /\ job[w][q] \in Outcomes => r = q
    /\ (\A r \in Resources : job[w][r] \notin Outcomes) => copy[w] = NoCopy
    /\ copy[w].is \notin {"fresh", "moved"} => copy[w].binding = 0
    /\ \A r \in Resources : job[w][r] \in Outcomes /\ copy[w].is = "fresh"
                              => copy[w].binding = row[r].binding

LEMMA CopiesInit == Init => Copies
BY DEF Init, Copies, NoCopy, Outcomes

\* Who saves over a stale copy is in a release.
LEMMA LoserReleases ==
  ASSUME Duties, Copies, NEW w \in Workers, LosesRace(w)
  PROVE  phase[w] = "release"
<1>1. copy[w] # NoCopy
  BY DEF LosesRace, NoCopy
<1>2. \E r \in Resources : job[w][r] \in Outcomes
  BY <1>1 DEF Copies
<1>3. QED
  BY <1>2 DEF Duties, AnswerKinds, Outcomes

\* A release in hand stays in hand, or takes its copy with it.
LEMMA OutcomeStays ==
  ASSUME Typed, Duties, [Next]_vars, NEW v \in Workers, NEW q \in Resources,
         job[v][q] \in Outcomes
  PROVE  job'[v][q] = job[v][q] \/ copy'[v] = NoCopy
<1>0. /\ job \in [Workers -> [Resources -> JobState]] /\ copy \in [Workers -> Copy]
      /\ phase[v] = "release" /\ job[v][q] # "none"
  BY DEF Typed, Duties, AnswerKinds, Outcomes
<1>1. CASE NoJob \/ UNCHANGED vars
  BY <1>1, NoJobKept DEF vars, desk
<1>2. ASSUME NEW w \in Workers, NEW r \in Resources,
             FindsCrash(w, r) \/ Park(w, r) \/ TurnedAway(w, r) \/ Claim(w, r) \/ Record(w, r)
               \/ Escalate(w, r) \/ Answer(w, r) \/ CallRelease(w, r)
      PROVE  job'[v][q] = job[v][q]
  <2>1. job[w][r] \notin Outcomes
    BY <1>2 DEF FindsCrash, Park, TurnedAway, Claim, Record, Escalate, Answer, CallRelease,
       MayRelease, AnswerKinds, Outcomes
  <2>2. PICK s : SetJob(w, r, s)
    BY <1>2 DEF FindsCrash, Park, TurnedAway, Claim, Record, Escalate, Answer, CallRelease
  <2>3. QED
    BY <1>0, <2>1, <2>2 DEF SetJob
<1>3. ASSUME NEW w \in Workers, NEW r \in Resources, RecordRelease(w, r)
      PROVE  job'[v][q] = job[v][q] \/ copy'[v] = NoCopy
  <2>1. SetJob(w, r, "none") /\ copy' = Outdated(w)
    BY <1>3 DEF RecordRelease
  <2>2. QED
    BY <1>0, <2>1 DEF SetJob, Outdated
<1>4. ASSUME NEW w \in Workers, Wave(w) PROVE job'[v][q] = job[v][q]
  <2>1. PICK J : job' = [job EXCEPT ![w] = J]
    BY <1>4 DEF Wave
  <2>2. phase[w] = "waves"
    BY <1>4 DEF Wave
  <2>3. QED
    BY <1>0, <2>1, <2>2
<1>5. ASSUME NEW w \in Workers, LosesRace(w) \/ Crash(w) \/ Abort(w)
      PROVE  job'[v][q] = job[v][q] \/ copy'[v] = NoCopy
  <2>1. /\ job' = [job EXCEPT ![w] = [r \in Resources |-> "none"]]
        /\ copy' = [copy EXCEPT ![w] = NoCopy]
    BY <1>5 DEF LosesRace, Crash, Abort, Abandon
  <2>2. QED
    BY <1>0, <2>1
<1>6. ASSUME NEW w \in Workers, NEW e \in Employees, OnTerminated(w, e) \/ Sweep(w, e)
      PROVE  job'[v][q] = job[v][q]
  <2>1. PICK J : job' = [job EXCEPT ![w] = J]
    BY <1>6 DEF OnTerminated, Sweep, TakeOn
  <2>2. phase[w] = "idle"
    BY <1>6 DEF OnTerminated, Sweep, TakeOn, Idle
  <2>3. QED
    BY <1>0, <2>1, <2>2
<1>7. QED
  BY <1>1, <1>2, <1>3, <1>4, <1>5, <1>6, JobCases

\* A release that takes an outcome in hand had no other.
LEMMA OneOutcome ==
  ASSUME Typed, Duties, Copies, [Next]_vars, NEW w \in Workers,
         NEW r \in Resources, NEW q \in Resources,
         job'[w][r] \in Outcomes, job'[w][q] \in Outcomes
  PROVE  r = q
<1>0. job \in [Workers -> [Resources -> JobState]]
  BY DEF Typed
<1>1. ASSUME NEW a \in Resources, job'[w][a] \in Outcomes, job[w][a] \notin Outcomes
      PROVE  CallRelease(w, a)
  <2>1. DeskStep(w, a)
    BY DeskChanges DEF Desks
  <2>2. QED
    BY <1>1, <2>1 DEF DeskStep, Outcomes, AnswerKinds
<1>2. ASSUME NEW a \in Resources, NEW b \in Resources, CallRelease(w, a), a # b
      PROVE  job'[w][b] = job[w][b] /\ job[w][b] \notin Outcomes
  <2>1. PICK s : SetJob(w, a, s)
    BY <1>2 DEF CallRelease
  <2>2. QED
    BY <1>0, <1>2, <2>1 DEF SetJob, CallRelease, MayRelease
<1>3. QED
  BY <1>1, <1>2 DEF Copies

\* Where a row's owner or binding comes from.
LEMMA RowKeeps ==
  ASSUME Typed, [Next]_vars, NEW r \in Resources
  PROVE  \/ row'[r].owner = row[r].owner /\ row'[r].binding = row[r].binding
         \/ \E w \in Workers : /\ Claim(w, r) /\ row'[r].owner = w
                               /\ row'[r].binding = row[r].binding
         \/ \E w \in Workers : /\ Record(w, r) /\ Owns(w, r) /\ row'[r].owner = Nobody
                               /\ row'[r].binding = IF token[w][r] # 0 THEN token[w][r]
                                                    ELSE row[r].binding
         \/ \E w \in Workers : /\ RecordRelease(w, r) /\ copy[w].is \in {"fresh", "moved"}
                               /\ row'[r].owner = row[r].owner
                               /\ \/ row'[r].binding = copy[w].binding
                                  \/ /\ job[w][r] = "released" /\ row'[r].binding = 0
                                     /\ copy[w].binding = token[w][r]
<1>1. row[r] \in Row
  BY DEF Typed
<1>2. ASSUME NEW w \in Workers, Claim(w, r), row'[r] = ClaimedRow(w, r)
      PROVE  row'[r].owner = w /\ row'[r].binding = row[r].binding
  BY <1>2, ClaimedRows
<1>3. ASSUME NEW w \in Workers, Record(w, r), row'[r] = Finished(r, job[w][r], token[w][r])
      PROVE  /\ row'[r].owner = Nobody
             /\ row'[r].binding = IF token[w][r] # 0 THEN token[w][r] ELSE row[r].binding
  <2>1. job[w][r] \in AnswerKinds /\ token[w][r] \in 0..MaxBought
    BY <1>3 DEF Record, Typed
  <2>2. QED
    BY <1>3, <2>1, FinishedRows
<1>4. ASSUME NEW w \in Workers, RecordRelease(w, r), row'[r] \in {SavedRow(w, r), KeptRow(w, r)}
      PROVE  /\ row'[r].owner = row[r].owner
             /\ \/ row'[r].binding = row[r].binding
                \/ row'[r].binding = copy[w].binding
                \/ /\ job[w][r] = "released" /\ row'[r].binding = 0
                   /\ copy[w].binding = token[w][r]
  <2>1. job[w][r] \in Outcomes
    BY <1>4 DEF RecordRelease
  <2>2. QED
    BY <1>4, <2>1, ReleasedRows
<1>5. ASSUME \/ row'[r] = row[r] \/ row'[r] = [row[r] EXCEPT !.state = "failed"]
             \/ row'[r] = [row[r] EXCEPT !.lease = "lapsed"]
             \/ row'[r] = [row[r] EXCEPT !.state = "overdue"]
      PROVE  row'[r].owner = row[r].owner /\ row'[r].binding = row[r].binding
  BY <1>1, <1>5 DEF Row
<1>6. QED
  BY <1>2, <1>3, <1>4, <1>5, RowChanges

\* Whoever writes a binding overtakes, or outdates, the copies of it.
LEMMA FreshStays ==
  ASSUME Typed, Duties, [Next]_vars, NEW v \in Workers, NEW r \in Resources,
         job[v][r] \in Outcomes, copy[v].is = "fresh", copy'[v] = copy[v]
  PROVE  row'[r].binding = row[r].binding
<1>0. copy \in [Workers -> Copy] /\ copy[v] \in Copy
  BY DEF Typed
<1>1. ASSUME NEW w \in Workers, copy' = Overtaken(r) PROVE FALSE
  <2>1. copy'[v] = [copy[v] EXCEPT !.is = "moved"]
    BY <1>1 DEF Overtaken
  <2>2. copy'[v].is = "moved"
    BY <1>0, <2>1 DEF Copy
  <2>3. QED
    BY <2>2
<1>2. ASSUME NEW w \in Workers, RecordRelease(w, r) PROVE FALSE
  <2>1. copy' = Outdated(w) /\ job[w][r] \in Outcomes
    BY <1>2 DEF RecordRelease
  <2>2. emp[v] = emp[w]
    BY <2>1 DEF Duties, AnswerKinds, Outcomes
  <2>3. copy'[v] = NoCopy \/ copy'[v] = [NoCopy EXCEPT !.is = "stale"]
    BY <2>1, <2>2 DEF Outdated
  <2>4. QED
    BY <2>3 DEF NoCopy
<1>3. ASSUME NEW w \in Workers, Claim(w, r) \/ (Record(w, r) /\ Owns(w, r)) PROVE FALSE
  BY <1>1, <1>3 DEF Claim, Record
<1>4. QED
  BY <1>2, <1>3, RowKeeps

LEMMA CopiesNext == Typed /\ Duties /\ Copies /\ [Next]_vars => Copies'
<1>. SUFFICES ASSUME Typed, Duties, Copies, [Next]_vars, NEW w \in Workers
              PROVE  /\ \A r, q \in Resources :
                          job'[w][r] \in Outcomes /\ job'[w][q] \in Outcomes => r = q
                     /\ (\A r \in Resources : job'[w][r] \notin Outcomes) => copy'[w] = NoCopy
                     /\ copy'[w].is \notin {"fresh", "moved"} => copy'[w].binding = 0
                     /\ \A r \in Resources : job'[w][r] \in Outcomes /\ copy'[w].is = "fresh"
                                               => copy'[w].binding = row'[r].binding
  BY DEF Copies
<1>0. CopyStep(w) /\ copy[w] \in Copy /\ copy'[w] \in Copy
  BY CopyChanges DEF Typed
<1>1. \A r, q \in Resources : job'[w][r] \in Outcomes /\ job'[w][q] \in Outcomes => r = q
  BY OneOutcome
<1>2. ASSUME \A r \in Resources : job'[w][r] \notin Outcomes PROVE copy'[w] = NoCopy
  <2>1. CASE \E r \in Resources : job[w][r] \in Outcomes
    BY <1>2, <2>1, OutcomeStays
  <2>2. CASE \A r \in Resources : job[w][r] \notin Outcomes
    <3>1. copy[w] = NoCopy
      BY <2>2 DEF Copies
    <3>2. \A r \in Resources : ~ReadBack(w, r)
      BY <2>2 DEF ReadBack
    <3>3. QED
      BY <1>0, <3>1, <3>2, EmptyCopies DEF CopyStep
  <2>3. QED
    BY <2>1, <2>2
<1>3. copy'[w].is \notin {"fresh", "moved"} => copy'[w].binding = 0
  <2>1. copy[w].is \notin {"fresh", "moved"} => copy[w].binding = 0
    BY DEF Copies
  <2>2. CASE copy'[w] \in {copy[w], NoCopy}
    BY <2>1, <2>2, EmptyCopies
  <2>3. CASE copy[w].is = "fresh" /\ copy'[w] = [copy[w] EXCEPT !.is = "moved"]
    <3>1. copy'[w].is = "moved"
      BY <1>0, <2>3, MovedCopy
    <3>2. QED
      BY <3>1
  <2>4. CASE copy'[w] = [NoCopy EXCEPT !.is = "stale"]
    BY <2>4, EmptyCopies
  <2>5. ASSUME NEW r \in Resources,
               copy'[w] = [is |-> "fresh", state |-> row[r].state, binding |-> row[r].binding]
        PROVE  copy'[w].is = "fresh"
    BY <2>5
  <2>6. QED
    BY <1>0, <2>2, <2>3, <2>4, <2>5 DEF CopyStep
<1>4. ASSUME NEW r \in Resources, job'[w][r] \in Outcomes, copy'[w].is = "fresh"
      PROVE  copy'[w].binding = row'[r].binding
  <2>1. CASE \E q \in Resources :
               /\ ReadBack(w, q)
               /\ copy'[w] = [is |-> "fresh", state |-> row[q].state, binding |-> row[q].binding]
    <3>1. PICK q \in Resources :
            /\ ReadBack(w, q)
            /\ copy'[w] = [is |-> "fresh", state |-> row[q].state, binding |-> row[q].binding]
      BY <2>1
    <3>2. job[w][q] \in Outcomes /\ job' = job /\ row' = row
      BY <3>1 DEF ReadBack, store
    <3>3. q = r
      BY <1>1, <1>4, <3>2
    <3>4. QED
      BY <3>1, <3>2, <3>3
  <2>2. CASE copy'[w] = copy[w]
    <3>1. copy[w] # NoCopy
      BY <1>4, <2>2 DEF NoCopy
    <3>2. PICK q \in Resources : job[w][q] \in Outcomes
      BY <3>1 DEF Copies
    <3>3. job'[w][q] = job[w][q]
      BY <2>2, <3>1, <3>2, OutcomeStays
    <3>4. q = r
      BY <1>1, <1>4, <3>2, <3>3
    <3>5. row'[r].binding = row[r].binding
      BY <1>4, <2>2, <3>2, <3>4, FreshStays
    <3>6. copy[w].binding = row[r].binding
      BY <1>4, <2>2, <3>2, <3>4 DEF Copies
    <3>7. QED
      BY <2>2, <3>5, <3>6
  <2>3. CASE \/ copy'[w] = NoCopy \/ copy'[w] = [copy[w] EXCEPT !.is = "moved"]
             \/ copy'[w] = [NoCopy EXCEPT !.is = "stale"]
    BY <1>0, <1>4, <2>3, EmptyCopies, MovedCopy
  <2>4. QED
    BY <1>0, <2>1, <2>2, <2>3 DEF CopyStep
<1>5. QED
  BY <1>1, <1>2, <1>3, <1>4

\* Duties and Copies are invariants.
LEMMA CopiesProved == Spec => [](Duties /\ Copies)
BY TypesProved, DutiesInit, DutiesNext, CopiesInit, CopiesNext, PTL DEF Spec

-----------------------------------------------------------------------------
(* Bindings *)

\* A binding speaks of a purchase that was made, in the row or in a copy; what
\* a worker's fresh answer replaces there is not running, nor is what the
\* provider said it let go.
Bindings ==
  /\ \A r \in Resources : row[r].binding <= bought[r] /\ held[r] <= bought[r]
  /\ \A w \in Workers, r \in Resources :
       /\ job[w][r] \in AnswerKinds \cup {"toRelease", "released"} => token[w][r] <= bought[r]
       /\ job[w][r] \in AnswerKinds \ {"ready"} => token[w][r] = 0
       /\ job[w][r] = "ready" /\ Owns(w, r) =>
            row[r].binding \in {0, token[w][r]} \/ held[r] # row[r].binding
       /\ job[w][r] = "released" => token[w][r] = 0 \/ held[r] # token[w][r]
       /\ job[w][r] \in Outcomes => copy[w].binding <= bought[r]
  /\ \A v, w \in Workers, r \in Resources :
       job[v][r] \in Outcomes /\ job[w][r] = "ready" /\ Owns(w, r)
         => copy[v].binding \in {0, token[w][r]} \/ held[r] # copy[v].binding

LEMMA BindingsInit == Init => Bindings
<1>. SUFFICES ASSUME Init PROVE Bindings
  OBVIOUS
<1>1. \A r \in Resources : row[r].binding = 0 /\ bought[r] = 0 /\ held[r] = 0
  BY DEF Init
<1>2. \A w \in Workers, r \in Resources : token[w][r] = 0 /\ job[w][r] = "none"
  BY DEF Init
<1>3. QED
  BY <1>1, <1>2 DEF Bindings, Outcomes

LEMMA BindingNumbers ==
  ASSUME Typed, NEW r \in Resources
  PROVE  /\ row[r].binding \in Nat /\ bought[r] \in Nat /\ held[r] \in Nat
         /\ \A w \in Workers : token[w][r] \in Nat /\ copy[w].binding \in Nat
<1>1. row[r] \in Row /\ \A w \in Workers : copy[w] \in Copy
  BY DEF Typed
<1>2. row[r].binding \in 0..MaxBought /\ bought[r] \in 0..MaxBought /\ held[r] \in 0..MaxBought
      /\ \A w \in Workers : token[w][r] \in 0..MaxBought /\ copy[w].binding \in 0..MaxBought
  BY <1>1 DEF Row, Copy, Typed
<1>3. QED
  BY <1>2

\* The tokens of the answers and of the releases.
LEMMA TokensNext ==
  ASSUME Typed, Bindings, [Next]_vars, NEW w \in Workers, NEW r \in Resources
  PROVE  /\ job'[w][r] \in AnswerKinds \cup {"toRelease", "released"} => token'[w][r] <= bought'[r]
         /\ job'[w][r] \in AnswerKinds \ {"ready"} => token'[w][r] = 0
         /\ job'[w][r] = "released" => token'[w][r] = 0 \/ held'[r] # token'[w][r]
<1>0. /\ row[r].binding \in Nat /\ bought[r] \in Nat /\ held[r] \in Nat /\ token[w][r] \in Nat
  BY BindingNumbers
<1>1. DeskStep(w, r) /\ HeldStep(r) /\ held' \in [Resources -> 0..MaxBought]
  BY DeskChanges DEF Desks, DeskTyped
<1>2. bought[r] <= bought'[r] /\ held'[r] \in Nat /\ bought'[r] \in Nat
  BY <1>0, <1>1 DEF HeldStep
<1>3. /\ row[r].binding <= bought[r]
      /\ job[w][r] \in AnswerKinds \cup {"toRelease", "released"} => token[w][r] <= bought[r]
      /\ job[w][r] \in AnswerKinds \ {"ready"} => token[w][r] = 0
      /\ job[w][r] = "released" => token[w][r] = 0 \/ held[r] # token[w][r]
  BY DEF Bindings
<1>4. CASE job'[w][r] = job[w][r] /\ token'[w][r] = token[w][r]
  <2>1. held'[r] \in {held[r], 0} \/ held'[r] = bought[r] + 1
    BY <1>1 DEF HeldStep
  <2>2. job[w][r] = "released" => token[w][r] = 0 \/ held'[r] # token[w][r]
    BY <1>0, <1>3, <2>1
  <2>3. QED
    BY <1>0, <1>2, <1>3, <1>4, <2>2
<1>5. CASE /\ job'[w][r] \in AnswerKinds /\ Answer(w, r)
           /\ token'[w][r] = IF job'[w][r] = "ready" THEN held'[r] ELSE 0
  <2>1. held'[r] <= bought'[r]
    <3>1. /\ bought' \in [Resources -> 0..MaxBought]
          /\ \/ held'[r] = held[r] /\ bought'[r] = bought[r]
             \/ bought'[r] = bought[r] + 1 /\ held'[r] = bought[r] + 1
      BY <1>5, Answered
    <3>2. QED
      BY <1>0, <3>1 DEF Bindings
  <2>2. QED
    BY <1>2, <1>5, <2>1 DEF AnswerKinds
<1>6. CASE job'[w][r] \in {"none", "suspect", "planned", "calling"}
  BY <1>6 DEF AnswerKinds
<1>7. CASE /\ job'[w][r] \in {"toRelease", "toEscalate"}
           /\ job'[w][r] = "toRelease" => token'[w][r] = row[r].binding
  BY <1>0, <1>2, <1>3, <1>7 DEF AnswerKinds
<1>8. CASE /\ job'[w][r] \in Outcomes /\ job[w][r] = "toRelease"
           /\ token'[w][r] = token[w][r]
           /\ job'[w][r] = "released" => held'[r] # token'[w][r] \/ token'[w][r] = 0
  BY <1>0, <1>2, <1>3, <1>8 DEF AnswerKinds, Outcomes
<1>9. QED
  BY <1>1, <1>4, <1>5, <1>6, <1>7, <1>8 DEF DeskStep

\* A purchase that does not run, of those made so far, never runs again.
LEMMA GoneForGood ==
  ASSUME Typed, [Next]_vars, NEW r \in Resources, NEW b \in Nat, b # 0, b <= bought[r], held[r] # b
  PROVE  held'[r] # b
<1>1. HeldStep(r) /\ bought[r] \in Nat
  BY DeskChanges, BindingNumbers DEF Desks
<1>2. held'[r] \in {held[r], 0} \/ held'[r] = bought[r] + 1
  BY <1>1 DEF HeldStep
<1>3. QED
  BY <1>1, <1>2

\* What a copy says of the resource its release has in hand.
LEMMA CopySays ==
  ASSUME Typed, Duties, Copies, [Next]_vars, NEW v \in Workers, NEW r \in Resources,
         job'[v][r] \in Outcomes
  PROVE  \/ copy'[v].binding = 0
         \/ copy'[v].binding = row[r].binding
         \/ job[v][r] \in Outcomes /\ copy'[v].binding = copy[v].binding
<1>0. CopyStep(v) /\ copy[v] \in Copy
  BY CopyChanges DEF Typed
<1>1. CASE copy'[v] = copy[v] \/ copy'[v] = [copy[v] EXCEPT !.is = "moved"]
  <2>1. copy'[v].binding = copy[v].binding
    BY <1>0, <1>1 DEF Copy
  <2>2. CASE job[v][r] \notin Outcomes
    <3>1. DeskStep(v, r)
      BY DeskChanges DEF Desks
    <3>2. CallRelease(v, r)
      BY <2>2, <3>1 DEF DeskStep, Outcomes, AnswerKinds
    <3>3. copy[v] = NoCopy
      BY <3>2 DEF CallRelease, MayRelease, Copies
    <3>4. QED
      BY <2>1, <3>3 DEF NoCopy
  <2>3. QED
    BY <2>1, <2>2
<1>2. CASE copy'[v] = NoCopy \/ copy'[v] = [NoCopy EXCEPT !.is = "stale"]
  BY <1>2 DEF NoCopy
<1>3. ASSUME NEW q \in Resources, ReadBack(v, q),
             copy'[v] = [is |-> "fresh", state |-> row[q].state, binding |-> row[q].binding]
      PROVE  copy'[v].binding = row[r].binding
  <2>1. job'[v][q] \in Outcomes
    BY <1>3 DEF ReadBack
  <2>2. q = r
    BY <2>1, OneOutcome
  <2>3. QED
    BY <1>3, <2>2
<1>4. QED
  BY <1>0, <1>1, <1>2, <1>3 DEF CopyStep

LEMMA BindingsNext == Typed /\ Duties /\ Copies /\ Bindings /\ [Next]_vars => Bindings'
<1>. SUFFICES ASSUME Typed, Duties, Copies, Bindings, [Next]_vars PROVE Bindings'
  OBVIOUS
<1>1. ASSUME NEW r \in Resources
      PROVE  /\ row'[r].binding <= bought'[r] /\ held'[r] <= bought'[r]
             /\ bought[r] <= bought'[r] /\ bought'[r] \in Nat
  <2>0. /\ row[r].binding \in Nat /\ bought[r] \in Nat /\ row[r].binding <= bought[r]
        /\ held[r] \in Nat /\ held[r] <= bought[r]
        /\ \A w \in Workers : token[w][r] \in Nat /\ copy[w].binding \in Nat
    BY BindingNumbers DEF Bindings
  <2>1. bought'[r] = bought[r] \/ bought'[r] = bought[r] + 1
    BY DeskChanges DEF Desks, HeldStep
  <2>2. \A w \in Workers : Record(w, r) => token[w][r] <= bought[r]
    BY DEF Record, Bindings
  <2>3. \A w \in Workers : RecordRelease(w, r) => copy[w].binding <= bought[r]
    BY DEF RecordRelease, Bindings
  <2>4. \/ row'[r].binding \in {0, row[r].binding}
        \/ \E w \in Workers : Record(w, r) /\ row'[r].binding = token[w][r]
        \/ \E w \in Workers : RecordRelease(w, r) /\ row'[r].binding = copy[w].binding
    BY RowKeeps
  <2>5. row'[r].binding \in Nat /\ row'[r].binding <= bought[r]
    BY <2>0, <2>2, <2>3, <2>4
  <2>6. held'[r] <= bought'[r]
    BY <2>0, DeskChanges DEF Desks, HeldStep
  <2>7. QED
    BY <2>0, <2>1, <2>5, <2>6
<1>2. ASSUME NEW w \in Workers, NEW r \in Resources, job'[w][r] = "ready", row'[r].owner = w
      PROVE  \/ token'[w][r] = held'[r]
             \/ /\ job[w][r] = "ready" /\ token'[w][r] = token[w][r] /\ row[r].owner = w
                /\ \/ row'[r].binding \in {0, row[r].binding}
                   \/ \E v \in Workers : RecordRelease(v, r) /\ row'[r].binding = copy[v].binding
  <2>1. DeskStep(w, r) /\ w # Nobody
    BY DeskChanges, ProvisioningAssumption DEF Desks
  <2>2. \/ job[w][r] = "ready" /\ token'[w][r] = token[w][r]
        \/ token'[w][r] = held'[r]
    BY <1>2, <2>1 DEF DeskStep, Outcomes
  <2>3. ~Claim(w, r) \/ token'[w][r] = held'[r]
    BY <2>2 DEF Claim
  <2>4. QED
    BY <1>2, <2>1, <2>2, <2>3, RowKeeps
<1>3. ASSUME NEW w \in Workers, NEW r \in Resources, job'[w][r] = "ready", row'[r].owner = w
      PROVE  row'[r].binding \in {0, token'[w][r]} \/ held'[r] # row'[r].binding
  <2>0. /\ row[r].binding \in Nat /\ row[r].binding <= bought[r]
        /\ \A v \in Workers : copy[v].binding \in Nat
    BY BindingNumbers DEF Bindings
  <2>1. CASE token'[w][r] = held'[r]
    BY <2>1
  <2>2. CASE /\ job[w][r] = "ready" /\ token'[w][r] = token[w][r] /\ row[r].owner = w
             /\ row'[r].binding \in {0, row[r].binding}
    <3>1. row[r].binding \in {0, token[w][r]} \/ held[r] # row[r].binding
      BY <2>2 DEF Bindings, Owns
    <3>2. row[r].binding \in {0, token[w][r]} \/ held'[r] # row[r].binding
      BY <2>0, <3>1, GoneForGood
    <3>3. QED
      BY <2>2, <3>2
  <2>3. CASE /\ job[w][r] = "ready" /\ token'[w][r] = token[w][r] /\ row[r].owner = w
             /\ \E v \in Workers : RecordRelease(v, r) /\ row'[r].binding = copy[v].binding
    <3>1. PICK v \in Workers : RecordRelease(v, r) /\ row'[r].binding = copy[v].binding
      BY <2>3
    <3>2. job[v][r] \in Outcomes
      BY <3>1 DEF RecordRelease
    <3>3. copy[v].binding \in {0, token[w][r]} \/ held[r] # copy[v].binding
      BY <2>3, <3>2 DEF Bindings, Owns
    <3>4. copy[v].binding \in Nat /\ copy[v].binding <= bought[r]
      BY <2>0, <3>2 DEF Bindings
    <3>5. copy[v].binding \in {0, token[w][r]} \/ held'[r] # copy[v].binding
      BY <3>3, <3>4, GoneForGood
    <3>6. QED
      BY <2>3, <3>1, <3>5
  <2>4. QED
    BY <1>2, <1>3, <2>1, <2>2, <2>3
<1>4. ASSUME NEW v \in Workers, NEW w \in Workers, NEW r \in Resources, job'[v][r] \in Outcomes,
             job'[w][r] = "ready", row'[r].owner = w
      PROVE  copy'[v].binding \in {0, token'[w][r]} \/ held'[r] # copy'[v].binding
  <2>0. /\ row[r].binding \in Nat /\ row[r].binding <= bought[r] /\ copy[v].binding \in Nat
        /\ job[v][r] \in Outcomes => copy[v].binding <= bought[r]
    BY BindingNumbers DEF Bindings
  <2>1. CASE token'[w][r] = held'[r]
    BY <2>1
  <2>2. CASE job[w][r] = "ready" /\ token'[w][r] = token[w][r] /\ row[r].owner = w
    <3>1. /\ row[r].binding \in {0, token[w][r]} \/ held[r] # row[r].binding
          /\ job[v][r] \in Outcomes =>
               copy[v].binding \in {0, token[w][r]} \/ held[r] # copy[v].binding
      BY <2>2 DEF Bindings, Owns
    <3>2. row[r].binding \in {0, token[w][r]} \/ held'[r] # row[r].binding
      BY <2>0, <3>1, GoneForGood
    <3>3. job[v][r] \in Outcomes =>
            copy[v].binding \in {0, token[w][r]} \/ held'[r] # copy[v].binding
      BY <2>0, <3>1, GoneForGood
    <3>4. QED
      BY <1>4, <2>2, <3>2, <3>3, CopySays
  <2>3. QED
    BY <1>2, <1>4, <2>1, <2>2
<1>5. ASSUME NEW v \in Workers, NEW r \in Resources, job'[v][r] \in Outcomes
      PROVE  copy'[v].binding <= bought'[r]
  <2>1. /\ row[r].binding \in Nat /\ row[r].binding <= bought[r] /\ copy[v].binding \in Nat
        /\ bought[r] \in Nat /\ 0 <= bought[r]
        /\ job[v][r] \in Outcomes => copy[v].binding <= bought[r]
    BY BindingNumbers DEF Bindings
  <2>2. bought[r] <= bought'[r] /\ bought'[r] \in Nat
    BY <1>1
  <2>3. QED
    BY <1>5, <2>1, <2>2, CopySays
<1>6. QED
  BY <1>1, <1>3, <1>4, <1>5, TokensNext DEF Bindings, Owns

\* Bindings is an invariant.
LEMMA BindingsProved == Spec => []Bindings
BY TypesProved, CopiesProved, BindingsInit, BindingsNext, PTL DEF Spec

\* "Ask the provider first, clear the binding second" (store/provisioning.rs,
\* record_release; coalesce in finish_step): a row gives up a binding only when
\* the provider no longer runs that purchase, or to the save of a release that
\* loaded the row, unlocked, before that binding was recorded
\* (app/provisioning.rs, release_step).
THEOREM NothingIsForgotten == Spec => NothingForgotten
<1>1. ASSUME Typed, Copies, Bindings, [Next]_vars
      PROVE  [\A r \in Resources :
                (row[r].binding # 0 /\ row'[r].binding # row[r].binding)
                => held[r] # row[r].binding \/ SavedBehind(r)]_vars
  <2>1. ASSUME NEW r \in Resources, row[r].binding # 0, row'[r].binding # row[r].binding
        PROVE  held[r] # row[r].binding \/ SavedBehind(r)
    <3>1. CASE \E w \in Workers : /\ Record(w, r) /\ Owns(w, r)
                                  /\ row'[r].binding = IF token[w][r] # 0 THEN token[w][r]
                                                       ELSE row[r].binding
      <4>1. PICK w \in Workers : /\ Record(w, r) /\ Owns(w, r) /\ token[w][r] # 0
                                 /\ row'[r].binding = token[w][r]
        BY <2>1, <3>1
      <4>2. job[w][r] = "ready"
        BY <1>1, <4>1 DEF Record, Bindings
      <4>3. row[r].binding \in {0, token[w][r]} \/ held[r] # row[r].binding
        BY <1>1, <4>1, <4>2 DEF Bindings
      <4>4. QED
        BY <2>1, <4>1, <4>3
    <3>2. CASE \E w \in Workers :
                 /\ RecordRelease(w, r) /\ copy[w].is \in {"fresh", "moved"}
                 /\ \/ row'[r].binding = copy[w].binding
                    \/ /\ job[w][r] = "released" /\ row'[r].binding = 0
                       /\ copy[w].binding = token[w][r]
      <4>1. PICK w \in Workers :
              /\ RecordRelease(w, r) /\ copy[w].is \in {"fresh", "moved"}
              /\ \/ row'[r].binding = copy[w].binding
                 \/ /\ job[w][r] = "released" /\ row'[r].binding = 0
                    /\ copy[w].binding = token[w][r]
        BY <3>2
      <4>2. job[w][r] \in Outcomes /\ job'[w][r] = "none"
        BY <1>1, <4>1 DEF RecordRelease, SetJob, Typed
      <4>3. CASE copy[w].binding = row[r].binding
        <5>1. job[w][r] = "released" /\ row[r].binding = token[w][r]
          BY <2>1, <4>1, <4>3
        <5>2. QED
          BY <1>1, <2>1, <5>1 DEF Bindings
      <4>4. CASE copy[w].binding # row[r].binding
        <5>1. copy[w].is = "moved"
          BY <1>1, <4>1, <4>2, <4>4 DEF Copies
        <5>2. QED
          BY <4>2, <4>4, <5>1 DEF SavedBehind
      <4>5. QED
        BY <4>3, <4>4
    <3>3. QED
      BY <1>1, <2>1, <3>1, <3>2, RowKeeps
  <2>2. QED
    BY <2>1
<1>2. QED
  BY <1>1, TypesProved, CopiesProved, BindingsProved, PTL DEF Spec, NothingForgotten

-----------------------------------------------------------------------------
(* The write-ahead log *)

\* Whoever called has left an intent, and until an answer is recorded it is in
\* flight or orphaned.
Evidence ==
  /\ lost \subseteq Resources
  /\ \A r \in Resources :
       /\ r \notin settled => intent[r] \notin {"succeeded", "failed"}
       /\ r \in lost => intent[r] # "absent"
       /\ \A w \in Workers : job[w][r] \in {"calling"} \cup AnswerKinds => intent[r] # "absent"

LEMMA EvidenceInit == Init => Evidence
<1>. SUFFICES ASSUME Init PROVE Evidence
  OBVIOUS
<1>1. lost = {} /\ \A r \in Resources : intent[r] = "absent"
  BY DEF Init
<1>2. \A w \in Workers, r \in Resources : job[w][r] = "none"
  BY DEF Init
<1>3. QED
  BY <1>1, <1>2 DEF Evidence, AnswerKinds

\* A call is lost only with the pass that made it, and settled for good.
LEMMA LostChanges ==
  ASSUME [Next]_vars
  PROVE  /\ settled \subseteq settled'
         /\ \A r \in lost' : \/ r \in lost
                            \/ \E w \in Workers : /\ Crash(w) \/ Abort(w) \/ LosesRace(w)
                                                  /\ r \in Orphans(w)
<1>1. ASSUME NEW w \in Workers, Crash(w) \/ Abort(w) \/ LosesRace(w)
      PROVE  settled' = settled /\ lost' = lost \cup Orphans(w)
  BY <1>1 DEF Crash, Abort, LosesRace, Abandon
<1>2. ASSUME NEW w \in Workers, NEW r \in Resources, Claim(w, r) \/ Record(w, r)
      PROVE  settled \subseteq settled' /\ lost' \subseteq lost
  BY <1>2 DEF Claim, Record
<1>3. ASSUME \/ \E w \in Workers :
                  \/ \E e \in Employees : Pick(w, e) \/ OnTerminated(w, e) \/ Sweep(w, e)
                  \/ Wave(w) \/ EndWaves(w) \/ EndRelease(w)
             \/ \E w \in Workers, r \in Resources :
                  FindsCrash(w, r) \/ Park(w, r) \/ TurnedAway(w, r) \/ Answer(w, r)
             \/ \E w \in Workers, r \in Resources : ReleaseOf(w, r)
      PROVE  UNCHANGED <<lost, settled>>
  BY <1>3 DEF Pick, OnTerminated, Sweep, Wave, EndWaves, EndRelease, FindsCrash, Park, TurnedAway,
     Answer, ReleaseOf, CallRelease, ReadBack, RecordRelease, Escalate, history
<1>4. ASSUME \/ \E r \in Resources :
                  \/ LeaseLapses(r) \/ WaitRunsOut(r)
                  \/ \E k \in 1..asked[r] : Redeem(r, k)
             \/ \E e \in Employees : Suspend(e) \/ Reinstate(e) \/ Terminate(e) \/ Crowd(e)
             \/ Halt \/ UNCHANGED vars
      PROVE  UNCHANGED <<lost, settled>>
  BY <1>4 DEF LeaseLapses, WaitRunsOut, Redeem, Suspend, Reinstate, Terminate, Crowd, Halt, history, vars
<1>5. QED
  BY <1>1, <1>2, <1>3, <1>4 DEF Next, StepOf

LEMMA EvidenceNext == Typed /\ Evidence /\ [Next]_vars => Evidence'
<1>. SUFFICES ASSUME Typed, Evidence, [Next]_vars PROVE Evidence'
  OBVIOUS
<1>1. ASSUME NEW r \in Resources
      PROVE  /\ r \notin settled' => intent'[r] \notin {"succeeded", "failed"}
             /\ intent'[r] = "absent" => intent[r] = "absent"
             /\ \A w \in Workers : Claim(w, r) => intent'[r] # "absent"
  <2>1. FileStep(r)
    BY FileChanges DEF Files
  <2>2. IntentBegun(r) # "absent" /\ (IntentBegun(r) = intent[r] \/ IntentBegun(r) = "in_flight")
    BY DEF IntentBegun
  <2>3. r \notin settled' => intent[r] \notin {"succeeded", "failed"}
    BY LostChanges DEF Evidence
  <2>4. ASSUME NEW w \in Workers, Claim(w, r) PROVE intent'[r] = IntentBegun(r)
    BY <2>4 DEF Claim, Typed
  <2>5. QED
    BY <2>1, <2>2, <2>3, <2>4 DEF FileStep, FilesKept
<1>2. ASSUME NEW r \in Resources, NEW w \in Workers, job'[w][r] \in {"calling"} \cup AnswerKinds
      PROVE  intent'[r] # "absent"
  <2>1. DeskStep(w, r)
    BY DeskChanges DEF Desks
  <2>2. job[w][r] \in {"calling"} \cup AnswerKinds \/ Claim(w, r)
    BY <1>2, <2>1 DEF DeskStep, AnswerKinds, Outcomes, Answer
  <2>3. QED
    BY <1>1, <2>2 DEF Evidence
<1>3. ASSUME NEW r \in Resources, r \in lost' PROVE intent'[r] # "absent"
  <2>1. r \in lost \/ \E w \in Workers : r \in Orphans(w)
    BY <1>3, LostChanges
  <2>2. intent[r] # "absent"
    BY <2>1 DEF Evidence, Orphans
  <2>3. QED
    BY <1>1, <2>2
<1>4. lost' \subseteq Resources
  BY LostChanges DEF Evidence, Orphans
<1>5. QED
  BY <1>1, <1>2, <1>3, <1>4 DEF Evidence

\* begin_intent before the call: a call that died before anything was ever
\* recorded of its step is in the log, in flight or orphaned.
THEOREM DeathIsEvident == Spec => []DeathLeavesEvidence
<1>1. Typed /\ Evidence => DeathLeavesEvidence
  BY DEF Typed, Evidence, DeathLeavesEvidence
<1>2. QED
  BY <1>1, TypesProved, EvidenceInit, EvidenceNext, PTL DEF Spec

-----------------------------------------------------------------------------
(* The queue of the leases that have run out                               *)

NoRepeat(s)  == \A m, n \in 1..Len(s) : s[m] = s[n] => m = n
Listed(s, q) == \E n \in 1..Len(s) : s[n] = q

\* Every row whose lease has run out is in the queue once, and no other.
Queue ==
  /\ lapsed \in Seq(Resources) /\ NoRepeat(lapsed)
  /\ \A r \in Resources : row[r].lease = "lapsed" <=> Listed(lapsed, r)

\* A row leaves the queue, and the others keep their order.
LEMMA Dropped ==
  ASSUME lapsed \in Seq(Resources), NoRepeat(lapsed), NEW r \in Resources
  PROVE  /\ Drop(r) \in Seq(Resources) /\ NoRepeat(Drop(r))
         /\ \A q \in Resources : Listed(Drop(r), q) <=> (q # r /\ Listed(lapsed, q))
<1>. DEFINE k == Len(lapsed)
            at == CHOOSE n \in DOMAIN lapsed : lapsed[n] = r
            d == [n \in 1..(k - 1) |-> lapsed[IF n < at THEN n ELSE n + 1]]
<1>1. k \in Nat /\ lapsed \in [1..k -> Resources] /\ DOMAIN lapsed = 1..k
  BY LenProperties
<1>2. CASE ~\E n \in DOMAIN lapsed : lapsed[n] = r
  <2>1. Drop(r) = lapsed
    BY <1>2 DEF Drop
  <2>2. ~Listed(lapsed, r)
    BY <1>1, <1>2 DEF Listed
  <2>3. QED
    BY <2>1, <2>2
<1>3. CASE \E n \in DOMAIN lapsed : lapsed[n] = r
  <2>1. Drop(r) = d
    BY <1>3 DEF Drop
  <2>2. at \in 1..k /\ lapsed[at] = r
    BY <1>1, <1>3
  <2>. HIDE DEF at, k
  <2>3. k - 1 \in Nat
    BY <1>1, <2>2
  <2>4. \A n \in 1..(k - 1) :
          /\ d[n] = IF n < at THEN lapsed[n] ELSE lapsed[n + 1]
          /\ d[n] \in Resources
    BY <1>1, <2>2
  <2>5. d \in [1..(k - 1) -> Resources]
    BY <2>4
  <2>6. d \in Seq(Resources) /\ Len(d) = k - 1
    <3>1. d \in Seq(Resources)
      BY <2>3, <2>5, SeqDef
    <3>2. Len(d) \in Nat /\ DOMAIN d = 1..Len(d)
      BY <3>1, LenProperties
    <3>3. DOMAIN d = 1..(k - 1)
      BY <2>5
    <3>4. QED
      BY <2>3, <3>1, <3>2, <3>3
  <2>. HIDE DEF d
  <2>7. \A m, n \in 1..k : lapsed[m] = lapsed[n] => m = n
    BY DEF NoRepeat, k
  <2>8. NoRepeat(d)
    <3>. SUFFICES ASSUME NEW m \in 1..(k - 1), NEW n \in 1..(k - 1), d[m] = d[n] PROVE m = n
      BY <2>6 DEF NoRepeat
    <3>1. m + 1 \in 1..k /\ n + 1 \in 1..k /\ m \in 1..k /\ n \in 1..k
      BY <2>2, <2>3, <1>1
    <3>2. (IF m < at THEN m ELSE m + 1) = (IF n < at THEN n ELSE n + 1)
      BY <2>4, <2>7, <3>1
    <3>3. QED
      BY <1>1, <2>2, <3>1, <3>2
  <2>9. ASSUME NEW q \in Resources, Listed(d, q) PROVE q # r /\ Listed(lapsed, q)
    <3>1. PICK n \in 1..(k - 1) : d[n] = q
      BY <2>6, <2>9 DEF Listed
    <3>. DEFINE m == IF n < at THEN n ELSE n + 1
    <3>2. m \in 1..k /\ m # at
      BY <1>1, <2>2, <2>3
    <3>3. lapsed[m] = q
      BY <2>4, <3>1
    <3>. HIDE DEF m
    <3>4. QED
      BY <2>2, <2>7, <3>2, <3>3 DEF Listed, k
  <2>10. ASSUME NEW q \in Resources, q # r, Listed(lapsed, q) PROVE Listed(d, q)
    <3>1. PICK m \in 1..k : lapsed[m] = q
      BY <2>10 DEF Listed, k
    <3>2. m # at
      BY <2>2, <2>10, <3>1
    <3>3. CASE m < at
      <4>1. m \in 1..(k - 1)
        BY <1>1, <2>2, <3>3
      <4>2. d[m] = q
        BY <2>4, <3>1, <3>3, <4>1
      <4>3. QED
        BY <2>6, <4>1, <4>2 DEF Listed
    <3>4. CASE m > at
      <4>1. m - 1 \in 1..(k - 1) /\ ~(m - 1 < at) /\ m - 1 + 1 = m
        BY <1>1, <2>2, <3>4
      <4>2. d[m - 1] = q
        BY <2>4, <3>1, <4>1
      <4>3. QED
        BY <2>6, <4>1, <4>2 DEF Listed
    <3>5. QED
      BY <1>1, <2>2, <3>1, <3>2, <3>3, <3>4
  <2>11. QED
    BY <2>1, <2>6, <2>8, <2>9, <2>10
<1>4. QED
  BY <1>2, <1>3

\* A row joins the queue.
LEMMA Joined ==
  ASSUME lapsed \in Seq(Resources), NoRepeat(lapsed), NEW r \in Resources, ~Listed(lapsed, r)
  PROVE  /\ Append(lapsed, r) \in Seq(Resources) /\ NoRepeat(Append(lapsed, r))
         /\ \A q \in Resources : Listed(Append(lapsed, r), q) <=> (q = r \/ Listed(lapsed, q))
<1>. DEFINE k == Len(lapsed)
            a == Append(lapsed, r)
<1>1. k \in Nat /\ a \in Seq(Resources) /\ Len(a) = k + 1 /\ a[k + 1] = r
      /\ \A n \in 1..k : a[n] = lapsed[n]
  OBVIOUS
<1>2. \A m, n \in 1..k : lapsed[m] = lapsed[n] => m = n
  BY DEF NoRepeat
<1>3. \A n \in 1..k : lapsed[n] # r
  BY DEF Listed
<1>. HIDE DEF k, a
<1>4. \A n \in 1..(k + 1) : n \in 1..k \/ n = k + 1
  BY <1>1
<1>5. NoRepeat(a)
  BY <1>1, <1>2, <1>3, <1>4 DEF NoRepeat
<1>6. \A n \in 1..k : n \in 1..(k + 1)
  BY <1>1
<1>7. k + 1 \in 1..(k + 1)
  BY <1>1
<1>8. \A q : (\E n \in 1..(k + 1) : a[n] = q) <=> (q = r \/ \E n \in 1..k : lapsed[n] = q)
  BY <1>1, <1>4, <1>6, <1>7
<1>9. \A q \in Resources : Listed(a, q) <=> (q = r \/ Listed(lapsed, q))
  BY <1>1, <1>8 DEF Listed, k
<1>10. QED
  BY <1>1, <1>5, <1>9 DEF a

\* What a step does to the leases and to the queue.
LeaseStep ==
  \/ lapsed' = lapsed /\ \A q \in Resources : row'[q].lease = row[q].lease
  \/ \E r \in Resources :
       /\ row[r].lease = "live" /\ lapsed' = Append(lapsed, r)
       /\ \A q \in Resources : row'[q].lease = IF q = r THEN "lapsed" ELSE row[q].lease
  \/ \E r \in Resources, l \in {"live", "none"} :
       /\ lapsed' = Drop(r)
       /\ \A q \in Resources : row'[q].lease = IF q = r THEN l ELSE row[q].lease

\* Leases start with a claim, run out by time, and end with a claim or an answer.
LEMMA EveryStepIsALeaseStep ==
  ASSUME Typed, [Next]_vars
  PROVE  LeaseStep
<1>0. row \in [Resources -> Row] /\ \A q \in Resources : row[q] \in Row
  BY DEF Typed
<1>1. CASE UNCHANGED <<row, lapsed>>
  BY <1>1 DEF LeaseStep
<1>2. CASE RowsKept
  <2>1. UNCHANGED lapsed
    BY <1>2 DEF RowsKept, Pick, OnTerminated, Sweep, Wave, EndRelease, LosesRace, Crash, Abort,
       FindsCrash, Park, TurnedAway, Answer, CallRelease, ReadBack, Escalate, Redeem, Suspend, Reinstate, Terminate, Crowd, Halt,
       store
  <2>2. QED
    BY <1>1, <1>2, <2>1, RowsAreKept
<1>3. ASSUME NEW w \in Workers, NEW r \in Resources, Claim(w, r) PROVE LeaseStep
  <2>1. row' = [row EXCEPT ![r] = ClaimedRow(w, r)] /\ lapsed' = Drop(r)
    BY <1>3 DEF Claim, ClaimedRow
  <2>2. ClaimedRow(w, r).lease = "live"
    BY <1>0 DEF ClaimedRow, Row
  <2>3. \A q \in Resources : row'[q].lease = IF q = r THEN "live" ELSE row[q].lease
    BY <1>0, <2>1, <2>2
  <2>4. QED
    BY <2>1, <2>3 DEF LeaseStep
<1>4. ASSUME NEW w \in Workers, NEW r \in Resources, Record(w, r) PROVE LeaseStep
  <2>. DEFINE f == Finished(r, job[w][r], token[w][r])
  <2>1. CASE Owns(w, r)
    <3>1. row' = [row EXCEPT ![r] = f] /\ lapsed' = Drop(r)
      BY <1>4, <2>1 DEF Record
    <3>2. f.lease = "none"
      BY <1>0 DEF Finished, Row
    <3>. HIDE DEF f
    <3>3. \A q \in Resources : row'[q].lease = IF q = r THEN "none" ELSE row[q].lease
      BY <1>0, <3>1, <3>2
    <3>4. QED
      BY <3>1, <3>3 DEF LeaseStep
  <2>2. CASE ~Owns(w, r)
    BY <1>1, <1>4, <2>2 DEF Record
  <2>3. QED
    BY <2>1, <2>2
<1>5. ASSUME NEW w \in Workers, NEW r \in Resources, RecordRelease(w, r) PROVE LeaseStep
  <2>1. lapsed' = lapsed /\ \E k \in {SavedRow(w, r), KeptRow(w, r)} : row' = [row EXCEPT ![r] = k]
    BY <1>5 DEF RecordRelease, SavedRow, KeptRow
  <2>2. SavedRow(w, r).lease = row[r].lease /\ KeptRow(w, r).lease = row[r].lease
    BY <1>5, ReleasedRows DEF RecordRelease
  <2>3. QED
    BY <1>0, <2>1, <2>2 DEF LeaseStep
<1>6. ASSUME NEW w \in Workers, EndWaves(w) PROVE LeaseStep
  <2>1. lapsed' = lapsed
        /\ row' = [r \in Resources |->
                     IF r \in Steps(emp[w]) /\ row[r].state = "overdue"
                     THEN [row[r] EXCEPT !.state = "failed"] ELSE row[r]]
    BY <1>6 DEF EndWaves
  <2>2. \A q \in Resources : [row[q] EXCEPT !.state = "failed"].lease = row[q].lease
    BY <1>0 DEF Row
  <2>3. QED
    BY <2>1, <2>2 DEF LeaseStep
<1>7. ASSUME NEW r \in Resources, LeaseLapses(r) PROVE LeaseStep
  <2>1. /\ row[r].lease = "live" /\ lapsed' = Append(lapsed, r)
        /\ row' = [row EXCEPT ![r] = [row[r] EXCEPT !.lease = "lapsed"]]
    BY <1>7 DEF LeaseLapses
  <2>2. [row[r] EXCEPT !.lease = "lapsed"].lease = "lapsed"
    BY <1>0 DEF Row
  <2>3. \A q \in Resources : row'[q].lease = IF q = r THEN "lapsed" ELSE row[q].lease
    BY <1>0, <2>1, <2>2
  <2>4. QED
    BY <2>1, <2>3 DEF LeaseStep
<1>8. ASSUME NEW r \in Resources, WaitRunsOut(r) PROVE LeaseStep
  <2>1. lapsed' = lapsed /\ row' = [row EXCEPT ![r] = [row[r] EXCEPT !.state = "overdue"]]
    BY <1>8 DEF WaitRunsOut
  <2>2. [row[r] EXCEPT !.state = "overdue"].lease = row[r].lease
    BY <1>0 DEF Row
  <2>3. QED
    BY <1>0, <2>1, <2>2 DEF LeaseStep
<1>9. CASE UNCHANGED vars
  BY <1>1, <1>9 DEF vars, store
<1>10. QED
  BY <1>2, <1>3, <1>4, <1>5, <1>6, <1>7, <1>8, <1>9, NextCases

LEMMA QueueInit == Init => Queue
<1>. SUFFICES ASSUME Init PROVE Queue
  OBVIOUS
<1>1. lapsed = <<>> /\ \A r \in Resources : row[r].lease = "none"
  BY DEF Init
<1>2. lapsed \in Seq(Resources) /\ Len(lapsed) = 0
  BY <1>1, EmptySeq
<1>3. 1..Len(lapsed) = {}
  BY <1>2
<1>4. QED
  BY <1>1, <1>2, <1>3 DEF Queue, NoRepeat, Listed

\* The queue is kept by every step.
LEMMA QueueNext == Typed /\ Queue /\ [Next]_vars => Queue'
<1>. SUFFICES ASSUME Typed, Queue, [Next]_vars PROVE Queue'
  OBVIOUS
<1>. USE DEF Queue
<1>1. CASE lapsed' = lapsed /\ \A q \in Resources : row'[q].lease = row[q].lease
  BY <1>1 DEF NoRepeat, Listed
<1>2. ASSUME NEW r \in Resources, row[r].lease = "live", lapsed' = Append(lapsed, r),
             \A q \in Resources : row'[q].lease = IF q = r THEN "lapsed" ELSE row[q].lease
      PROVE  Queue'
  <2>1. ~Listed(lapsed, r)
    BY <1>2
  <2>2. /\ lapsed' \in Seq(Resources) /\ NoRepeat(lapsed')
        /\ \A q \in Resources : Listed(lapsed', q) <=> (q = r \/ Listed(lapsed, q))
    BY <1>2, <2>1, Joined
  <2>3. QED
    BY <1>2, <2>2 DEF NoRepeat, Listed
<1>3. ASSUME NEW r \in Resources, NEW l \in {"live", "none"}, lapsed' = Drop(r),
             \A q \in Resources : row'[q].lease = IF q = r THEN l ELSE row[q].lease
      PROVE  Queue'
  <2>1. /\ lapsed' \in Seq(Resources) /\ NoRepeat(lapsed')
        /\ \A q \in Resources : Listed(lapsed', q) <=> (q # r /\ Listed(lapsed, q))
    BY <1>3, Dropped
  <2>2. QED
    BY <1>3, <2>1 DEF NoRepeat, Listed
<1>4. QED
  BY <1>1, <1>2, <1>3, EveryStepIsALeaseStep DEF LeaseStep

-----------------------------------------------------------------------------
(* The first call that died                                                *)

\* No pass was cut short by the database, and the sweep reaches every row a
\* worker has abandoned (EngineConfig::sweep_limit).
Calm == errors = 0 /\ Cardinality({r \in Resources : Abandoned(r)}) <= SweepLimit

\* Then sweep_expired_leases misses none.
LEMMA SweepMissesNone ==
  ASSUME Queue, Calm, NEW r \in Resources, Abandoned(r)
  PROVE  r \in Swept
<1>. DEFINE k == Len(lapsed)
            upTo(n) == {m \in 1..n : Abandoned(lapsed[m])}
            A == {q \in Resources : Abandoned(q)}
<1>1. k \in Nat /\ lapsed \in [1..k -> Resources] /\ DOMAIN lapsed = 1..k
      /\ \A m, n \in 1..k : lapsed[m] = lapsed[n] => m = n
  BY LenProperties DEF Queue, NoRepeat
<1>2. PICK n \in 1..k : lapsed[n] = r
  BY DEF Queue, Listed, Abandoned
<1>. HIDE DEF k
<1>3. IsFiniteSet(A)
  <2>. DEFINE g == [m \in 1..k |-> lapsed[m]]
              L == {lapsed[m] : m \in 1..k}
  <2>1. IsFiniteSet(1..k)
    BY <1>1, FS_Interval
  <2>2. g \in Surjection(1..k, L)
    BY DEF Surjection
  <2>3. IsFiniteSet(L)
    BY <2>1, <2>2, FS_Surjection
  <2>4. A \subseteq L
    BY DEF Queue, Listed, Abandoned, k
  <2>5. QED
    BY <2>3, <2>4, FS_Subset
<1>4. Cardinality(upTo(n)) <= Cardinality(A)
  <2>. DEFINE g == [m \in upTo(n) |-> lapsed[m]]
  <2>1. \A m \in upTo(n) : m \in 1..k
    BY <1>1, <1>2
  <2>2. \A m \in upTo(n) : lapsed[m] \in A
    BY <1>1, <2>1
  <2>. HIDE DEF upTo, A
  <2>3. g \in Injection(upTo(n), A)
    BY <1>1, <2>1, <2>2 DEF Injection, IsInjective
  <2>4. QED
    BY <1>3, <2>3, FS_Injection
<1>5. Cardinality(A) \in Nat /\ Cardinality(A) <= SweepLimit /\ SweepLimit \in Nat
  BY <1>3, FS_CardinalityType, ProvisioningAssumption DEF Calm
<1>6. Cardinality(upTo(n)) \in Nat
  <2>1. upTo(n) \subseteq 1..n
    OBVIOUS
  <2>2. IsFiniteSet(1..n)
    BY <1>1, <1>2, FS_Interval
  <2>3. QED
    BY <2>1, <2>2, FS_Subset, FS_CardinalityType
<1>7. Cardinality(upTo(n)) <= SweepLimit
  <2>. HIDE DEF upTo, A
  <2>1. QED
    BY <1>4, <1>5, <1>6
<1>8. n \in upTo(n)
  BY <1>1, <1>2
<1>9. n \in {m \in DOMAIN lapsed : m \in upTo(m) /\ Cardinality(upTo(m)) <= SweepLimit}
  <2>. HIDE DEF upTo
  <2>1. QED
    BY <1>1, <1>2, <1>7, <1>8
<1>10. QED
  BY <1>2, <1>9 DEF Swept

\* What a worker does to its phase, and a dead one to its jobs.
DeadStep(w) ==
  \/ phase'[w] # "dead" /\ phase[w] # "dead"
  \/ phase'[w] = "dead" /\ phase[w] = "dead" /\ job'[w] = job[w]
  \/ phase'[w] = "dead" /\ \A r \in Resources : job'[w][r] = "none"

\* Death is for good, and a worker that dies drops what it had in hand.
LEMMA PhasesNext ==
  ASSUME Typed, Duties, Copies, [Next]_vars
  PROVE  phase' \in [Workers -> Phases] /\ \A v \in Workers : DeadStep(v)
<1>0. /\ phase \in [Workers -> Phases] /\ job \in [Workers -> [Resources -> JobState]]
      /\ \A w \in Workers : phase[w] = "dead" => \A r \in Resources : job[w][r] = "none"
  BY DEF Duties, Typed
<1>1. CASE UNCHANGED <<phase, job>>
  BY <1>0, <1>1 DEF DeadStep
<1>2. ASSUME NEW w \in Workers, NEW r \in Resources, StepOf(w, r) \/ ReleaseOf(w, r)
      PROVE  phase' \in [Workers -> Phases] /\ \A v \in Workers : DeadStep(v)
  <2>1. UNCHANGED phase
    BY <1>2 DEF StepOf, ReleaseOf, FindsCrash, Park, TurnedAway, Claim, Answer, Record,
       CallRelease, ReadBack, RecordRelease, Escalate, worker
  <2>2. job[w][r] # "none"
    BY <1>2 DEF StepOf, ReleaseOf, FindsCrash, Park, TurnedAway, Claim, Answer, Record,
       CallRelease, MayRelease, ReadBack, RecordRelease, Escalate, AnswerKinds, Outcomes
  <2>3. job' = job \/ \E s : SetJob(w, r, s)
    BY <1>2 DEF StepOf, ReleaseOf, FindsCrash, Park, TurnedAway, Claim, Answer, Record,
       CallRelease, ReadBack, RecordRelease, Escalate
  <2>4. phase[w] # "dead"
    BY <1>0, <2>2
  <2>5. \A v \in Workers \ {w} : job'[v] = job[v]
    BY <1>0, <2>3 DEF SetJob
  <2>6. QED
    BY <1>0, <2>1, <2>4, <2>5 DEF DeadStep
<1>3. ASSUME NEW w \in Workers, NEW e \in Employees, Pick(w, e)
      PROVE  phase' \in [Workers -> Phases] /\ \A v \in Workers : DeadStep(v)
  <2>1. phase[w] = "idle" /\ phase' = [phase EXCEPT ![w] = "waves"] /\ job' = job
    BY <1>3 DEF Pick, Idle, desk
  <2>2. QED
    BY <1>0, <2>1 DEF DeadStep, Phases
<1>4. ASSUME NEW w \in Workers, NEW e \in Employees, OnTerminated(w, e) \/ Sweep(w, e)
      PROVE  phase' \in [Workers -> Phases] /\ \A v \in Workers : DeadStep(v)
  <2>1. PICK J : job' = [job EXCEPT ![w] = J]
    BY <1>4 DEF OnTerminated, Sweep, TakeOn
  <2>2. phase[w] = "idle" /\ phase' = [phase EXCEPT ![w] = "release"]
    BY <1>4 DEF OnTerminated, Sweep, TakeOn, Idle
  <2>3. QED
    BY <1>0, <2>1, <2>2 DEF DeadStep, Phases
<1>5. ASSUME NEW w \in Workers, Wave(w)
      PROVE  phase' \in [Workers -> Phases] /\ \A v \in Workers : DeadStep(v)
  <2>1. PICK J : job' = [job EXCEPT ![w] = J]
    BY <1>5 DEF Wave
  <2>2. phase[w] = "waves" /\ phase' = phase
    BY <1>5 DEF Wave
  <2>3. QED
    BY <1>0, <2>1, <2>2 DEF DeadStep
<1>6. ASSUME NEW w \in Workers, EndWaves(w) \/ EndRelease(w)
      PROVE  phase' \in [Workers -> Phases] /\ \A v \in Workers : DeadStep(v)
  <2>1. phase[w] # "dead" /\ phase' = [phase EXCEPT ![w] = "idle"] /\ job' = job
    BY <1>6 DEF EndWaves, EndRelease, desk
  <2>2. QED
    BY <1>0, <2>1 DEF DeadStep, Phases
<1>7. ASSUME NEW w \in Workers, LosesRace(w) \/ Crash(w) \/ Abort(w)
      PROVE  phase' \in [Workers -> Phases] /\ \A v \in Workers : DeadStep(v)
  <2>1. PICK x \in {"dead", "idle"} : phase' = [phase EXCEPT ![w] = x]
    BY <1>7 DEF LosesRace, Crash, Abort, Abandon
  <2>2. phase[w] # "dead" /\ job' = [job EXCEPT ![w] = [r \in Resources |-> "none"]]
    <3>1. LosesRace(w) => phase[w] = "release"
      BY LoserReleases
    <3>2. QED
      BY <1>7, <3>1 DEF LosesRace, Crash, Abort, Abandon
  <2>3. phase' \in [Workers -> Phases] /\ phase'[w] = x
        /\ \A v \in Workers \ {w} : phase'[v] = phase[v]
    BY <1>0, <2>1 DEF Phases
  <2>4. (\A r \in Resources : job'[w][r] = "none") /\ \A v \in Workers \ {w} : job'[v] = job[v]
    BY <1>0, <2>2
  <2>5. QED
    BY <2>1, <2>2, <2>3, <2>4 DEF DeadStep
<1>8. CASE \/ \E r \in Resources :
                \/ LeaseLapses(r) \/ WaitRunsOut(r)
                \/ \E k \in 1..asked[r] : Redeem(r, k)
           \/ \E e \in Employees : Suspend(e) \/ Reinstate(e) \/ Terminate(e) \/ Crowd(e)
           \/ Halt \/ UNCHANGED vars
  BY <1>1, <1>8 DEF LeaseLapses, WaitRunsOut, Redeem, Suspend, Reinstate, Terminate, Crowd, Halt, vars,
     worker, desk
<1>9. QED
  BY <1>2, <1>3, <1>4, <1>5, <1>6, <1>7, <1>8 DEF Next

\* A resource no answer was recorded for: nothing is bound or given back, its
\* row is leased to whoever claimed it, and if its call died, to the dead.
Unanswered ==
  \A r \in Resources \ settled :
    /\ row[r].binding = 0
    /\ \A w \in Workers : job[w][r] \notin ReleaseJobs \cup {"toEscalate"}
    /\ row[r].owner # Nobody => row[r].state = "provisioning" /\ row[r].lease # "none"
    /\ r \in lost => row[r].owner \in Workers /\ phase[row[r].owner] = "dead"

\* The heart of it: the sweep or the lease stands between a call that died and
\* a worker that would make it again, until a human's accord.
LEMMA NoSecondCall ==
  ASSUME Typed, Evidence, Queue, Duties, Unanswered, Calm,
         NEW w \in Workers, NEW r \in lost \ settled, Claim(w, r)
  PROVE  Reconciled(r)
<1>0. r \in Resources /\ row[r] \in Row
  BY DEF Evidence, Typed
<1>1. intent[r] \in {"in_flight", "orphaned"}
  BY <1>0 DEF Evidence, Typed
<1>2. SUFFICES ASSUME ~Reconciled(r) PROVE FALSE
  OBVIOUS
<1>3. intent[r] = "in_flight" /\ r \notin Swept
  BY <1>1, <1>2 DEF Claim, Crashed
<1>4. row[r].owner \in Workers /\ phase[row[r].owner] = "dead"
  BY <1>0 DEF Unanswered
<1>5. phase[w] # "dead"
  BY <1>0 DEF Claim, Duties
<1>6. row[r].owner \notin {Nobody, w}
  BY <1>4, <1>5, ProvisioningAssumption
<1>7. row[r].lease # "live"
  BY <1>6 DEF Claim, Takeable
<1>8. row[r].state = "provisioning" /\ row[r].lease # "none"
  BY <1>0, <1>6 DEF Unanswered
<1>9. Abandoned(r)
  BY <1>0, <1>7, <1>8 DEF Row, Abandoned
<1>10. QED
  BY <1>0, <1>3, <1>9, SweepMissesNone

LEMMA UnansweredInit == Init => Queue /\ Unanswered
<1>. SUFFICES ASSUME Init PROVE Unanswered
  BY QueueInit
<1>1. \A w \in Workers, r \in Resources : job[w][r] = "none"
  BY DEF Init
<1>2. \A r \in Resources : row[r].binding = 0 /\ row[r].owner = Nobody
  BY DEF Init
<1>3. lost = {}
  BY DEF Init
<1>4. QED
  BY <1>1, <1>2, <1>3 DEF Unanswered, ReleaseJobs, Outcomes

\* How the row of a resource changes while no answer is on record.
LEMMA UnansweredRow ==
  ASSUME Typed, Unanswered, [Next]_vars, NEW r \in Resources, r \notin settled'
  PROVE  \/ /\ row'[r].owner = row[r].owner /\ row'[r].binding = row[r].binding
            /\ row'[r].owner # Nobody => /\ row'[r].state = row[r].state
                                         /\ row'[r].lease \in {row[r].lease, "lapsed"}
         \/ \E w \in Workers : /\ Claim(w, r) /\ row'[r].binding = row[r].binding
                               /\ row'[r].state = "provisioning" /\ row'[r].lease = "live"
<1>0. row[r] \in Row /\ r \notin settled
  BY LostChanges DEF Typed
<1>1. /\ \A w \in Workers : job[w][r] \notin ReleaseJobs
      /\ row[r].owner # Nobody => row[r].state = "provisioning"
  BY <1>0 DEF Unanswered
<1>2. ASSUME NEW w \in Workers, row'[r] = ClaimedRow(w, r)
      PROVE  /\ row'[r].binding = row[r].binding
             /\ row'[r].state = "provisioning" /\ row'[r].lease = "live"
  BY <1>0, <1>2 DEF ClaimedRow, Row
<1>3. ASSUME NEW w \in Workers PROVE ~(Record(w, r) /\ Owns(w, r)) /\ ~RecordRelease(w, r)
  BY <1>1 DEF Record, RecordRelease, ReleaseJobs
<1>4. CASE row'[r] = row[r]
  BY <1>4
<1>5. CASE row[r].state = "overdue" /\ row'[r] = [row[r] EXCEPT !.state = "failed"]
  BY <1>0, <1>1, <1>5 DEF Row
<1>6. CASE row'[r] = [row[r] EXCEPT !.lease = "lapsed"]
  BY <1>0, <1>6 DEF Row
<1>7. CASE row[r].state = "waiting" /\ row'[r] = [row[r] EXCEPT !.state = "overdue"]
  BY <1>0, <1>1, <1>7 DEF Row
<1>8. QED
  BY <1>2, <1>3, <1>4, <1>5, <1>6, <1>7, RowChanges

\* Unanswered is kept by every step taken in a calm state that leads to one.
LEMMA UnansweredNext ==
  ASSUME Typed, Evidence, Queue, Duties, Copies, Unanswered, Calm, Calm', [Next]_vars
  PROVE  Unanswered'
<1>. SUFFICES ASSUME NEW r \in Resources, r \notin settled'
              PROVE  /\ row'[r].binding = 0
                     /\ \A w \in Workers : job'[w][r] \notin ReleaseJobs \cup {"toEscalate"}
                     /\ row'[r].owner # Nobody =>
                          row'[r].state = "provisioning" /\ row'[r].lease # "none"
                     /\ r \in lost' => row'[r].owner \in Workers /\ phase'[row'[r].owner] = "dead"
  BY DEF Unanswered
<1>0. r \notin settled /\ row[r] \in Row
  BY LostChanges DEF Typed
<1>1. /\ row[r].binding = 0
      /\ \A w \in Workers : job[w][r] \notin ReleaseJobs \cup {"toEscalate"}
      /\ row[r].owner # Nobody => row[r].state = "provisioning" /\ row[r].lease # "none"
      /\ r \in lost => row[r].owner \in Workers /\ phase[row[r].owner] = "dead"
  BY <1>0 DEF Unanswered
<1>2. row'[r].binding = 0
  BY <1>1, UnansweredRow
<1>3. ASSUME NEW w \in Workers PROVE job'[w][r] \notin ReleaseJobs \cup {"toEscalate"}
  <2>1. DeskStep(w, r)
    BY DeskChanges DEF Desks
  <2>2. job'[w][r] = job[w][r]
        \/ job'[w][r] \in {"none", "suspect", "planned", "calling"} \cup AnswerKinds
    BY <1>1, <2>1 DEF DeskStep, ReleaseJobs
  <2>3. QED
    BY <1>1, <2>2 DEF ReleaseJobs, AnswerKinds, Outcomes
<1>4. row'[r].owner # Nobody => row'[r].state = "provisioning" /\ row'[r].lease # "none"
  BY <1>1, UnansweredRow
<1>5. ASSUME r \in lost' PROVE row'[r].owner \in Workers /\ phase'[row'[r].owner] = "dead"
  <2>1. CASE r \in lost
    <3>1. ASSUME NEW w \in Workers, Claim(w, r) PROVE FALSE
      <4>1. Reconciled(r)
        BY <1>0, <2>1, <3>1, NoSecondCall
      <4>2. lost' = lost \ {r}
        BY <3>1, <4>1 DEF Claim
      <4>3. QED
        BY <1>5, <4>2
    <3>2. row'[r].owner = row[r].owner
      BY <3>1, UnansweredRow
    <3>3. DeadStep(row[r].owner)
      BY <1>1, <2>1, PhasesNext
    <3>4. QED
      BY <1>1, <2>1, <3>2, <3>3 DEF DeadStep
  <2>2. CASE \E w \in Workers : (Crash(w) \/ Abort(w) \/ LosesRace(w)) /\ r \in Orphans(w)
    <3>1. PICK w \in Workers : (Crash(w) \/ Abort(w) \/ LosesRace(w)) /\ r \in Orphans(w)
      BY <2>2
    <3>2. ~Abort(w) /\ ~LosesRace(w)
      <4>1. phase[w] = "waves"
        BY <3>1 DEF Orphans, Duties, AnswerKinds, ReleaseJobs, Outcomes
      <4>2. QED
        BY <4>1, LoserReleases DEF Abort, Calm
    <3>3. row' = row /\ phase' = [phase EXCEPT ![w] = "dead"]
      BY <3>1, <3>2 DEF Crash, Abandon, store
    <3>4. row[r].owner = w
      BY <3>1 DEF Orphans, Owns
    <3>5. QED
      BY <3>3, <3>4 DEF Duties
  <2>3. QED
    BY <1>5, <2>1, <2>2, LostChanges
<1>6. QED
  BY <1>2, <1>3, <1>4, <1>5

\* sweep_expired_leases, claim_step and begin_intent together, whoever meets
\* the row and however many processes die: a step whose first call died with
\* its process is called again only on a human's accord. Two conditions, and
\* the code needs both: no pass was cut short by a database error, which
\* leaves a live worker's lease on a call nobody will record; and the sweep
\* looks at no fewer rows than were abandoned.
THEOREM FirstDeathParked == Spec /\ []Calm => FirstDeathIsParked
<1>1. Typed /\ Evidence /\ Queue /\ Duties /\ Copies /\ Unanswered /\ Calm /\ Calm' /\ [Next]_vars
        => Unanswered'
  BY UnansweredNext
<1>2. Spec => [](Typed /\ Evidence /\ Duties /\ Copies)
  BY TypesProved, CopiesProved, EvidenceInit, EvidenceNext, PTL DEF Spec
<1>3. Spec /\ []Calm => [](Queue /\ Unanswered)
  BY <1>1, <1>2, UnansweredInit, QueueNext, PTL DEF Spec
<1>4. ASSUME Typed, Evidence, Queue, Duties, Unanswered, Calm, [Next]_vars
      PROVE  [\A w \in Workers, r \in lost \ settled :
                (job[w][r] # "calling" /\ job'[w][r] = "calling") => r \notin lost']_vars
  <2>. SUFFICES ASSUME NEW w \in Workers, NEW r \in lost \ settled,
                       job[w][r] # "calling", job'[w][r] = "calling"
                PROVE  r \notin lost'
    OBVIOUS
  <2>1. r \in Resources
    BY <1>4 DEF Evidence
  <2>2. DeskStep(w, r)
    BY <1>4, <2>1, DeskChanges DEF Desks
  <2>3. Claim(w, r)
    BY <2>2 DEF DeskStep, AnswerKinds, Outcomes
  <2>4. Reconciled(r)
    BY <1>4, <2>3, NoSecondCall
  <2>5. QED
    BY <2>3, <2>4 DEF Claim
<1>5. QED
  BY <1>2, <1>3, <1>4, PTL DEF FirstDeathIsParked, Spec

\* In particular when no pass meets a database error and a tenant has no more
\* rows than one sweep looks at.
THEOREM FirstDeathParkedWhenCalm ==
  ASSUME MaxErrors = 0, IsFiniteSet(Resources), Cardinality(Resources) <= SweepLimit
  PROVE  Spec => FirstDeathIsParked
<1>1. errors = 0 /\ [Next]_vars => (errors = 0)'
  <2>. SUFFICES ASSUME errors = 0, [Next]_vars PROVE errors' = 0
    OBVIOUS
  <2>1. \A w \in Workers : ~Abort(w)
    BY DEF Abort
  <2>2. ASSUME NEW w \in Workers, Crash(w) \/ LosesRace(w) PROVE errors' = errors
    BY <2>2 DEF Crash, LosesRace, faults
  <2>3. ASSUME NEW w \in Workers, NEW r \in Resources, StepOf(w, r) \/ ReleaseOf(w, r)
        PROVE  errors' = errors
    BY <2>3 DEF StepOf, ReleaseOf, FindsCrash, Park, TurnedAway, Claim, Answer, Record,
       CallRelease, ReadBack, RecordRelease, Escalate, faults
  <2>4. ASSUME NEW w \in Workers,
               \/ \E e \in Employees : Pick(w, e) \/ OnTerminated(w, e) \/ Sweep(w, e)
               \/ Wave(w) \/ EndWaves(w) \/ EndRelease(w)
        PROVE  errors' = errors
    BY <2>4 DEF Pick, OnTerminated, Sweep, Wave, EndWaves, EndRelease, faults
  <2>5. CASE \/ \E r \in Resources :
                  \/ LeaseLapses(r) \/ WaitRunsOut(r)
                  \/ \E k \in 1..asked[r] : Redeem(r, k)
             \/ \E e \in Employees : Suspend(e) \/ Reinstate(e) \/ Terminate(e) \/ Crowd(e)
             \/ Halt \/ UNCHANGED vars
    BY <2>5 DEF LeaseLapses, WaitRunsOut, Redeem, Suspend, Reinstate, Terminate, Crowd, Halt, vars, faults
  <2>6. QED
    BY <2>1, <2>2, <2>3, <2>4, <2>5 DEF Next
<1>2. Cardinality({r \in Resources : Abandoned(r)}) <= SweepLimit
  <2>. DEFINE A == {r \in Resources : Abandoned(r)}
  <2>1. A \subseteq Resources
    OBVIOUS
  <2>. HIDE DEF A
  <2>2. Cardinality(A) <= Cardinality(Resources) /\ Cardinality(A) \in Nat
        /\ Cardinality(Resources) \in Nat
    BY <2>1, FS_Subset, FS_CardinalityType
  <2>3. Cardinality(A) <= SweepLimit
    BY <2>2, ProvisioningAssumption
  <2>4. QED
    BY <2>3 DEF A
<1>3. errors = 0 => Calm
  BY <1>2 DEF Calm
<1>4. Init => errors = 0
  BY DEF Init
<1>5. QED
  BY <1>1, <1>3, <1>4, FirstDeathParked, PTL DEF Spec
=============================================================================
