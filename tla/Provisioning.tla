---------------------------- MODULE Provisioning ----------------------------
(***************************************************************************)
(* Buying an employee's resources, and giving them back: the engine of     *)
(* crates/app/src/provisioning.rs, its claims, leases and write-ahead      *)
(* intents in crates/store/src/provisioning.rs, and the loop, reaper and   *)
(* termination sweep of apps/server/src/loops/provisioning.rs.             *)
(*                                                                         *)
(* Covered: waves planned on a snapshot of the employee, the claim of a    *)
(* step with its crash detection, the provider call between two            *)
(* transactions, the four answers, lost leases, processes that die,        *)
(* waves aborted by a database error, orphaned intents and the human       *)
(* accord that resumes them, overdue external waits, the company stop,     *)
(* suspension, termination, and the release of what was bought.            *)
(*                                                                         *)
(* Abstracted: a resource is one (employee, step) whose step has an        *)
(* adapter; a lease or an external wait runs out at any time; the retry    *)
(* cutoff is "some time later"; attempt_count stops counting at the cap; the *)
(* rows of others that stand before an employee's in the loop's queue are a *)
(* batch full of them or not.                                              *)
(* Left out: steps served by the process itself, steps not wired in this   *)
(* build, and the pooled phone slot, which PhonePool models.               *)
(*                                                                         *)
(* An operator named Mut_<Bug> is a plausible bug in the definition that   *)
(* follows it. No specification uses it: a run must tell it from the code. *)
(***************************************************************************)
EXTENDS Integers, Sequences, FiniteSets

CONSTANTS
  Employees,     \* the employees of one tenant
  Resources,     \* rows of employee_resources: one per employee and step
  EmployeeOf,    \* [Resources -> Employees]
  DependsOn,     \* [Resources -> SUBSET Resources]: Step::depends_on
  Workers,       \* worker ids: a restarted process is a new one
  Nobody,        \* NULL, as a lease owner or as a worker's employee
  MaxAttempts,   \* LoopConfig::max_attempts, 5 in the code
  SweepLimit,    \* EngineConfig::sweep_limit, 100 in the code
  Answers,       \* the answers a provider may give in this instance
  Terminable,    \* bound of the model: employees an operator may terminate
  Suspendable,   \* bound of the model: employees an operator may suspend
  Crowdable,     \* bound of the model: employees the queue may pass over
  MayStop,       \* bound of the model: TRUE if the company may be stopped
  MaxBought,     \* bound of the model: purchases of one resource
  MaxAccords,    \* bound of the model: approvals a human redeems per resource
  MaxCrashes,    \* bound of the model: processes lost
  MaxErrors      \* bound of the model: passes aborted by a database error

AnswerKinds == {"ready", "waiting", "retryable", "terminal"}

ASSUME ProvisioningAssumption ==
  /\ EmployeeOf \in [Resources -> Employees]
  /\ DependsOn \in [Resources -> SUBSET Resources]
  /\ \A r \in Resources : \A d \in DependsOn[r] : EmployeeOf[d] = EmployeeOf[r]
  /\ Nobody \notin Workers \cup Employees
  /\ MaxAttempts \in Nat \ {0} /\ SweepLimit \in Nat \ {0}
  /\ Answers \subseteq AnswerKinds
  /\ Terminable \subseteq Employees /\ Suspendable \subseteq Employees
  /\ Crowdable \subseteq Employees
  /\ MayStop \in BOOLEAN
  /\ MaxBought \in Nat /\ MaxAccords \in Nat
  /\ MaxCrashes \in Nat /\ MaxErrors \in Nat

VARIABLES
  lifecycle,  \* employees.lifecycle; draft and active are the same here
  stopped,    \* the company halt
  crowded,    \* employees whose due rows a full batch of older ones precedes
  row,        \* employee_resources
  lapsed,     \* resources whose lease has run out, oldest lease first
  intent,     \* provider_intents of kind provisioning_step
  named,      \* reconciliation_approval_id of the intent, 0 for NULL
  asked,      \* reconciliation approvals filed for a resource so far
  accord,     \* those of them a human has redeemed
  sweeps,     \* release_attempt_count
  escalated,  \* resources a human was asked to cancel by hand
  notices,    \* employee.terminated events still to be delivered
  phase,      \* what a worker is doing
  emp,        \* the employee it does it for
  todo,       \* steps its later waves will look at
  job,        \* job[w][r]: where worker w is with resource r
  token,      \* the binding an answer or a release speaks of
  copy,       \* the row as a releasing worker loaded it, to save it back
  held,       \* the provider: which purchase of r is running, 0 for none
  bought,     \* the provider: purchases of r so far
  crashes, errors,   \* bounded
  \* history, read by properties only
  lost,       \* resources whose last call died with no answer on record
  settled,    \* resources some answer was ever recorded for
  resumed     \* how often an orphaned intent was put back in flight

people   == <<lifecycle, stopped, crowded>>
store    == <<row, lapsed, intent, named>>
human    == <<asked, accord>>
release  == <<sweeps, escalated, notices>>
worker   == <<phase, emp, todo>>
desk     == <<job, token, copy>>
provider == <<held, bought>>
faults   == <<crashes, errors>>
history  == <<lost, settled, resumed>>
vars == <<people, store, human, release, worker, desk, provider, faults, history>>

Outcomes == {"released", "refused", "unreleasable"}
ReleaseJobs == {"toRelease"} \cup Outcomes
JobState ==
  {"none", "planned", "suspect", "calling", "toEscalate"} \cup AnswerKinds \cup ReleaseJobs

State == {"pending", "provisioning", "ready", "waiting", "overdue", "failed", "disabled"}

Row == [state    : State,
        owner    : Workers \cup {Nobody},
        lease    : {"none", "live", "lapsed"},
        attempts : 0..MaxAttempts,
        binding  : 0..MaxBought,
        error    : {"none", "retryable", "terminal", "unreleasable"}]

\* A copy is moved once the row was written behind it, and stale once the
\* employee's version was.
Copy   == [is : {"none", "fresh", "moved", "stale"}, state : State, binding : 0..MaxBought]
NoCopy == [is |-> "none", state |-> "pending", binding |-> 0]

TypeOK ==
  /\ lifecycle \in [Employees -> {"active", "suspended", "terminated"}]
  /\ stopped \in BOOLEAN /\ crowded \subseteq Employees
  /\ row \in [Resources -> Row]
  /\ lapsed \in Seq(Resources)
  /\ intent \in [Resources -> {"absent", "in_flight", "succeeded", "failed", "orphaned"}]
  /\ named \in [Resources -> Nat]
  /\ asked \in [Resources -> Nat]
  /\ accord \in [Resources -> SUBSET Nat]
  /\ sweeps \in [Resources -> 0..(MaxAttempts + 1)]
  /\ escalated \subseteq Resources
  /\ notices \in [Employees -> {0, 1}]
  /\ phase \in [Workers -> {"idle", "waves", "release", "dead"}]
  /\ emp \in [Workers -> Employees \cup {Nobody}]
  /\ todo \in [Workers -> SUBSET Resources]
  /\ job \in [Workers -> [Resources -> JobState]]
  /\ token \in [Workers -> [Resources -> 0..MaxBought]]
  /\ copy \in [Workers -> Copy]
  /\ held \in [Resources -> 0..MaxBought]
  /\ bought \in [Resources -> 0..MaxBought]
  /\ crashes \in 0..MaxCrashes /\ errors \in 0..MaxErrors
  /\ lost \subseteq Resources /\ settled \subseteq Resources
  /\ resumed \in [Resources -> Nat]

-----------------------------------------------------------------------------
(* Rows and the predicates of the queries.                                 *)

Steps(e)      == {r \in Resources : EmployeeOf[r] = e}
Ready(r)      == row[r].state = "ready"
Unmet(r)      == \E d \in DependsOn[r] : ~Ready(d)
Abandoned(r)  == row[r].state = "provisioning" /\ row[r].lease = "lapsed"
Idle(w)       == phase[w] = "idle"
NoJobs(w)     == \A r \in Resources : job[w][r] = "none"
SetJob(w, r, s) == job' = [job EXCEPT ![w][r] = s]

\* The leases that have run out, without r's.
Drop(r) ==
  LET at == CHOOSE n \in DOMAIN lapsed : lapsed[n] = r
  IN IF \E n \in DOMAIN lapsed : lapsed[n] = r
     THEN [n \in 1..(Len(lapsed) - 1) |-> lapsed[IF n < at THEN n ELSE n + 1]]
     ELSE lapsed

\* CLAIM_SQL: one row of an employee that wants work.
Due(r) ==
  \/ row[r].state \in {"pending", "overdue"}
  \/ Abandoned(r)
  \/ /\ row[r].state = "failed"
     /\ row[r].attempts < MaxAttempts
     /\ row[r].error \in {"none", "retryable"}

Mut_WantsWorkStopped(e) ==
  /\ lifecycle[e] = "active"
  /\ ~stopped
  /\ \E r \in Steps(e) : Due(r)

\* ... its employee is not retired, and a stopped company's rows are exempted
\* only where a provider may already have been called.
WantsWork(e) ==
  /\ lifecycle[e] = "active"
  /\ \E r \in Steps(e) : Due(r) /\ (Abandoned(r) \/ ~stopped)

\* SWEEP_SQL.
Mut_SweepableDisabled(r) ==
  /\ lifecycle[EmployeeOf[r]] = "terminated"
  /\ row[r].binding # 0
  /\ row[r].state # "ready"
  /\ sweeps[r] <= MaxAttempts
  /\ row[r].error # "unreleasable"

Sweepable(r) ==
  /\ lifecycle[EmployeeOf[r]] = "terminated"
  /\ row[r].binding # 0
  /\ sweeps[r] <= MaxAttempts
  /\ row[r].error # "unreleasable"

\* sweep_expired_leases: the oldest SweepLimit abandoned rows of the tenant.
Swept ==
  LET upTo(n) == {m \in 1..n : Abandoned(lapsed[m])}
  IN {lapsed[n] : n \in {m \in DOMAIN lapsed :
                           m \in upTo(m) /\ Cardinality(upTo(m)) <= SweepLimit}}

\* The sweep found this step with its intent still in flight.
Mut_CrashedCapped(r) ==
  r \in Swept /\ intent[r] = "in_flight" /\ row[r].attempts < MaxAttempts
Crashed(r) == r \in Swept /\ intent[r] = "in_flight"

\* claim_step: neither settled nor leased by another worker.
Takeable(w, r) ==
  /\ row[r].state \notin {"ready", "waiting", "overdue"}
  /\ ~(row[r].owner \notin {Nobody, w} /\ row[r].lease = "live")

\* resume_orphaned_intent: the approval the intent names has been redeemed.
Mut_ReconciledEver(r) == intent[r] = "orphaned" /\ accord[r] # {}
Reconciled(r) == intent[r] = "orphaned" /\ named[r] \in accord[r]

\* What a release has loaded of r and not saved, once r is written.
Overtaken(r) ==
  [v \in Workers |-> IF copy[v].is = "fresh" /\ job[v][r] \in Outcomes
                     THEN [copy[v] EXCEPT !.is = "moved"] ELSE copy[v]]

\* ... and once w has saved an employee: its version is another.
Outdated(w) ==
  [v \in Workers |-> IF v = w THEN NoCopy
                     ELSE IF copy[v].is # "none" /\ emp[v] = emp[w]
                     THEN [NoCopy EXCEPT !.is = "stale"] ELSE copy[v]]

Min2(a, b) == IF a < b THEN a ELSE b

-----------------------------------------------------------------------------
Init ==
  /\ lifecycle = [e \in Employees |-> "active"]
  /\ stopped = FALSE /\ crowded = {}
  /\ row = [r \in Resources |-> [state |-> "pending", owner |-> Nobody, lease |-> "none",
                                 attempts |-> 0, binding |-> 0, error |-> "none"]]
  /\ lapsed = <<>>
  /\ intent = [r \in Resources |-> "absent"]
  /\ named = [r \in Resources |-> 0]
  /\ asked = [r \in Resources |-> 0]
  /\ accord = [r \in Resources |-> {}]
  /\ sweeps = [r \in Resources |-> 0]
  /\ escalated = {}
  /\ notices = [e \in Employees |-> 0]
  /\ phase = [w \in Workers |-> "idle"]
  /\ emp = [w \in Workers |-> Nobody]
  /\ todo = [w \in Workers |-> {}]
  /\ job = [w \in Workers |-> [r \in Resources |-> "none"]]
  /\ token = [w \in Workers |-> [r \in Resources |-> 0]]
  /\ copy = [w \in Workers |-> NoCopy]
  /\ held = [r \in Resources |-> 0]
  /\ bought = [r \in Resources |-> 0]
  /\ crashes = 0 /\ errors = 0
  /\ lost = {} /\ settled = {}
  /\ resumed = [r \in Resources |-> 0]

-----------------------------------------------------------------------------
(* One pass over an employee: tick, drive and converge.                    *)

\* The loop claims e (CLAIM_SQL, committed before converging): one of its rows
\* is among the oldest of the queue.
Pick(w, e) ==
  /\ Idle(w)
  /\ e \notin crowded
  /\ WantsWork(e)
  /\ phase' = [phase EXCEPT ![w] = "waves"]
  /\ emp' = [emp EXCEPT ![w] = e]
  /\ todo' = [todo EXCEPT ![w] = Steps(e)]
  /\ UNCHANGED <<people, store, human, release, desk, provider, faults, history>>

Mut_RunnableEarly(w) == {r \in todo[w] : ~Ready(r)}

\* plan_wave, on a snapshot of the employee.
Runnable(w) == {r \in todo[w] : ~Ready(r) /\ ~Unmet(r)}
Blocked(w)  == {r \in todo[w] : ~Ready(r) /\ Unmet(r)}

\* run_wave spawns ensure_step for each runnable step; the guards it reads
\* from the snapshot are decided here, however long its claim then takes.
Wave(w) ==
  /\ phase[w] = "waves" /\ NoJobs(w)
  /\ Runnable(w) # {}
  /\ job' = [job EXCEPT ![w] =
       [r \in Resources |->
          IF /\ r \in Runnable(w)
             /\ lifecycle[emp[w]] = "active"
             /\ row[r].state \notin {"waiting", "overdue"}
          THEN "planned" ELSE "none"]]
  /\ todo' = [todo EXCEPT ![w] = Blocked(w)]
  /\ UNCHANGED <<people, store, human, release, phase, emp, token, copy, provider, faults,
                 history>>

\* converge has returned; reap fails every external wait that ran out.
EndWaves(w) ==
  /\ phase[w] = "waves" /\ NoJobs(w)
  /\ Runnable(w) = {}
  /\ row' = [r \in Resources |->
       IF r \in Steps(emp[w]) /\ row[r].state = "overdue"
       THEN [row[r] EXCEPT !.state = "failed"] ELSE row[r]]
  /\ copy' = IF row' = row THEN copy ELSE Outdated(w)
  /\ phase' = [phase EXCEPT ![w] = "idle"]
  /\ emp' = [emp EXCEPT ![w] = Nobody]
  /\ todo' = [todo EXCEPT ![w] = {}]
  /\ UNCHANGED <<people, lapsed, intent, named, human, release, job, token, provider, faults,
                 history>>

-----------------------------------------------------------------------------
(* One step: claim, provider call, finish.                                 *)

\* claim, first half: the sweep meets a call that never came back.
FindsCrash(w, r) ==
  /\ job[w][r] = "planned"
  /\ Crashed(r)
  /\ SetJob(w, r, "suspect")
  /\ UNCHANGED <<people, store, human, release, worker, token, copy, provider, faults, history>>

\* ... so a human is asked, and the intent is orphaned under that question.
Park(w, r) ==
  /\ job[w][r] = "suspect"
  /\ asked' = [asked EXCEPT ![r] = @ + 1]
  /\ IF intent[r] = "in_flight"
     THEN /\ intent' = [intent EXCEPT ![r] = "orphaned"]
          /\ named' = [named EXCEPT ![r] = asked[r] + 1]
     ELSE UNCHANGED <<intent, named>>
  /\ SetJob(w, r, "none")
  /\ UNCHANGED <<people, row, lapsed, accord, release, worker, token, copy,
                 provider, faults, history>>

\* claim_step says "not yours to do", or the intent is orphaned and nobody
\* has answered for it: the transaction is rolled back.
TurnedAway(w, r) ==
  /\ job[w][r] = "planned"
  /\ ~Crashed(r)
  /\ ~Takeable(w, r) \/ (intent[r] = "orphaned" /\ ~Reconciled(r))
  /\ SetJob(w, r, "none")
  /\ UNCHANGED <<people, store, human, release, worker, token, copy, provider, faults, history>>

\* begin_intent writes in_flight only where no intent was; an orphaned one is
\* put back by resume_orphaned_intent. Any other state is left as it is.
Mut_IntentOfNone(r) == intent[r]
IntentBegun(r) ==
  IF intent[r] = "absent" \/ Reconciled(r) THEN "in_flight" ELSE intent[r]

\* sweep, claim_step and begin_intent commit; the provider call begins.
Claim(w, r) ==
  /\ job[w][r] = "planned"
  /\ ~Crashed(r)
  /\ Takeable(w, r)
  /\ intent[r] # "orphaned" \/ Reconciled(r)
  /\ row' = [row EXCEPT ![r] =
       [row[r] EXCEPT !.state = "provisioning", !.owner = w, !.lease = "live",
                      !.attempts = Min2(@ + 1, MaxAttempts), !.error = "none"]]
  /\ lapsed' = Drop(r)
  /\ intent' = [intent EXCEPT ![r] = IntentBegun(r)]
  /\ IF Reconciled(r)
     THEN /\ named' = [named EXCEPT ![r] = 0]
          /\ lost' = lost \ {r}
          /\ resumed' = [resumed EXCEPT ![r] = @ + 1]
     ELSE UNCHANGED <<named, lost, resumed>>
  /\ copy' = Overtaken(r)
  /\ SetJob(w, r, "calling")
  /\ UNCHANGED <<people, human, release, worker, token, provider, faults, settled>>

\* call_until: the provider finds what this key already paid for, buys it, or
\* fails; a timeout is a failure that may have bought.
Buys(r) ==
  /\ held[r] = 0 /\ bought[r] < MaxBought
  /\ bought' = [bought EXCEPT ![r] = @ + 1]
  /\ held' = [held EXCEPT ![r] = bought[r] + 1]

Answer(w, r) ==
  /\ job[w][r] = "calling"
  /\ \E answer \in Answers :
       /\ IF answer = "ready"
          THEN (held[r] # 0 /\ UNCHANGED provider) \/ Buys(r)
          ELSE UNCHANGED provider \/ (answer = "retryable" /\ Buys(r))
       /\ SetJob(w, r, answer)
       /\ token' = [token EXCEPT ![w][r] = IF answer = "ready" THEN held'[r] ELSE 0]
  /\ UNCHANGED <<people, store, human, release, worker, copy, faults, history>>

\* finish_step's UPDATE of the row. A binding is replaced by a newer one and
\* otherwise kept (coalesce).
Finished(r, answer, bind) ==
  [row[r] EXCEPT
     !.state   = IF answer \in {"ready", "waiting"} THEN answer ELSE "failed",
     !.owner   = Nobody,
     !.lease   = "none",
     !.binding = IF bind # 0 THEN bind ELSE @,
     !.error   = IF answer \in {"ready", "waiting"} THEN "none" ELSE answer]

\* finish_step writes only under the lease it was claimed with.
Mut_Unfenced(w, r) == TRUE
Owns(w, r) == row[r].owner = w

Record(w, r) ==
  LET answer == job[w][r] IN
  /\ answer \in AnswerKinds
  /\ IF Owns(w, r)
     THEN /\ row' = [row EXCEPT ![r] = Finished(r, answer, token[w][r])]
          /\ lapsed' = Drop(r)
          /\ copy' = Overtaken(r)
          /\ intent' = [intent EXCEPT ![r] =
                          IF answer \in {"ready", "waiting"} THEN "succeeded" ELSE "failed"]
          /\ lost' = lost \ {r}
          /\ settled' = settled \cup {r}
     ELSE UNCHANGED <<row, lapsed, copy, intent, lost, settled>>
  /\ SetJob(w, r, "none")
  /\ token' = [token EXCEPT ![w][r] = 0]
  /\ UNCHANGED <<people, named, human, release, worker, provider, faults, resumed>>

-----------------------------------------------------------------------------
(* Termination: the event's handler, the sweep, and release_step.          *)

\* The bindings a releasing worker read, and the jobs it takes on.
TakeOn(w, e, jobs) ==
  /\ Idle(w)
  /\ job' = [job EXCEPT ![w] = jobs]
  /\ token' = [token EXCEPT ![w] =
       [r \in Resources |-> IF jobs[r] = "toRelease" THEN row[r].binding ELSE 0]]
  /\ phase' = [phase EXCEPT ![w] = "release"]
  /\ emp' = [emp EXCEPT ![w] = e]
  /\ UNCHANGED copy

\* on_terminated: release_all of whatever is bound. Nothing bound is a success.
OnTerminated(w, e) ==
  /\ notices[e] > 0
  /\ notices' = [notices EXCEPT ![e] = @ - 1]
  /\ TakeOn(w, e, [r \in Resources |->
       IF r \in Steps(e) /\ row[r].binding # 0 THEN "toRelease" ELSE "none"])
  /\ UNCHANGED <<people, store, human, sweeps, escalated, todo, provider, faults, history>>

\* sweep: the claim counts the attempt; one past the cap asks a human instead.
Sweep(w, e) ==
  /\ \E S \in SUBSET {r \in Steps(e) : Sweepable(r)} :
       /\ S # {}
       /\ sweeps' = [r \in Resources |-> IF r \in S THEN sweeps[r] + 1 ELSE sweeps[r]]
       /\ TakeOn(w, e, [r \in Resources |->
            IF r \notin S THEN "none"
            ELSE IF sweeps[r] < MaxAttempts THEN "toRelease" ELSE "toEscalate"])
  /\ UNCHANGED <<people, store, human, escalated, notices, todo, provider, faults, history>>

\* release_order: dependents first, one at a time.
MayRelease(w, r) ==
  /\ job[w][r] = "toRelease"
  /\ \A s \in Resources :
       /\ job[w][s] \notin Outcomes
       /\ r \in DependsOn[s] => job[w][s] # "toRelease"

\* release_call: gone (or already gone), refused, or structurally impossible.
CallRelease(w, r) ==
  /\ MayRelease(w, r)
  /\ \/ /\ SetJob(w, r, "released")
        /\ held' = [held EXCEPT ![r] = IF @ = token[w][r] THEN 0 ELSE @]
     \/ /\ SetJob(w, r, "refused")
        /\ held' = held \/ held' = [held EXCEPT ![r] = IF @ = token[w][r] THEN 0 ELSE @]
     \/ /\ SetJob(w, r, "unreleasable")
        /\ held' = held
  /\ UNCHANGED <<people, store, human, release, worker, token, copy, bought, faults, history>>

\* release_step loads the employee again, and locks nothing.
ReadBack(w, r) ==
  /\ job[w][r] \in Outcomes
  /\ copy[w] = NoCopy
  /\ copy' = [copy EXCEPT ![w] =
       [is |-> "fresh", state |-> row[r].state, binding |-> row[r].binding]]
  /\ UNCHANGED <<people, store, human, release, worker, job, token, provider, faults, history>>

\* The provider has let go of the binding this release asked about, and of no
\* other the copy may hold.
Mut_UnbindAny(w, r) == 0
Unbound(w, r) == IF copy[w].binding = token[w][r] THEN 0 ELSE copy[w].binding

\* The row as the copy has it; a refusal keeps the binding.
Saved(w, r) ==
  IF job[w][r] = "released"
  THEN [row[r] EXCEPT !.state = "disabled", !.binding = Unbound(w, r)]
  ELSE [row[r] EXCEPT !.state = IF copy[w].state = "disabled" THEN "disabled" ELSE "failed",
                      !.binding = copy[w].binding]

\* set_resource refuses disabled -> failed: that copy keeps its old updated_at.
Restamps(w, r) == job[w][r] = "released" \/ copy[w].state # "disabled"

Verdict(w, r) == CASE job[w][r] = "released" -> "none"
                   [] job[w][r] = "refused" -> "retryable"
                   [] job[w][r] = "unreleasable" -> "unreleasable"

\* employee::update saves the copy and record_release the verdict. A row that
\* was written behind the copy is overwritten, or kept where its updated_at is
\* the later one: the instants were read before either transaction.
RecordRelease(w, r) ==
  /\ job[w][r] \in Outcomes
  /\ \/ /\ copy[w].is = "fresh" \/ (copy[w].is = "moved" /\ Restamps(w, r))
        /\ row' = [row EXCEPT ![r] = [Saved(w, r) EXCEPT !.error = Verdict(w, r)]]
     \/ /\ copy[w].is = "moved"
        /\ row' = [row EXCEPT ![r].error = Verdict(w, r)]
  /\ copy' = Outdated(w)
  /\ SetJob(w, r, "none")
  /\ token' = [token EXCEPT ![w][r] = 0]
  /\ UNCHANGED <<people, lapsed, intent, named, human, release, worker, provider, faults, history>>

\* escalate_release, once the releases of this pass are done.
Escalate(w, r) ==
  /\ job[w][r] = "toEscalate"
  /\ \A s \in Resources : job[w][s] \in {"none", "toEscalate"}
  /\ escalated' = escalated \cup {r}
  /\ SetJob(w, r, "none")
  /\ UNCHANGED <<people, store, human, sweeps, notices, worker, token, copy, provider, faults, history>>

EndRelease(w) ==
  /\ phase[w] = "release" /\ NoJobs(w)
  /\ phase' = [phase EXCEPT ![w] = "idle"]
  /\ emp' = [emp EXCEPT ![w] = Nobody]
  /\ UNCHANGED <<people, store, human, release, todo, desk, provider, faults, history>>

-----------------------------------------------------------------------------
(* Faults.                                                                 *)

\* The calls of w whose answer nobody will ever record.
Orphans(w) ==
  {r \in Resources : Owns(w, r) /\ job[w][r] \in {"calling"} \cup AnswerKinds}

\* Everything w was doing stops where it was; only the database remains.
Abandon(w, next) ==
  /\ phase' = [phase EXCEPT ![w] = next]
  /\ emp' = [emp EXCEPT ![w] = Nobody]
  /\ todo' = [todo EXCEPT ![w] = {}]
  /\ job' = [job EXCEPT ![w] = [r \in Resources |-> "none"]]
  /\ token' = [token EXCEPT ![w] = [r \in Resources |-> 0]]
  /\ copy' = [copy EXCEPT ![w] = NoCopy]
  /\ lost' = lost \cup Orphans(w)

\* The process dies; its worker id never comes back.
Crash(w) ==
  /\ phase[w] # "dead"
  /\ crashes < MaxCrashes
  /\ crashes' = crashes + 1
  /\ Abandon(w, "dead")
  /\ UNCHANGED <<people, store, human, release, provider, errors, settled, resumed>>

\* A database error ends the pass: run_wave drops its other steps mid-call,
\* or a release stops with the rest of its steps. The worker lives on.
Abort(w) ==
  /\ phase[w] \in {"waves", "release"}
  /\ errors < MaxErrors
  /\ errors' = errors + 1
  /\ Abandon(w, "idle")
  /\ UNCHANGED <<people, store, human, release, provider, crashes, settled, resumed>>

\* The save of a release finds another version: the pass ends in an error.
LosesRace(w) ==
  /\ copy[w].is = "stale"
  /\ Abandon(w, "idle")
  /\ UNCHANGED <<people, store, human, release, provider, faults, settled, resumed>>

-----------------------------------------------------------------------------
(* Time, operators and the company.                                        *)

LeaseLapses(r) ==
  /\ row[r].lease = "live"
  /\ row' = [row EXCEPT ![r].lease = "lapsed"]
  /\ lapsed' = Append(lapsed, r)
  /\ UNCHANGED <<people, intent, named, human, release, worker, desk, provider, faults, history>>

\* expected_by has passed.
WaitRunsOut(r) ==
  /\ row[r].state = "waiting"
  /\ row' = [row EXCEPT ![r].state = "overdue"]
  /\ UNCHANGED <<people, lapsed, intent, named, human, release, worker, desk, provider, faults,
                 history>>

\* A human redeems the k-th reconciliation approval of r.
Redeem(r, k) ==
  /\ k \in (1..asked[r]) \ accord[r]
  /\ Cardinality(accord[r]) < MaxAccords
  /\ accord' = [accord EXCEPT ![r] = @ \cup {k}]
  /\ UNCHANGED <<people, store, asked, release, worker, desk, provider, faults, history>>

\* set_lifecycle; Terminated is absorbing.
Suspend(e) ==
  /\ e \in Suspendable /\ lifecycle[e] = "active"
  /\ lifecycle' = [lifecycle EXCEPT ![e] = "suspended"]
  /\ UNCHANGED <<stopped, crowded, store, human, release, worker, desk, provider, faults, history>>

Reinstate(e) ==
  /\ lifecycle[e] = "suspended"
  /\ lifecycle' = [lifecycle EXCEPT ![e] = "active"]
  /\ UNCHANGED <<stopped, crowded, store, human, release, worker, desk, provider, faults, history>>

Terminate(e) ==
  /\ e \in Terminable /\ lifecycle[e] # "terminated"
  /\ lifecycle' = [lifecycle EXCEPT ![e] = "terminated"]
  /\ crowded' = crowded \ {e}
  /\ notices' = [notices EXCEPT ![e] = 1]
  /\ UNCHANGED <<stopped, store, human, sweeps, escalated, worker, desk, provider, faults, history>>

Halt == /\ MayStop
        /\ stopped' = ~stopped
        /\ UNCHANGED <<lifecycle, crowded, store, human, release, worker, desk, provider,
                       faults, history>>

\* CLAIM_SQL reads a batch ORDER BY updated_at, over all companies. Parked rows
\* and rows that wait for a dependency are due and are not written: a batch
\* full of those hides every younger row, for as long as they last.
Crowd(e) ==
  /\ e \in Crowdable /\ lifecycle[e] # "terminated"
  /\ crowded' = IF e \in crowded THEN crowded \ {e} ELSE crowded \cup {e}
  /\ UNCHANGED <<lifecycle, stopped, store, human, release, worker, desk, provider, faults,
                 history>>

-----------------------------------------------------------------------------
StepOf(w, r) ==
  \/ FindsCrash(w, r) \/ Park(w, r) \/ TurnedAway(w, r)
  \/ Claim(w, r) \/ Answer(w, r) \/ Record(w, r)
ReleaseOf(w, r) ==
  CallRelease(w, r) \/ ReadBack(w, r) \/ RecordRelease(w, r) \/ Escalate(w, r)

Next ==
  \/ \E w \in Workers :
       \/ \E e \in Employees : Pick(w, e) \/ OnTerminated(w, e) \/ Sweep(w, e)
       \/ \E r \in Resources : StepOf(w, r) \/ ReleaseOf(w, r)
       \/ Wave(w) \/ EndWaves(w) \/ EndRelease(w)
       \/ LosesRace(w) \/ Crash(w) \/ Abort(w)
  \/ \E r \in Resources :
       \/ LeaseLapses(r) \/ WaitRunsOut(r)
       \/ \E k \in 1..asked[r] : Redeem(r, k)
  \/ \E e \in Employees : Suspend(e) \/ Reinstate(e) \/ Terminate(e) \/ Crowd(e)
  \/ Halt

Spec == Init /\ [][Next]_vars

\* Each tick claims, drives and sweeps, so a live worker neither converges nor
\* releases at the other's cost; every call and query in a pass is bounded;
\* time passes. Nothing is assumed of people: nobody need redeem, reinstate,
\* terminate or lift a stop.
Fairness ==
  /\ \A w \in Workers :
       /\ \A e \in Employees : SF_vars(Pick(w, e)) /\ SF_vars(Sweep(w, e))
       /\ \A r \in Resources : WF_vars(StepOf(w, r)) /\ WF_vars(ReleaseOf(w, r))
       /\ WF_vars(Wave(w)) /\ WF_vars(EndWaves(w)) /\ WF_vars(EndRelease(w))
       /\ WF_vars(LosesRace(w))
  /\ \A r \in Resources : WF_vars(LeaseLapses(r)) /\ WF_vars(WaitRunsOut(r))

FairSpec == Spec /\ Fairness

-----------------------------------------------------------------------------
(* Properties.                                                             *)

\* The write-ahead log: while the first answer is still to come, a call that
\* died unrecorded is never forgotten; its intent says in flight, or is
\* orphaned under a question to a human (begin_intent before the call).
DeathLeavesEvidence ==
  \A r \in lost \ settled : intent[r] \in {"in_flight", "orphaned"}

\* The accord is consumed by the resumption: an orphaned step is put back in
\* flight at most once per approval a human redeemed.
AccordSpentOnce == \A r \in Resources : resumed[r] <= Cardinality(accord[r])

\* A step whose first call died with its process is parked for a human, never
\* called again blindly, whoever meets it and however often processes die.
FirstDeathIsParked ==
  [][\A w \in Workers, r \in lost \ settled :
       (job[w][r] # "calling" /\ job'[w][r] = "calling") => r \notin lost']_vars

\* A ready step stays ready and bound until its employee is terminated: no
\* late answer of a worker that lost its lease and no second claim undoes it.
ReadyStays ==
  [][\A r \in Resources :
       (Ready(r) /\ lifecycle[EmployeeOf[r]] # "terminated")
       => (Ready(r)' /\ row'[r].binding = row[r].binding)]_vars

\* Dependency order survives every interleaving of waves planned on
\* snapshots: while its employee is employed, a ready step has ready
\* dependencies (plan_wave, first_unmet).
DependenciesReady ==
  \A r \in Resources :
    (Ready(r) /\ lifecycle[EmployeeOf[r]] # "terminated") => ~Unmet(r)

\* The write is a release's save, of a copy older than the row's binding.
SavedBehind(r) ==
  \E w \in Workers :
    /\ job[w][r] \in Outcomes /\ job'[w][r] = "none"
    /\ copy[w].is = "moved" /\ copy[w].binding # row[r].binding

\* Ask the provider first, clear the binding second: a row forgets a binding
\* only once the provider no longer runs that purchase, or in the save of a
\* release that had loaded the row before finish_step recorded the binding.
NothingForgotten ==
  [][\A r \in Resources :
       (row[r].binding # 0 /\ row'[r].binding # row[r].binding)
       => held[r] # row[r].binding \/ SavedBehind(r)]_vars

\* A call whose outcome is unknown reaches a human, even while the company is
\* stopped, unless its employee is retired first or an answer turns up: where
\* the head of the queue is not for ever taken by rows nobody moves.
UnknownReachesHuman ==
  \A r \in Resources :
    <>[](EmployeeOf[r] \notin crowded)
    => ((r \in lost /\ intent[r] = "in_flight")
          ~> (intent[r] # "in_flight" \/ lifecycle[EmployeeOf[r]] # "active"))

\* What a terminated employee has bound is unbound in the end, or its provider
\* structurally refuses, or the sweep has used its attempts on it.
BoundIsGivenBack ==
  \A r \in Resources :
    (lifecycle[EmployeeOf[r]] = "terminated" /\ row[r].binding # 0)
      ~> (row[r].binding = 0 \/ row[r].error = "unreleasable" \/ sweeps[r] > MaxAttempts)

-----------------------------------------------------------------------------
(* What the documentation says and the code does not do.                   *)

\* The loop's header: the engine parks, rather than retries, any step whose
\* provider call may already have landed; begin_intent's comment: whoever dies
\* before finish_step leaves the intent in flight for the sweep to find.
NoBlindRetry ==
  [][\A w \in Workers, r \in lost :
       (job[w][r] # "calling" /\ job'[w][r] = "calling") => r \notin lost']_vars

=============================================================================
