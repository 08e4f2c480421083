------------------------------- MODULE Outbox -------------------------------
(***************************************************************************)
(* The transactional outbox: the `outbox_events` table of                  *)
(* crates/store/src/outbox.rs and the pollers of                           *)
(* apps/server/src/loops/outbox.rs that drain it.                          *)
(*                                                                         *)
(* Covered: enqueue with its dedupe key, the one-statement claim with its  *)
(* unlocked snapshot and its locked recheck, the lease that expires by     *)
(* itself, the per-tenant handler tasks, the three outcomes of a handler   *)
(* (mark_done, mark_failed, park), failures that are never recorded, task  *)
(* panics, poller crashes and restarts, the company stop, and the operator *)
(* verb that revives dead letters.                                         *)
(*                                                                         *)
(* Abstracted: `available_at` is `available`, in the past or in the future *)
(* of the clock; the order of a tenant's due events is any order, so a     *)
(* seat number is chosen and not computed from instants; the connection    *)
(* pool and MAX_CONCURRENT_TENANTS, which only delay. Locking and updating *)
(* the rows of a claim is one step. The row locks of every other           *)
(* transaction that ends up leaving the row as it was (enqueue's upsert of *)
(* a row that exists, a requeue or a report that is rolled back, a claim   *)
(* that fails) are `locked`: a claim skips such a row while it is due, and *)
(* a writer waits for it.                                                  *)
(*                                                                         *)
(* An operator named Mut_<Bug> is a plausible bug in the definition that   *)
(* follows it. No specification uses it: a run must tell it from the code. *)
(***************************************************************************)
EXTENDS Integers, FiniteSets

CONSTANTS
  Events,        \* ids of events some business transaction may enqueue
  Tenants,       \* the companies
  TenantOf,      \* [Events -> Tenants]: outbox_events.tenant_id
  Pollers,       \* replicas of the server process running the outbox loop
  MaxAttempts,   \* MAX_ATTEMPTS, 8 in the code
  Limit,         \* BATCH, 32 in the code
  Headroom,      \* POLLER_HEADROOM, 4 in the code
  MaxLocked,     \* bound of the model: rows other transactions hold at a time
  MaxRevivals,   \* bound of the model: requeues of one event by an operator
  MaxCrashes     \* bound of the model: poller processes lost

ASSUME OutboxAssumption ==
  /\ TenantOf \in [Events -> Tenants]
  /\ IsFiniteSet(Pollers)
  /\ MaxAttempts \in Nat \ {0}
  /\ Limit \in Nat \ {0}
  /\ Headroom \in Nat \ {0}
  /\ MaxLocked \in Nat
  /\ MaxRevivals \in Nat
  /\ MaxCrashes \in Nat

VARIABLES
  row,        \* the table: one record per event id
  stopped,    \* tenants with a company_halts row or an ended window
  locked,     \* rows an open transaction holds, and will leave as they are
  phase,      \* what each poller is doing
  shortlist,  \* the unlocked snapshot of a poller's running claim
  job,        \* job[p][e]: where poller p is with event e of its batch
  crashes,    \* processes lost so far (bounded)
  \* history, read by properties only
  applied,    \* how many committed transactions carried e's state change
  runs,       \* how many times a handler was invoked on e
  lease,      \* pollers whose lease on e has not run out
  revived     \* how often an operator gave e its attempts back

table   == <<row, stopped, locked>>
pollers == <<phase, shortlist, job>>
history == <<applied, runs, lease, revived>>
vars    == <<table, pollers, crashes, history>>

Reasons == {"retry", "terminal", "unremediable"}

Row == [status   : {"absent", "pending", "published"},
        attempts : 0..MaxAttempts,
        available : {"past", "future"},
        error    : Reasons \cup {"none"}]

JobState == {"none", "queued", "running"} \cup Reasons

TypeOK ==
  /\ row \in [Events -> Row]
  /\ stopped \in SUBSET Tenants
  /\ locked \in SUBSET Events
  /\ phase \in [Pollers -> {"idle", "claiming", "down"}]
  /\ shortlist \in [Pollers -> SUBSET Events]
  /\ job \in [Pollers -> [Events -> JobState]]
  /\ crashes \in 0..MaxCrashes
  /\ applied \in [Events -> Nat]
  /\ runs \in [Events -> Nat]
  /\ lease \in [Events -> SUBSET Pollers]
  /\ revived \in [Events -> 0..MaxRevivals]

-----------------------------------------------------------------------------
(* The predicates the SQL is built from.                                   *)

Fresh  == [status |-> "pending", attempts |-> 0, available |-> "past", error |-> "none"]
Absent == [status |-> "absent", attempts |-> 0, available |-> "future", error |-> "none"]

Mut_ClaimUncounted(r) == [r EXCEPT !.available = "future"]

\* A claim's UPDATE: the attempt is counted now, and available_at becomes the
\* lease, LEASE_SECS plus the backoff.
Claimed(r) == [r EXCEPT !.attempts = @ + 1, !.available = "future"]

\* mark_failed writes the reason; park also burns the attempt counter.
Failed(r, why) ==
  IF why = "retry" THEN [r EXCEPT !.error = why]
                   ELSE [r EXCEPT !.attempts = MaxAttempts, !.error = why]

Unpublished(e) == row[e].status = "pending"

Mut_DueNoCap(e) ==
  /\ Unpublished(e)
  /\ row[e].available = "past"
  /\ row[e].attempts <= MaxAttempts

Mut_DueUnfailed(e) ==
  /\ Unpublished(e)
  /\ row[e].available = "past"
  /\ row[e].attempts < MaxAttempts
  /\ row[e].error = "none"

DueRow(e) ==
  /\ Unpublished(e)
  /\ row[e].available = "past"
  /\ row[e].attempts < MaxAttempts

Mut_DeadLetterPublished(e) == row[e].attempts >= MaxAttempts

DeadLetter(e) == Unpublished(e) /\ row[e].attempts >= MaxAttempts

Mut_ClaimableStopped == {e \in Events : DueRow(e)}

\* What the `seated` node may read: due rows of tenants that are not stopped.
Claimable == {e \in Events : DueRow(e) /\ TenantOf[e] \notin stopped}

OfTenant(S, t) == {e \in S : TenantOf[e] = t}
AtMost(n, S)   == IF Cardinality(S) < n THEN Cardinality(S) ELSE n

\* row_number() within each tenant, over some order of its events.
Seatings(S) ==
  {seat \in [S -> 1..Cardinality(S)] :
     \A t \in Tenants :
       {seat[e] : e \in OfTenant(S, t)} = 1..Cardinality(OfTenant(S, t))}

Mut_FirstByAge(P, S, n, seat) == P \subseteq S /\ Cardinality(P) = AtMost(n, S)

\* The n first of S (or all of S) in seat order, ties in any order.
FirstBySeat(P, S, n, seat) ==
  /\ P \subseteq S
  /\ Cardinality(P) = AtMost(n, S)
  /\ \A e \in P, f \in S \ P : seat[e] <= seat[f]

Shortlists ==
  {P \in SUBSET Claimable :
     \E seat \in Seatings(Claimable) :
       FirstBySeat(P, Claimable, Limit * Headroom, seat)}

Mut_BatchesUnchecked(S) ==
  {B \in SUBSET S : \E seat \in Seatings(S) : FirstBySeat(B, S, Limit, seat)}

\* The batches a claim may lock, given its shortlist: SKIP LOCKED passes over
\* the rows others hold, and the due-ness predicate is evaluated again on the
\* locked version of each of the rest.
Batches(S) ==
  LET due == {e \in S : DueRow(e) /\ e \notin locked}
  IN {B \in SUBSET due :
        \E seat \in Seatings(S) : FirstBySeat(B, due, Limit, seat)}

Idle(p)        == phase[p] = "idle" /\ \A e \in Events : job[p][e] = "none"
TenantBusy(p, t) ==
  \E e \in OfTenant(Events, t) : job[p][e] \notin {"none", "queued"}

\* Some poller has e on a shortlist or in its batch.
Held(e) == \E p \in Pollers : e \in shortlist[p] \/ job[p][e] # "none"

SetJob(p, e, s) == job' = [job EXCEPT ![p][e] = s]

-----------------------------------------------------------------------------
Init ==
  /\ row = [e \in Events |-> Absent]
  /\ stopped = {}
  /\ locked = {}
  /\ phase = [p \in Pollers |-> "idle"]
  /\ shortlist = [p \in Pollers |-> {}]
  /\ job = [p \in Pollers |-> [e \in Events |-> "none"]]
  /\ crashes = 0
  /\ applied = [e \in Events |-> 0]
  /\ runs = [e \in Events |-> 0]
  /\ lease = [e \in Events |-> {}]
  /\ revived = [e \in Events |-> 0]

\* outbox::enqueue: a row that already exists, published or not, is left alone.
Enqueue(e) ==
  /\ row' = [row EXCEPT ![e] = IF @.status = "absent" THEN Fresh ELSE @]
  /\ UNCHANGED <<stopped, locked, pollers, crashes, history>>

\* A transaction that will not change e takes its row lock (ON CONFLICT DO
\* UPDATE SET id = id, or an UPDATE that will be rolled back), and ends. The
\* lock of a row that is not due only makes its writers wait: it is left out.
Seize(e) ==
  /\ DueRow(e) /\ e \notin locked
  /\ Cardinality(locked) < MaxLocked
  /\ locked' = locked \cup {e}
  /\ UNCHANGED <<row, stopped, pollers, crashes, history>>

LetGo(e) ==
  /\ e \in locked
  /\ locked' = locked \ {e}
  /\ UNCHANGED <<row, stopped, pollers, crashes, history>>

\* halt::place (or an operating window running out) and halt::release.
Stop(t) ==
  /\ t \notin stopped
  /\ stopped' = stopped \cup {t}
  /\ UNCHANGED <<row, locked, pollers, crashes, history>>

Resume(t) ==
  /\ t \in stopped
  /\ stopped' = stopped \ {t}
  /\ UNCHANGED <<row, locked, pollers, crashes, history>>

\* Time passes: `available_at` of an unpublished event is in the past.
LeaseExpires(e) ==
  /\ Unpublished(e) /\ row[e].available = "future"
  /\ row' = [row EXCEPT ![e].available = "past"]
  /\ lease' = [lease EXCEPT ![e] = {}]
  /\ UNCHANGED <<stopped, locked, pollers, crashes, applied, runs, revived>>

-----------------------------------------------------------------------------
(* One tick: claim_of in a transaction of its own, committed before any    *)
(* handler runs.                                                           *)

\* CTEs `seated` and `shortlist`, under the statement's snapshot.
ClaimSnapshot(p) ==
  /\ Idle(p)
  /\ Claimable # {}
  /\ \E S \in Shortlists : shortlist' = [shortlist EXCEPT ![p] = S]
  /\ phase' = [phase EXCEPT ![p] = "claiming"]
  /\ UNCHANGED <<table, job, crashes, history>>

\* CTE `due` (FOR UPDATE SKIP LOCKED, with its recheck), the UPDATE, COMMIT.
ClaimCommit(p) ==
  /\ phase[p] = "claiming"
  /\ \E B \in Batches(shortlist[p]) :
       /\ row' = [e \in Events |->
                    IF e \in B THEN Claimed(row[e]) ELSE row[e]]
       /\ job' = [job EXCEPT ![p] = [e \in Events |->
                    IF e \in B THEN "queued" ELSE "none"]]
       /\ lease' = [e \in Events |-> IF e \in B THEN lease[e] \cup {p} ELSE lease[e]]
  /\ phase' = [phase EXCEPT ![p] = "idle"]
  /\ shortlist' = [shortlist EXCEPT ![p] = {}]
  /\ UNCHANGED <<stopped, locked, crashes, applied, runs, revived>>

\* The claim's transaction failed: "outbox claim failed", and the loop idles.
ClaimFails(p) ==
  /\ phase[p] = "claiming"
  /\ phase' = [phase EXCEPT ![p] = "idle"]
  /\ shortlist' = [shortlist EXCEPT ![p] = {}]
  /\ UNCHANGED <<table, job, crashes, history>>

-----------------------------------------------------------------------------
(* handle: one task per tenant of the batch, its events one at a time.     *)

StartHandler(p, e) ==
  /\ job[p][e] = "queued"
  /\ ~TenantBusy(p, TenantOf[e])
  /\ SetJob(p, e, "running")
  /\ runs' = [runs EXCEPT ![e] = @ + 1]
  /\ UNCHANGED <<table, phase, shortlist, crashes, applied, lease, revived>>

\* No handler is registered for the type, or no tenant transaction opened.
CannotStart(p, e) ==
  /\ job[p][e] = "queued"
  /\ ~TenantBusy(p, TenantOf[e])
  /\ SetJob(p, e, "retry")
  /\ UNCHANGED <<table, phase, shortlist, crashes, history>>

Mut_PublishTwice(p, e) ==
  /\ job[p][e] = "running"
  /\ row' = [row EXCEPT ![e].status = "published", ![e].error = "none"]
  /\ applied' = [applied EXCEPT ![e] = @ + 1]
  /\ SetJob(p, e, "none")
  /\ UNCHANGED <<stopped, locked, phase, shortlist, crashes, runs, lease, revived>>

\* The handler returned Ok: mark_done and the handler's writes commit
\* together, or mark_done finds no unpublished row and both roll back.
HandlerSucceeds(p, e) ==
  /\ job[p][e] = "running" /\ e \notin locked
  /\ \/ /\ Unpublished(e)
        /\ row' = [row EXCEPT ![e].status = "published", ![e].error = "none"]
        /\ applied' = [applied EXCEPT ![e] = @ + 1]
        /\ SetJob(p, e, "none")
     \/ /\ ~Unpublished(e)
        /\ SetJob(p, e, "retry")
        /\ UNCHANGED <<row, applied>>
  /\ UNCHANGED <<stopped, locked, phase, shortlist, crashes, runs, lease, revived>>

\* The handler returned Ok and the COMMIT failed: nothing is written.
CommitLost(p, e) ==
  /\ job[p][e] = "running"
  /\ SetJob(p, e, "none")
  /\ UNCHANGED <<table, phase, shortlist, crashes, history>>

\* The handler returned Err: its transaction is rolled back.
HandlerFails(p, e) ==
  /\ job[p][e] = "running"
  /\ \E why \in Reasons : SetJob(p, e, why)
  /\ UNCHANGED <<table, phase, shortlist, crashes, history>>

\* fail: mark_failed for a Retry, park for a Terminal, in a transaction of
\* its own. Neither asks which attempt it is reporting on.
RecordFailure(p, e) ==
  LET why == job[p][e] IN
  /\ why \in Reasons /\ e \notin locked
  /\ row' = [row EXCEPT ![e] =
               IF Unpublished(e) THEN Failed(@, why) ELSE @]
  /\ SetJob(p, e, "none")
  /\ UNCHANGED <<stopped, locked, phase, shortlist, crashes, history>>

\* "could not record an outbox failure": the row keeps its lease.
FailureLost(p, e) ==
  /\ job[p][e] \in Reasons
  /\ SetJob(p, e, "none")
  /\ UNCHANGED <<table, phase, shortlist, crashes, history>>

\* A panic takes the tenant's whole task: its events keep their lease.
TaskPanics(p, t) ==
  /\ \E e \in OfTenant(Events, t) : job[p][e] = "running"
  /\ job' = [job EXCEPT ![p] = [e \in Events |->
               IF TenantOf[e] = t THEN "none" ELSE job[p][e]]]
  /\ UNCHANGED <<table, phase, shortlist, crashes, history>>

Crash(p) ==
  /\ phase[p] # "down"
  /\ crashes < MaxCrashes
  /\ crashes' = crashes + 1
  /\ phase' = [phase EXCEPT ![p] = "down"]
  /\ shortlist' = [shortlist EXCEPT ![p] = {}]
  /\ job' = [job EXCEPT ![p] = [e \in Events |-> "none"]]
  /\ UNCHANGED <<table, history>>

Restart(p) ==
  /\ phase[p] = "down"
  /\ phase' = [phase EXCEPT ![p] = "idle"]
  /\ UNCHANGED <<table, shortlist, job, crashes, history>>

-----------------------------------------------------------------------------
\* outbox::requeue_dead_letters, run by model_access::connect and
\* policy::activate for the whole tenant.
Revivable(t) ==
  {e \in OfTenant(Events, t) : DeadLetter(e) /\ row[e].error # "unremediable"}

RequeueDeadLetters(t) ==
  LET R == Revivable(t) IN
  /\ R # {} /\ R \cap locked = {}
  /\ \A e \in R : revived[e] < MaxRevivals
  /\ row' = [e \in Events |->
               IF e \in R THEN [row[e] EXCEPT !.attempts = 0, !.available = "past"] ELSE row[e]]
  /\ revived' = [e \in Events |-> IF e \in R THEN revived[e] + 1 ELSE revived[e]]
  /\ UNCHANGED <<stopped, locked, pollers, crashes, applied, runs, lease>>

Handle(p, e) ==
  \/ StartHandler(p, e) \/ CannotStart(p, e)
  \/ HandlerSucceeds(p, e) \/ HandlerFails(p, e) \/ CommitLost(p, e)
  \/ RecordFailure(p, e) \/ FailureLost(p, e)

Next ==
  \/ \E e \in Events : Enqueue(e) \/ Seize(e) \/ LetGo(e) \/ LeaseExpires(e)
  \/ \E t \in Tenants : Stop(t) \/ Resume(t) \/ RequeueDeadLetters(t)
  \/ \E p \in Pollers :
       \/ ClaimSnapshot(p) \/ ClaimCommit(p) \/ ClaimFails(p)
       \/ Crash(p) \/ Restart(p)
       \/ \E e \in Events : Handle(p, e)
       \/ \E t \in Tenants : TaskPanics(p, t)

Spec == Init /\ [][Next]_vars

\* The process is restarted when it dies, every await in the loop is bounded
\* (a turn has a deadline, a provider call a timeout), time passes, and a
\* claim that is retried forever does not fail forever.
Fairness ==
  /\ \A e \in Events : WF_vars(LeaseExpires(e))
  /\ \A p \in Pollers :
       /\ WF_vars(ClaimSnapshot(p))
       /\ SF_vars(ClaimCommit(p))
       /\ WF_vars(Restart(p))
       /\ \A e \in Events : WF_vars(Handle(p, e))

FairSpec == Spec /\ Fairness

-----------------------------------------------------------------------------
(* Properties.                                                             *)

\* Exactly once inside the database: however many pollers hold, lose, retake
\* and finish the same event, its handler's transaction committed once if it
\* is published and never otherwise (mark_done's WHERE published_at IS NULL,
\* in the handler's own transaction).
AppliedOnce ==
  \A e \in Events : applied[e] = IF row[e].status = "published" THEN 1 ELSE 0

\* A poison event cannot loop: the attempt is burnt by the claim and not by
\* the outcome, so a handler that kills its process every time is still
\* invoked at most MAX_ATTEMPTS times between two interventions.
PoisonBounded ==
  \A e \in Events : runs[e] <= MaxAttempts * (revived[e] + 1)

\* Pollers holding the event under a lease that has not run out.
Holders(e) == {p \in lease[e] : job[p][e] # "none"}

\* LEASE_SECS: while a claimant's lease has not run out, no other poller holds
\* the event, as long as no operator has handed the event back.
LeaseIsExclusive ==
  \A e \in Events : revived[e] = 0 => Cardinality(Holders(e)) <= 1

\* A stop defers and does not burn: from the moment a tenant is stopped and
\* no claim that began earlier still holds its event, no poller takes hold of
\* the event and it loses no attempt, until the stop is lifted.
StopDefersEvents ==
  [][\A e \in Events :
       (~Held(e) /\ TenantOf[e] \in stopped /\ row[e].status # "absent")
       => ~Held(e)' /\ row'[e].attempts <= row[e].attempts]_vars

\* Round robin: a batch holds a second event of some tenant only if every
\* other shortlisted tenant got a seat in it, or had an event of its own that
\* another poller took meanwhile or another transaction held; and a tenant with a due event is shortlisted
\* unless there are more such tenants than seats on the shortlist.
SeatedFairly ==
  [][\A p \in Pollers :
       LET batch  == {e \in Events : job[p][e] = "none" /\ job'[p][e] = "queued"}
           listed == shortlist[p]
           due    == {TenantOf[e] : e \in Claimable}
       IN /\ (\E t \in Tenants : Cardinality(OfTenant(batch, t)) > 1)
             => \A e \in listed :
                  \/ OfTenant(batch, TenantOf[e]) # {}
                  \/ \E f \in OfTenant(listed, TenantOf[e]) : ~DueRow(f) \/ f \in locked
          /\ (phase[p] = "idle" /\ phase'[p] = "claiming"
                /\ Cardinality(due) <= Limit * Headroom)
             => due \subseteq {TenantOf[e] : e \in shortlist'[p]}]_vars

\* Every event of a company that is not stopped for good, and whose row other
\* transactions do not go on holding in front of the claims, is published or
\* ends among the dead letters, where a person sees it.
EverythingSettles ==
  \A e \in Events :
    <>[](TenantOf[e] \notin stopped /\ e \notin locked)
      => (Unpublished(e) ~> (row[e].status = "published" \/ DeadLetter(e)))

\* The table implements the promise in Delivery.tla.
Promise == INSTANCE Delivery WITH
  item <- [e \in Events |-> [status  |-> row[e].status,
                            tries   |-> row[e].attempts,
                            effects |-> applied[e]]]
ImplementsDelivery == Promise!Spec
=============================================================================
