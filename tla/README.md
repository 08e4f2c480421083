# Formal models of Agent Employee OS

TLA+ models of the parts of this repository that decide something while other tasks, replicas
and people act on the same rows: the transactional outbox, the provisioning engine and the pool
of phone numbers it draws from, the Policy Gate's payments with their ledgers, the inbound
pipeline, the questions employees ask each other, the wakes and turns that make them act, and
the sequences built on those. Each model is checked by TLC on small instances, and each has
TLAPS proofs for every value of its constants. `PROJECT.json` maps every definition to the lines
it models and lists the runs, their mutants, the theorems, the findings and the hazards.

```sh
tlc -workers 2 -config OutboxPoison.cfg MCOutbox   # one run; see "Runs" for all of them
tlapm Outbox_proofs.tla                            # 1428 obligations, a minute and a half
tlapm Payments_proofs.tla                          # 3088 obligations, three minutes
tlapm PhonePool_proofs.tla                         # 737 obligations, half a minute
tlapm Wakes_proofs.tla                             # 976 obligations, a minute
tlapm Inbound_proofs.tla                           # 1149 obligations, a minute
tlapm Questions_proofs.tla                         # 591 obligations, half a minute
tlapm Provisioning_proofs.tla                      # 2062 obligations, two minutes
tlapm SequenceRuns_proofs.tla                      # 2426 obligations, three minutes
```

## The system

A Rust workspace over PostgreSQL. `agentos-domain` holds pure types and the policy evaluator;
`agentos-store` the schema and nearly all SQL, inside a `TenantTx`; `agentos-providers` the
clients of the outside world; `agentos-app` the orchestration; `agentos-server` the HTTP control
plane and the background loops (provisioning, outbox, inbound, initiative, patience, sequence,
discovery, citation, digest). `apps/social` is a second binary with its own database;
`agentos-eval`, `packages/docker-mcp` and the plugin are tooling. Several replicas of the server
may run against one database.

Two rules carry the design. *The LLM proposes, Rust decides*: a side effect needs an
`Authorized<A>` that only the Policy Gate mints. *Documents are data*: what comes from outside
is `Untrusted<T>`. The type system enforces both; what it cannot see is what other transactions
do between two statements, and that is what these models are about.

### Inventory

| Component | State it keeps | Operations | Hard behaviour | Makes it correct |
|---|---|---|---|---|
| Outbox (`store/outbox.rs`, `loops/outbox.rs`) | `outbox_events`: attempts, `available_at` as lease, `last_error` | enqueue, claim, handle, mark done / failed / park, requeue | claims on an unlocked snapshot, leases that lapse under a running handler, poison events, stops | one effect per event, bounded invocations, nobody starved, everything settles |
| Provisioning (`app/provisioning.rs`, `store/provisioning.rs`, `loops/provisioning.rs`) | `employee_resources`, `provider_intents`, release counters | waves, claim, provider call, finish, reap, release sweep, escalate | process dies mid-purchase, late answers, plans on stale snapshots, termination meanwhile | nothing bought blindly twice, nothing forgotten, what is bound is given back |
| Gate and payments (`app/gate.rs`, `store/spend.rs`, `store/org.rs`, `store/approvals.rs`, `app/effects.rs`) | seat and team buckets, reservations, approvals, intents | decide, request / redeem / deny approval, reserve, pay, settle, release | decisions read before the lock, several row locks, a rail not heard from | caps hold, ledgers add up, one accord one payment, no lock cycle |
| Inbound pipeline (`routes/webhooks.rs`, `main.rs`, `app/inbound.rs`, `loops/inbound.rs`) | stored deliveries, notices, threads, messages, turns, tickets, suppressions | store, file a notice, claim, fetch, land, refuse, hand over, requeue | duplicate and reordered webhooks, bodies that arrive late, leases that lapse under a worker, a thread that changes hands | a message lands once with its turn, nothing published is lost, a contact has one thread |
| Internal questions, patience loop (`app/inbound.rs` `send`, `loops/patience.rs`) | messages; "unanswered" is derived | send, check pending, reserve, answer for silence | statements at READ COMMITTED with other transactions in between | a wake is paid for, one question is open, silence is answered |
| Turns and the daily turn budget (`store/turns.rs`) | slots per employee and day | reserve | crash loops after the model was called | the model is never billed past the budget |
| Initiative, calendar, wakes (`store/initiative.rs`, `store/calendar.rs`, `loops/initiative.rs`) | `next_initiative_at`, appointments | claim and reschedule, ring, cancel, postpone | two replicas list the same row; a shutdown in mid-batch | a promise rings once, beats are an interval apart, what is due is taken |
| Sequences (`app/sequence.rs`, `loops/sequence.rs`) | runs and their step, promises | advance in all its branches, sent, replied, unenroll, chase | the outcome of a wake is written by another loop, later, if at all | one turn writes a step, what has ended stays ended |
| Idempotent HTTP (`store/idempotency.rs`, the layer in `main.rs`) | one row per key | begin, complete, release | a handler dies holding the key, or its claim is never acknowledged; refusals give the key back | a request whose success was read is applied no more, a key is wedged by faults only |
| Phone pool (`store/phone_pool.rs`, `routes/pool.rs`) | numbers and seats | register, take a seat in two statements, release | a seat taken between snapshot and lock; a lease lost on the way | capacity holds, step and seat agree |
| Outreach budget | contacts and counts per day | decide, reserve | novelty read before the lock | budget holds |
| Invoices, quotes, sourcing | registers, gap-free numbers | issue, credit | concurrent issue | no gap, no duplicate |
| Policy layers (`domain/policy.rs`) | none (pure) | tighten, evaluate | many layers | a layer only tightens |
| Organisation, missions | memberships, reporting lines | move, assign | concurrent edits | acyclic |
| Other effects, accounts, audit, knowledge, MCP / OAuth / A2A, billing, digest and citation, routes, provider clients, social, eval | see `PROJECT.json` | | | |

They interact through the database. Business transactions enqueue outbox events in the same
transaction as their change (termination's release runs this way); the gate reserves in the
ledger and the executor settles it; the company halt and the employee's lifecycle are read by
every modelled component; approvals are filed and redeemed by the gate and by provisioning's
reconciliation.

## Modules

```
Delivery          what the outbox promises of an event
   ^ implements
Outbox            the table and its pollers        MCOutbox        Outbox_proofs
Provisioning      the engine, loop and sweep       MCProvisioning  Provisioning_proofs
Payments          gate, ledgers, executor          MCPayments      Payments_proofs
PhonePool         seats, numbers, keyed requests   MCPhonePool     PhonePool_proofs
Wakes             cadence, promises, daily turns   MCWakes         Wakes_proofs
SequenceRuns      runs on top of promises          MCSequenceRuns  SequenceRuns_proofs
Inbound           callback to message and turn     MCInbound       Inbound_proofs
Questions         messages between employees       MCQuestions     Questions_proofs
```

An operator named `Mut_<Bug>` beside a definition is a plausible bug in it. No specification
uses one: each property of a passing run is violated when the definition is replaced by it, so
the property tells that bug from the code.

### Outbox

`row` is the table, with `available_at` reduced to past or future of the clock; `locked` the
rows held by a transaction that will leave them as they are; `phase`, `shortlist` and `job` are
the pollers; `applied`, `runs`, `lease` and `revived` are history that only properties read.

| Action | Code |
|---|---|
| `Enqueue` | `outbox::enqueue` with its dedupe key, in somebody's transaction |
| `ClaimSnapshot`, `ClaimCommit` | the one-statement claim in its two halves: the round-robin shortlist on an unlocked snapshot, then the rows locked, rechecked, counted and leased |
| `Seize`, `LetGo` | a row lock taken and given up without a change: `enqueue`'s upsert of an event that exists, or a requeue, report or claim that is rolled back. The claim is `FOR UPDATE SKIP LOCKED`, so it passes over a due row that is locked; a handler's commit, a report and a requeue wait for it |
| `LeaseExpires` | LEASE_SECS pass |
| `ClaimFails`, `CommitLost`, `FailureLost` | a claim, a handler's commit or a report lost to the database |
| `StartHandler`, `CannotStart`, `HandlerSucceeds`, `HandlerFails`, `RecordFailure`, `TaskPanics` | the handler task per tenant, `mark_done` in the handler's transaction, `mark_failed` and `park` afterwards |
| `Crash`, `Restart` | a replica dies with its batch |
| stop, requeue | company halt; the operator's verb for dead letters |

The connection pool and the concurrency limit only delay and are left out; the backoff is
"later".

### Provisioning

A resource is one (employee, step) row with an adapter. `row`, `lapsed`, `intent`, `named` are
the store; `asked`, `accord` the approvals; `sweeps`, `escalated`, `notices` the release;
`phase`, `emp`, `todo`, `job`, `token` the workers; `held`, `bought` the provider; `lost`,
`settled`, `resumed` history. A wave picks an employee on a snapshot, claims each runnable step
(parking one whose call died, resuming it under a redeemed accord), commits the intent, calls,
and records the answer if it still owns the lease. A worker id is a process: one that dies never
returns. The sweep claims a terminated employee's bound resources, calls the provider, then
clears the binding; one attempt past the cap escalates. Suspension, stop and termination happen
at any time. A lease or an external wait may run out at any time.

A release is the three steps it is in the code. `ReadBack` loads the employee, without a lock;
`copy` is the row as loaded. What `finish_step` writes behind it makes the copy "moved", and
`Saved` then overwrites the row or, where the release restamps nothing newer, is silently
skipped by `updated_at <=`; `Verdict` is its `record_release`. The save of another release makes
it "stale", which ends the pass (`LosesRace`). The claim query reads a bounded number of rows,
those untouched longest first, and neither a parked row nor one blocked by a dependency is ever
restamped: an employee whose due rows stand behind such a batch is `crowded`, and `Pick` does
not find it. Whether it is, is chosen (`Crowd`) and not computed from `updated_at`.

### Payments

A call is one task inside the gate or the executor. Its stages are where it can be interrupted
or made to wait: `redeeming` and `reserving` wait for the approval's and the seat's row,
`charging` for the team's, `committing` has all of them, `authorised` to `unknown` is the
executor between its transactions, `crediting` and `returning` the release with its two rows.
Writes of a transaction become visible at `Commit`, `Refuse` or `Release`; the policy's running
total and the roster are read before the lock they should have been read under, as in the code.
`Fail` loses any call at any stage: the transaction never was, and a token dropped after the
commit leaves its reservation held. A release that would take a bucket below zero fails its
CHECK and changes nothing (`Covered`).

Left out: rulings on anything but payments, several currencies and days, edits of caps during
the day, employees on no team.

### PhonePool

`number` and `seats` are the tables, `step` and `lease` the phone step of each employee, `work`
the transaction each worker has open; `record` is the idempotency table, `handler` the requests
in execution; `answered`, `applied`, `lost` are history.

| Action | Code |
|---|---|
| `Claim`, `Scan`, `LockOne`, `PoolIsFull` | `claim_step`; `current_allocation`, then the first statement: candidates and their seats from a snapshot, one row locked, skipping the locked |
| `Insert`, `Commit`, `Rollback` | the second statement, which asks again under the lock; the seat and `finish_step` in one transaction fenced by the lease |
| `Release` | `release_step` of a pooled binding |
| `Begin`, `BeginUnheard`, `Replay` | `idempotency::begin`, committed before the handler; the same with its acknowledgement lost, after which no handler runs; a replayed answer |
| `Register`, `Refuse`, `Fails` | `add_number` and `register`'s upsert, which waits for the lock and sets state and capacity whatever they were |
| `Record`, `Die` | `complete` of a 201, `release` of anything else, or a write that fails, and an answer that may not arrive; a handler that dies |

Only an answer that is not a 5xx and whose content type begins with `application/json` is kept.
Every `ApiError` is `application/problem+json` and a 204 has no body, so whoever reads a 400, a
409 or a 204 finds the key free, and the next request under it is executed. `answered` is
therefore the keys of which somebody has read a 201.

### Wakes

Times are ticks of one clock. `nextAt` and `appt` are the rows; `taken` the slots of each seat's
days; `phase`, `now`, `listed`, `held`, `job` one replica's pass. `Tick` takes the claim's first
snapshot, `Ring` locks and rechecks promises, `Claim` does the same for beats with the room that
is left, and the seats of a company are then worked one after the other: `ReserveATurn` or
`Decline`, `CallModel`, `TurnEnds` or `RateLimited`, `Record`. `PassOver` is a shutdown, `Crash`
and `Restart` a process lost; `Book`, `Reply`, `SetLifecycle`, `SetStop`, `SetCadence` and
`SpendElsewhere` are the other writers of the same rows.

### SequenceRuns

A run is one contact's position in `Program`. `Tick` lists what is due; an advance is one of
`Leave`, `FirstPromise`, `StillToRing`, `TurnGoesOn`, `Declined`, `LetterIsHeld`, `Settles`,
`NoCharter`, `Replay`, `GiveUp`, `Moves` or `LeftAsItIs`, the branches of `advance` in their
order. `Ring`, `Send`, `HoldsBack`, `Chase` and `Ends` are the turn that `Wakes` describes, as
far as a sequence sees it. A turn may call `send_email` as often as it likes: `perform` looks at
no earlier letter. The first moves the run (`left`), what follows does not (`further`): `sent`
finds no promise that has rung since and answers `None`, as its comment says. `writers` counts
the turns and approved letters that wrote for the run's step. One letter at a time is held for
review per run; `Sent` is the transaction that tells the run of its letter, and may be lost;
`Decide`, `Deliver`, `ChaseApproved` the founder's answer to a held letter; `UnenrollReads` and
`Unenroll` are two statements.

### Inbound

`hook` holds the verified deliveries, `notice` what the poller filed for a mail, `threads`,
`messages`, `turns`, `tickets`, `suppressed` what a landing writes in one transaction
(`Landing`). `RecordNotice`, `RecordRefusal`, `RouteText` and `LandText` are the outbox's
handlers, each one committed transaction, which is what `Outbox` proves of them. A worker's pass
is `Claim`, `Take`, `Look` (already landed?), `Fetch`, `Lock` (the advisory lock of seat and
contact), `Land` or `LandFails`, `Record` or `RecordLost`; the lease may lapse at any moment, so
a second worker may claim what a first has in hand. A body that is not there yet, perhaps never,
is one of the outcomes of `Fetch`. A refusal suppresses the contact if `suppressions` can hold
the address (`Storable`): `land` logs the refusal of a short code, and `record_refusal` an
address that does not parse, and both publish the delivery as done. `Halt` and `Resume` are the
company's stop, which `Claim` obeys; a handler already at work does not. `Requeue` revives dead
letters, `HandOver`, `CloseTicket` and `SetLifecycle` are what people do meanwhile.

### Questions

`send` in the transaction of its caller: `Execute` or `AnswerForSilence` calls it, `Reserve`
takes a turn of the recipient's day under the row's lock, `CheckPending` refuses a second
question, `Commit` inserts. `Tick` is the patience loop's listing: the `Batch` oldest of the
questions due, of every company. A clock refused the turn leaves its question due, so enough of
those at the head hide the younger ones (`PassedOver`). `SetPolicy` makes a seat's policy layers
unusable or usable again: a question is not sent to such a seat, nor answered for silence when
its asker is one. `Plans` says which turn may execute which decision. Whether a question is open
is derived from the messages, as in the code. `SpendElsewhere`, `SetLifecycle`, `SetStop` and
`Crash` are everybody else.

## Runs

| Run | States | Shows |
|---|---|---|
| `outbox_poison` | 92,856 | One event, two replicas that may crash twice, three attempts, one revival, stops. `AppliedOnce`: its effect committed exactly once iff it is published. `PoisonBounded`: invocations bounded although crashes report nothing. `LeaseIsExclusive`: an unexpired lease is exclusive, absent revivals. `ImplementsDelivery`: refinement of the abstract promise. `StopDefersEvents`: a stop defers and burns no attempt. `EverythingSettles`: published or dead-lettered in the end, unless its company stays stopped or its row locked. |
| `outbox_claims` | 933,048 | A backlog of two against one event of another tenant, batches of two. `SeatedFairly`: the round robin holds on a stale shortlist, of the rows that are not locked when the claim comes to them. |
| `prov_claims` | 2,624,657 | Two steps, one depending on the other, waves planned on snapshots, three worker ids of which two die, three answers. `DependenciesReady`. `DeathLeavesEvidence`, `FirstDeathIsParked`: a first call that died is evidence and parked. `AccordSpentOnce`: one resumption per accord. `ReadyStays`: no late answer undoes a ready step. |
| `prov_lifecycle` | 136,006 | Suspension, stop, termination, a crash, a release overtaken between its load and its save; no accord, which `prov_claims` has. `NothingForgotten`: a binding is given up only once the provider stopped, or in such a save. `BoundIsGivenBack`, `UnknownReachesHuman`: liveness, the second for an employee the claim query does not pass over for ever. |
| `payments` | 834,336 | Two calls, two employees of one team, a transfer, an approval, a failure, every answer of the rail. `LedgersAgree`: both buckets equal the live reservations. `ApprovedOnce`, `MovedIsVisible`, `LocksComeFree`, `RuledWithinDay`, and caps and budgets in `TypeOK`. |
| `phone_pool` | 5,005,135 | Two workers, two employees, two numbers, two handlers under two keys, one fault. `SeatsFit`: no claim over-seats a number or seats one that is not active, although registrations and rivals commit between its snapshot and its lock. `SeatMatchesStep`: a worker whose lease was stolen leaves neither a seat nor a ready step. `AnsweredIsFinal`: a request whose success a client has read is applied no more. `WedgedOnlyByFaults`: a key answers 409 for good only after a death, an unwritten record or an unacknowledged begin. |
| `wakes` | 536,384 | Two replicas, two seats, a cadence, a promise, two days, one crash, shutdown, ceiling or human act. `TurnsAreFunded`: the model is called on a slot the day holds. `RingsOnce`: a promise wakes one turn, a cancelled one none. `BeatsApart`: beats are an interval apart. `DueIsTaken`: what is due is taken in the end, batches shared. |
| `sequence_runs` | 3,034,772 | One contact, two letters in a row, a wait and a branch back to the first, with one mishap and one human act. `OneTurnPerStep`: no poll, replay or second listing has a step written by two turns, unless a record is lost, a letter held or a promise booked behind another; the one turn may send several letters, and they move the run once. `UnenrolledIsNotWoken`: nothing is left to ring for a contact taken out. `EndedIsOver`: a run that has ended is not revived. |
| `inbound` | 699,219 | Two mails of one contact, a refusal by a short code and a bounce; two workers, two attempts, a lapsed lease at any time, one mishap, handover, halt or operator act. `MailLandsOnce`, `DoneMeansLanded`, `OneThreadPerContact`. `EveryDeliveryEnds`: every delivery ends done or dead however its attempts fail, unless the company stays halted. |
| `questions` | 309,586 | Three turns, two clocks that list one question at a time, three questions and an answer, one act of others. `EveryWakeIsPaid`: every message that wakes holds a slot. `OneOpenQuestionADay`: the budget row's lock keeps a second question out. `SilenceIsAnswered`: what nobody answers the clock does, unless the asker is refused the wake or older refused questions fill the listing. |

Deadlock is checked in the outbox, payments and wakes runs. Elsewhere the system may really
stop: a provisioned tenant has nothing left to do, a sequence ends, and a finite set of
messages, requests or hours is used up.

**Bounds and why they are enough.** The hazards are races of two actors on one row; a run has
two actors, and a third worker id where a second death matters. The sequences are the exception:
their state is the largest, and the run has one loop beside the turn, the approval, the
correspondent and the founder, which are the writers an advance races with. A second loop
advances a run from a listing of its own, which may be older; the proofs about sequences hold
for any number of loops. `MaxAttempts` of the outbox is three so that there is a first, a middle
and a last attempt. `MaxRevivals`, `MaxMoves`, `MaxAccords`, `MaxFaults`, `MaxMishaps`,
`MaxActs`, `MaxEvents` are one or two: each is an event whose effect on what came before is the
question; so is `MaxLocked`, one row held by somebody else, which is enough to leave a batch
with two events of one tenant and none of the other. `MaxAccords` is zero in `prov_lifecycle`,
whose questions are of those nobody answered. Amounts 1 and 2 against caps of 2 and 3 make every
cap bind, except `DailyCount`, which two reservations never exceed (`MaxReservations` is 2); its
guard is covered by the proof of `TypeOK` alone. A wake's day has one slot and a question's seat
two, so that budgets run out; `MaxTime` covers the day boundary, and in `sequence_runs` the
wake, the wait and the letter deadline in a row. Pollers, workers and calls are interchangeable;
symmetry over them is used in runs without liveness only. In `inbound` each callback arrives
once: the route's and the notice's keys absorb a second one before any state is touched, and a
mail is worked on again through its second attempt, after a lapsed lease, a crash, a lost report
or a body that was not there, and through a requeue, which is where it could land twice. The
short code is the contact that `suppressions` cannot hold. In `questions` a list of one is
already full with one refused question.

**Fairness.** Assumed in `outbox_poison`, `prov_lifecycle`, `wakes`, `inbound` and `questions`.
Every poller, worker, clock and replica runs its loop forever (`loop { ...; sleep }`), so its
steps are weakly fair, those of the outbox's handlers in `inbound` only while the company is not
halted; a supervisor restarts a crashed replica; leases run out and hours come because time
passes (in `questions` even that is not assumed). Of the outbox that feeds `inbound` only the
existence of a poller that goes on is assumed, which `EverythingSettles` of `outbox_poison`
grants. Strong fairness is needed where other actors can disable a step again and again: a claim
whose rows another replica takes first (`ClaimCommit`), picking an employee while others hold it
(`Pick`, `Sweep`), and a clock waiting for the row of a seat's day (`Reserve`). PostgreSQL's row
locks are queued, and each loop polls at its own pace, so no replica loses every race. What a
bounded, ordered query passes over is not covered by fairness: a step that is never enabled is
owed nothing. `UnknownReachesHuman` therefore supposes that the employee is not `crowded` for
ever, `SilenceIsAnswered` excepts a question behind a full list of refused ones, and
`EverythingSettles` an event whose row is never let go. Nothing is assumed of providers,
operators, colleagues or people.

## Findings

Two runs state what a comment says and show that the code does otherwise. Each trace is a
handful of ordinary steps.

| Run | Comment | Trace |
|---|---|---|
| `prov_blind_retry` (`NoBlindRetry`) | `loops/provisioning.rs:77` parks rather than retries | A retry of a failed step leaves its intent at `failed`; a process that dies in that call leaves nothing for the sweep, and the next worker calls again. |
| `payments_timed_out` (`MovedWithinDay`) | `effects.rs:42`, `gate.rs:222` releases on failure; only the caller knows whether the money moved | A rail that was not heard from is released like a refusal; if the payment landed, its headroom pays for another. |

`NoBlindRetry` is also violated by a wave aborted on a database error (`MaxErrors` 1), whose
worker lives on while its calls go unrecorded, and when the crash sweep's bound is used up by
parked rows (two steps, `SweepLimit` 1).

**Other disagreements of text and code**, met while modelling. No run is kept for them; the
actions that show them are in the models.

| Text | Code |
|---|---|
| `store/outbox.rs:139`: a claimed event is "guaranteed to stay off the queue" | The claim counts the attempt first, so an event whose last attempt is running already looks like a dead letter: a requeue hands it to a second poller (`Requeue`). |
| `store/outbox.rs:804`: of an unremediable event, "do not hand it back" | `mark_failed` is not fenced by attempt: a late report of an earlier attempt overwrites the prefix, and the next requeue revives the event. |
| `loops/provisioning.rs:29`: "a human is asked once, then the sweep goes quiet" | The attempt past the cap commits before the question is filed; a process that dies in between leaves the row quiet and nobody asked. |
| `loops/initiative.rs:748`: what a shutdown does not start is "not lost", "the rest stay due" | A promise was marked rung when the batch was claimed: only beats come round again (`PassOver`). |
| `migrations/0072:117`: "every rung row has `rang_at >= at`" | `postpone_until` may move `at` between the claim's snapshot and its lock, whose recheck asks `rang_at` alone; the outcome of such a promise then fails the table's CHECK (`Agrees`). |
| `app/sequence.rs:1306`: a letter held for review is waited for rather than written again | The held letter is looked up from the last wake's instant on, among the pending and the denied: one held before that wake rang is not seen (`HeldLetter`), and a second may be written. |
| `loops/sequence.rs:26`: "une ligne vue deux fois par deux réplicas est avancée une fois" | `advance` asks again for `state = 'active'`, not for `next_at`, and uses the instant of its listing: a second listing advances the run once more and may cut a wait short. A promise booked that way at an instant before the last letter's is not of `STEP_PROMISES`, so the step may get a second letter; the model calls such a run `behind`. |
| `routes/webhooks.rs:360`: of a replayed text, "even a second row would land as a duplicate" | The landing's key names the seat; a text whose thread was handed over between two rows of one MessageSid lands at the second seat too. |
| `loops/patience.rs:27`: "ne répond que si elle est encore ouverte" | The question is read again before the budget row is locked: an answer committed while the clock waits for the row does not stop it. |
| `app/inbound.rs`, one pending question per colleague | Only the recipient's budget row orders two askers: two questions to a seat that is never woken, or on both sides of midnight, both pass. That is why `OneOpenQuestionADay` names a day and a colleague who is woken. |
| `store/phone_pool.rs:306`: "this row is never updated" | `register` upserts it; the second statement's recheck covers that case as well (`SeatsFit`). |
| `store/idempotency.rs:1`: "run a keyed request once, return the same answer forever after" | A 400, a 409 or any other `ApiError` is `application/problem+json`, which `record` (`main.rs:3441`) does not keep any more than a 204: the key is free again and the next request under it is executed. What the comment promises holds of the successes with a JSON body (`AnsweredIsFinal`). |
| `app/provisioning.rs:881`: "if the stored binding has moved on since the snapshot [...] forgetting it would strand that one instead" | The guard compares with the load a few lines above, which locks nothing: a `finish_step` that commits a newer binding before the save is overwritten with what was loaded, `disabled` and without a binding. It is the one exception in `NothingForgotten` (`SavedBehind`). |
| `store/spend.rs:20`: a crash rolls both back | The reservation of a payment is committed before the payment leaves, and a process that dies in between leaves it held. |

Also seen: a purchase in flight when its process dies and its employee is then terminated is in
neither the claim query nor the release sweep; a duplicate of a message inserted while another
transaction writes the same key commits its reserved turn for nothing; a key whose handler died
is wedged for good, as `store/idempotency.rs:42` says, and so is one whose `begin` was committed
and not acknowledged (`main.rs:3400`), though no handler ever ran; and rows that the
provisioning loop's query returns and does not move, parked ones and ones that wait for a
dependency, keep their place at the head of its `ORDER BY updated_at LIMIT`, as refused
questions do in the patience loop's.

## Proofs

**`Outbox_proofs`**: `TypeCorrect`, `AppliedExactlyOnce`, `OutboxImplementsDelivery`,
`LeaseHeldByOne` (`LeaseIsExclusive`), `PoisonIsBounded` (`PoisonBounded`), `StopDefers`
(`StopDefersEvents`) and `ClaimsAreSeatedFairly` (`SeatedFairly`), from `OutboxAssumption`
(limits positive, every event has a tenant, finitely many pollers). The argument: every step is
a step of single rows (`EveryStepIsARowStep`), and a row's `applied` is one exactly when it is
published, because `mark_done` publishes only an unpublished row in the transaction of the
effect. Each such row step is a step of `Delivery` or leaves it unchanged. For whoever holds an
event a step is one of four as well (`EveryStepIsAHolderStep`: it is released, taken, begun or
handed back). `Leased`: an event whose `available_at` has come has no lease left, so the claim
that takes it is its only holder. `Counted`: invocations plus claims not yet begun are at most
`MaxAttempts` for each revival plus the attempts counted since. A stopped company's event that
nobody has (`Free`) stays so, because only a snapshot lists events and it leaves the stopped
out. For the round robin, `Claiming`: the table is finite, a shortlist is of stored rows, and a
claiming poller has nothing in hand, so its batch is what the claim took. The seat numbers of
one tenant are then distinct and one of them is 1 (`SeatsOfOneTenant`), so of two events of one
tenant in a batch one has a seat above 1 (`TwoOfMany`), and a batch that prefers low seats has
taken every first seat before it that was not locked (`BatchInTurn`, `ShortlistInTurn`).

**`Payments_proofs`**, from `PaymentsAssumption` (caps and budgets are naturals, amounts
positive, the teams finitely many):

- `WithinCaps` (`TypeOK`): no seat above its cap or count, no team above its budget.
- `DeadlockFree` (`LocksComeFree`): no group of calls waits for itself.
- `OneAccordOnePayment` (`ApprovedOnce`), `DayCapHolds` (`RuledWithinDay`),
  `MovedMoneyIsVisible` (`MovedIsVisible`).
- `BooksAddUp` (`LedgersAgree`): the buckets are the sums of the entries not released.
- `LedgerWithinDay`: the caps bound those entries, and the money that moved on them.
- `CapHoldsOfWhatIsKept`: `MovedWithinDay`, which the code violates (see "Findings"), in every
  behaviour in which no reservation whose money moved is released. That premise is what the
  comments take a release to mean; the theorem says nothing else is missing.

`TypeOK` is not inductive: `Commit` adds without looking. The strengthening `IInv` adds
`Discipline` (a row is locked by exactly the calls whose stage says so), `Briefed` (a call at
work names an employee, an amount, a team, an approval and an entry that exist) and `Told` (what
the holder of a row read under its lock still holds). Only the holder of a row changes it
(`OthersKept`), which is why `Told` survives everybody else's steps. Deadlock freedom follows
from `Discipline` by the order of the rows: a team's holder waits for nothing, a seat's holder
for a team at most, an approval's holder for a seat or a team. `ApprovedOnce` is inductive given
`IInv` (a redeemer holds a pending row, and no entry names a pending approval). `MovedIsVisible`
needs `PInv`: no entry is in two hands, and a call that was refused, or has not been answered,
has not moved money. `LedgersAgree` needs `Hands`: the entry a call has in hand is still
reserved and carries the call's own employee and amount, so that what a release gives back is
what leaves the sum; and while nobody has moved, the team a call charges or credits is its
employee's. The sums are the community modules' fold over a set. What is used of them (that any
element may be taken out first, that one element more adds its value, that a part sums up to no
more than the whole) is proved by taking the smallest set of which it fails, over the
well-founded order of subsets, without an induction theorem.

**`PhonePool_proofs`**, from `PhonePoolConstants` (numbers and capacities are naturals, `None`
is neither a key nor a record): `SeatsProved` (`SeatsFit`), `SeatMatchesProved`
(`SeatMatchesStep`), `AnsweredProved` (`AnsweredIsFinal`), `WedgedProved` (`WedgedOnlyByFaults`)
and `PoolTypesProved` (`TypeOK`). The pool and the requests have an inductive invariant each.
`KeyInv`: a busy handler has a key of its own whose record is in flight (`Exclusive`), and a key
whose success was read has a record that no handler executes (`Answered`), so nothing can begin
it again. `PoolInv`: no two transactions lock one number (`Locking`), and the room a second
statement found is there until its commit (`Reserved`), because rivals and registrations wait
for the lock and releases only make room; a step and its seat change together (`OneSeat`), and a
worker that found its employee seated came after the step's outcome (`Kept`), so its own commit
is refused by the lease.

**`Wakes_proofs`**, from `WakesAssumption` (finitely many seats, promises and replicas, a key
per row, intervals of at least a tick): `TurnsProved` (`TurnsAreFunded`), `PromisesRingOnce`
(`RingsOnce`) and `BeatsAreApart` (`BeatsApart`). All three rest on `Loops`: a replica has wakes
in hand only between its claim's commit and its next tick, so their day is the tick's. `Turns`
counts the wakes that hold a slot (`Pending`): what was billed and what is pending are at most
what was taken, since a slot is never given back. `Promises`: what a claim holds is unrung and
held by no other claim, what has not rung has woken nobody, and neither the ceiling's
transaction nor a cancellation writes a held row. `Beats`: a seat that was claimed has a
deadline an interval after the claim (`Spaced`); a later claim rechecks the deadline under its
lock against its own instant, which is therefore later still.

**`Inbound_proofs`**, from `InboundConstants` (mails, texts and bounces are three kinds, a post
has one author and a mail one addressee at most): `MailsLandOnce` (`MailLandsOnce`),
`DoneHasLanded` (`DoneMeansLanded`) and `ThreadsAreOne` (`OneThreadPerContact`). `Shape`: a
worker keeps to mails that have a notice, and these have an addressee, so every landing of a
mail names one seat. `Mailbox`: a message is the only one of its seat and post, it stands with
its turn and, where the contact can be stored, its opt-out, and a turn is some message's; a
second landing finds the row and asks for the same turn. `Finished`: a worker holds the outcome
"done" only for what is in the mailbox, which never loses a row. `Conversations`: transactions
in hand hold the locks of different scopes, and where the holder read no thread there is still
none that it could duplicate, because a handed-over thread is marked as such and a text's is on
another channel.

**`Questions_proofs`**, from `QuestionsConstants`: `WakesArePaid` (`EveryWakeIsPaid`) and
`OneQuestionOpen` (`OneOpenQuestionADay`). The invariant is `Types`; `RowHeld` (a budget row has
one holder, and the count it read under the lock still stands); `Paid` (the messages that woke a
seat on a day and the turns reserved for it); and `Alone` (an open question is alone in its pair
and day, and one that has cleared its check under the lock would be). The check alone would not
do: it keeps a second question out because the transaction has reserved first, so that the row's
lock orders it after the other one's commit.

**`Provisioning_proofs`**, from `ProvisioningAssumption` (among others, a step depends on steps
of the same employee only): `AccordsAreSpentOnce` (`AccordSpentOnce`), `DependenciesAreReady`
(`DependenciesReady`), `ReadyIsKept` (`ReadyStays`), `NothingIsForgotten` (`NothingForgotten`),
`DeathIsEvident` (`DeathLeavesEvidence`), and `FirstDeathParked` with `FirstDeathParkedWhenCalm`
(`FirstDeathIsParked`). `RowChanges`, `DeskChanges` and `FileChanges` say what one step may do
to a row, to a worker's desk and to the intents and questions; each invariant is then a matter
of those few changes. `Accords`: while the intent names an accord that was given, one is still
to spend. `Order` with `Releases`: what a worker has planned or called has what it depends on,
which stays ready because only a retired employee's resources are given back. `Bindings`: what a
worker's fresh answer replaces is not running, nor is what the provider said it let go. A
release saves a row it loaded earlier, so two more are needed: `Duties` (steps are taken in a
wave and bindings given back in a release, of the employee the worker is at) and `Copies` (a
worker has a copy of the one resource it gives back, and a fresh copy has the binding of the
row). `Evidence`: whoever called has left an intent, and until an answer is recorded nothing
writes it "succeeded" or "failed".

`FirstDeathIsParked` does not hold of every behaviour, and `FirstDeathParked` names the two
conditions it needs (`Calm`). `errors = 0`: a pass cut short by a database error leaves a living
worker's lease on a call nobody will record, and a worker may claim what it owns. And the sweep
looks at no fewer rows than are abandoned, or parked rows use up its limit. The second theorem
derives both from constants: no errors, and no more rows than one sweep looks at, as in the run.
`Queue`: a row is in the list of lapsed leases exactly once when its lease has run out, and
nowhere else, so that under `Calm` a sweep misses none (`SweepMissesNone`). `Dying`: a worker
that died never works again. `Unanswered`: a resource without a recorded answer has nothing
bound or to give back, its row is leased to whoever claimed it, and if its call died, to a dead
worker. Hence nobody who may claim such a row finds its lease running, and if it has run out,
the sweep has the row; either way the claim needs an accord (`NoSecondCall`).

**`SequenceRuns_proofs`**, from `SequenceRunsAssumption` (a program that is not empty, whose
branches lead to steps of it): `OneTurnProved` (`OneTurnPerStep`), `UnenrolledProved`
(`UnenrolledIsNotWoken`) and `EndedProved` (`EndedIsOver`), for any number of runs and loops.
`StepsOfOne`: a step is of one run at most, so every invariant is about one. `InHand`: the
promise a turn was woken by has rung. `Quiet`: whoever was taken out has ended and waits for
nothing. The one that carries `OneTurnPerStep` is `Orderly`, of a run of which nothing was lost,
held or booked behind: its promises stand in the order of their hours, only the last has still
to ring, and a turn that may write is the last one's, whose outcome is not known. Hence what
`advance` reads is the last promise (`LatestIsTheLast`), it books another only when all have
rung and no turn may write (`BookedWhenSettled`), and the first letter of a turn leaves for a
step that had none (`Told`). `Past`: once a turn's letter moved the run, no promise that has
rung is later than that letter, so that what the turn writes further finds none to answer. That
the last and the first of a set of promises exist is proved over the well-founded order of their
instants (`LeastOne`, `EndsExist`), without an induction theorem.

**Only model-checked**: liveness (`EverythingSettles`, `BoundIsGivenBack`,
`UnknownReachesHuman`, `DueIsTaken`, `EveryDeliveryEnds`, `SilenceIsAnswered`), which rests on
fairness and is outside the prover's reach. Every invariant and every action property of the
passing runs is a theorem for all values of the constants; of the two violated properties,
`MovedWithinDay` has the conditional theorem above, and `NoBlindRetry` has `FirstDeathParked`,
which is the same statement of first calls.

## Plan

Done, in this order: `Outbox` with `Delivery`, `Provisioning`, `Payments`, `Wakes`,
`SequenceRuns`, `Inbound`, `Questions`, `PhonePool` with the idempotency layer. What is left, in
order of what it would add:

1. `Outreach`: the gate's contact budget. Whether a counterparty is new is read
   (`gate.rs:1330`) before the budget row is locked, so two first messages to one stranger
   may each be charged as a new contact.
2. `Policy`: layering as operators, checked against a reference definition of tightening.
3. `Invoices` (gap-free numbers, credit notes) and the social publishing queue.

## Not modelled

The models cover what concurrent actors decide: about 8,400 of the repository's lines carry a
definition. Most of the rest is of other kinds, and modelling it would restate it rather than
check anything. Row-level security and hashing are properties of SQL and cryptography. Prompts,
retrieval, briefs, role packs, persona text, digests and citations change little state, each in
one statement. The routes of the control plane, the MCP, OAuth and A2A surfaces parse, call one
of the modelled operations and render. Provider clients are external and appear as
nondeterministic answers. Registers (invoices, quotes, suppliers, knowledge, files) are mostly
single statements under a unique index. A third and more of every source file are its own tests.
The evaluation crate, the docker-mcp package, the plugin and scripts share no mutable state. The
remaining components are listed in `PROJECT.json` with their reason, the ones worth a model in
the plan above.

Hazards known and covered by no property are those above without a run, and those in
`PROJECT.json` whose note says why. One boundary is abstracted away: at `lease_until = now` the
claim treats a lease as lapsed (`store/provisioning.rs:1065`) while the crash sweep does not
yet; leases here run out between steps, so the instant of equality is not told apart.
