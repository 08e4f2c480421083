------------------------------ MODULE Payments ------------------------------
(***************************************************************************)
(* How an employee pays: the Policy Gate's ruling and redemption           *)
(* (crates/app/src/gate.rs), the spend ledger of employees and teams it    *)
(* reserves from (crates/store/src/spend.rs, org.rs), the approvals a      *)
(* human spends (crates/store/src/approvals.rs), and the executor that     *)
(* settles or releases (Effects::pay, crates/app/src/effects.rs).          *)
(*                                                                         *)
(* A call is one task inside the gate or the executor. Its transaction     *)
(* takes row locks (approval, seat bucket, team bucket) and its writes     *)
(* become visible when it commits; what it read before a lock is what it   *)
(* decided on.                                                             *)
(*                                                                         *)
(* Abstracted: one tenant, one currency, one day; one policy for everyone; *)
(* nobody edits caps, budgets or policy during the day; a payment is its   *)
(* amount. Left out: employees on no team, and the gate's rulings on       *)
(* anything but payments.                                                  *)
(*                                                                         *)
(* An operator named Mut_<Bug> is a plausible bug in the definition that   *)
(* follows it. No specification uses it: a run must tell it from the code. *)
(***************************************************************************)
EXTENDS Integers, Sequences, FiniteSets, FiniteSetsExt

CONSTANTS
  Employees, Teams,
  FirstTeam,       \* [Employees -> Teams]: the roster this morning
  Calls,           \* tasks that rule, redeem or pay at the same time
  Nobody,          \* no lock holder, no employee
  Amounts,         \* what a payment may cost
  PerTransaction,  \* spend_caps.per_transaction_minor
  DailyTotal,      \* [Employees -> Nat]: spend_caps.daily_total_minor
  DailyCount,      \* spend_caps.daily_transaction_count
  TeamBudget,      \* [Teams -> Nat]: team_budgets.daily_total_minor
  Suspendable,     \* bound of the model: employees somebody may suspend
  PolicyTransaction, PolicyDay, ApprovalAbove,   \* SpendLimits
  MaxReservations, \* bound of the model
  MaxApprovals,    \* bound of the model
  MaxMoves,        \* bound of the model: employees moved to another team
  MaxFailures      \* bound of the model: calls lost to a crash or a database error

ASSUME PaymentsAssumption ==
  /\ FirstTeam \in [Employees -> Teams] /\ IsFiniteSet(Teams)
  /\ Nobody \notin Calls \cup Employees \cup Teams
  /\ Amounts \subseteq Nat \ {0}
  /\ DailyTotal \in [Employees -> Nat] /\ TeamBudget \in [Teams -> Nat]
  /\ {PerTransaction, DailyCount} \subseteq Nat \ {0}
  /\ Suspendable \subseteq Employees
  /\ {PolicyTransaction, PolicyDay, ApprovalAbove} \subseteq Nat \ {0}
  /\ ApprovalAbove <= PolicyTransaction /\ PolicyTransaction <= PolicyDay
  /\ {MaxReservations, MaxApprovals, MaxMoves, MaxFailures} \subseteq Nat

VARIABLES
  halted,     \* company_halts
  standing,   \* employees.lifecycle
  teamOf,     \* team_memberships
  seat,       \* spend_buckets: what an employee has reserved today
  team,       \* team_spend_buckets: what a team has
  ledger,     \* spend_reservations, and the provider_intents row of each
  approval,   \* approvals
  expired,    \* approvals whose expires_at has passed
  call,       \* what each task is doing
  seatLock, teamLock, approvalLock,   \* who holds a row until it commits
  paid,       \* the rail: reservations whose money has moved
  moves, failures   \* bounded

roster == <<halted, standing, teamOf, moves>>
books  == <<seat, team, ledger>>
ask    == <<approval, expired>>
locks  == <<seatLock, teamLock, approvalLock>>
vars   == <<roster, books, ask, call, locks, paid, failures>>

Stage == {"idle", "redeeming", "reserving", "charging", "committing", "authorised",
          "calling", "ok", "refused", "unknown", "crediting", "returning"}

Reservation == [employee : Employees, amount : Amounts, approval : 0..MaxApprovals,
                state : {"reserved", "settled", "released"},
                intent : {"none", "in_flight", "succeeded", "failed"}]

Approval == [employee : Employees, amount : Amounts,
             state : {"pending", "redeemed", "denied"}]

\* A call at stage s, for m on e's account, under approval a, about entry i.
Task(s, e, m, a, i) == [stage |-> s, employee |-> e, amount |-> m, approval |-> a,
                        team |-> Nobody, entry |-> i, answer |-> "none"]

Free == Task("idle", Nobody, 0, 0, 0)

Call == [stage : Stage, employee : Employees \cup {Nobody}, amount : Amounts \cup {0},
         approval : 0..MaxApprovals, team : Teams \cup {Nobody},
         entry : Nat, answer : {"none", "refused", "unknown"}]

TypeOK ==
  /\ halted \in BOOLEAN
  /\ standing \in [Employees -> {"active", "suspended"}]
  /\ teamOf \in [Employees -> Teams]
  /\ seat \in [Employees -> [reserved : Nat, count : 0..DailyCount]]
  /\ \A e \in Employees : seat[e].reserved <= DailyTotal[e]
  /\ team \in [Teams -> Nat]
  /\ \A t \in Teams : team[t] <= TeamBudget[t]
  /\ ledger \in Seq(Reservation)
  /\ approval \in Seq(Approval) /\ Len(approval) <= MaxApprovals
  /\ expired \subseteq DOMAIN approval
  /\ call \in [Calls -> Call]
  /\ seatLock \in [Employees -> Calls \cup {Nobody}]
  /\ teamLock \in [Teams -> Calls \cup {Nobody}]
  /\ approvalLock \in [1..MaxApprovals -> Calls \cup {Nobody}]
  /\ paid \subseteq DOMAIN ledger
  /\ moves \in 0..MaxMoves /\ failures \in 0..MaxFailures

-----------------------------------------------------------------------------
At(c, s)   == call[c].stage = s
Go(c, s)   == call' = [call EXCEPT ![c].stage = s]
Live(i)    == ledger[i].state \in {"reserved", "settled"}
Entries(e) == {i \in DOMAIN ledger : Live(i) /\ ledger[i].employee = e}
Total(S)   == MapThenSumSet(LAMBDA i : ledger[i].amount, S)

\* Calls that will add an entry to the ledger if they commit.
Pending == {c \in Calls : call[c].stage \in {"redeeming", "reserving", "charging", "committing"}}
Room    == Len(ledger) + Cardinality(Pending) < MaxReservations

MayAct(e) == ~halted /\ standing[e] = "active"

\* evaluate's arm for a payment, on a running total read without a lock.
WithinPolicy(e, m) == m <= PolicyTransaction /\ seat[e].reserved + m <= PolicyDay

Mut_UnlockNotTeam(c) ==
  /\ seatLock' = [e \in Employees |-> IF seatLock[e] = c THEN Nobody ELSE seatLock[e]]
  /\ approvalLock' = [a \in 1..MaxApprovals |->
                        IF approvalLock[a] = c THEN Nobody ELSE approvalLock[a]]
  /\ UNCHANGED teamLock

\* Ends c's transaction: its locks are gone and it is free for other work.
Unlock(c) ==
  /\ seatLock' = [e \in Employees |-> IF seatLock[e] = c THEN Nobody ELSE seatLock[e]]
  /\ teamLock' = [t \in Teams |-> IF teamLock[t] = c THEN Nobody ELSE teamLock[t]]
  /\ approvalLock' = [a \in 1..MaxApprovals |->
                        IF approvalLock[a] = c THEN Nobody ELSE approvalLock[a]]

Ends(c) == Unlock(c) /\ call' = [call EXCEPT ![c] = Free]

Init ==
  /\ halted = FALSE
  /\ standing = [e \in Employees |-> "active"]
  /\ teamOf = FirstTeam
  /\ seat = [e \in Employees |-> [reserved |-> 0, count |-> 0]]
  /\ team = [t \in Teams |-> 0]
  /\ ledger = <<>>
  /\ approval = <<>>
  /\ expired = {}
  /\ call = [c \in Calls |-> Free]
  /\ seatLock = [e \in Employees |-> Nobody]
  /\ teamLock = [t \in Teams |-> Nobody]
  /\ approvalLock = [a \in 1..MaxApprovals |-> Nobody]
  /\ paid = {}
  /\ moves = 0 /\ failures = 0

-----------------------------------------------------------------------------
(* The gate: a ruling, or an approval redeemed.                            *)

\* decide answers Allow: on to the reservation, in the same transaction. A
\* denial writes an audit row and nothing else.
Rule(c, e, m) ==
  /\ At(c, "idle") /\ Room
  /\ MayAct(e) /\ WithinPolicy(e, m)
  /\ m < ApprovalAbove
  /\ call' = [call EXCEPT ![c] = Task("reserving", e, m, 0, 0)]
  /\ UNCHANGED <<roster, books, ask, locks, paid, failures>>

\* decide answers RequireApproval: request_approval files it.
RequestApproval(e, m) ==
  /\ MayAct(e) /\ WithinPolicy(e, m)
  /\ m >= ApprovalAbove
  /\ Len(approval) < MaxApprovals
  /\ approval' = Append(approval, [employee |-> e, amount |-> m, state |-> "pending"])
  /\ UNCHANGED <<roster, books, expired, call, locks, paid, failures>>

\* redeem_approval: the halt, the seat and the deadline (now() is the
\* transaction's) are read first; the UPDATE then waits for the row.
StartRedeem(c, a) ==
  /\ At(c, "idle") /\ Room
  /\ a \notin expired
  /\ MayAct(approval[a].employee)
  /\ call' = [call EXCEPT ![c] =
                Task("redeeming", approval[a].employee, approval[a].amount, a, 0)]
  /\ UNCHANGED <<roster, books, ask, locks, paid, failures>>

Mut_RedeemableEver(a) == approval[a].state # "denied"
Redeemable(a) == approval[a].state = "pending"

\* REDEEM_SQL has the row; its guards are evaluated on the committed version.
Redeem(c) ==
  LET a == call[c].approval IN
  /\ At(c, "redeeming")
  /\ approvalLock[a] = Nobody
  /\ IF Redeemable(a)
     THEN /\ approvalLock' = [approvalLock EXCEPT ![a] = c]
          /\ Go(c, "reserving")
     ELSE /\ call' = [call EXCEPT ![c] = Free]
          /\ UNCHANGED approvalLock
  /\ UNCHANGED <<roster, books, ask, seatLock, teamLock, paid, failures>>

\* The approval c redeemed is spent when c commits, whatever the ledger said.
Spent(c) ==
  IF call[c].approval = 0 THEN approval
  ELSE [approval EXCEPT ![call[c].approval].state = "redeemed"]

Mut_RefuseKeepsSeat(c) ==
  /\ seat' = [seat EXCEPT ![call[c].employee].reserved =
                IF At(c, "charging") THEN @ + call[c].amount ELSE @]
  /\ approval' = Spent(c)
  /\ Ends(c)
  /\ UNCHANGED <<roster, team, ledger, expired, paid, failures>>

\* ROLLBACK TO SAVEPOINT, and the refusal is committed.
Refuse(c) ==
  /\ approval' = Spent(c)
  /\ Ends(c)
  /\ UNCHANGED <<roster, books, expired, paid, failures>>

-----------------------------------------------------------------------------
(* The ledger: org::reserve.                                               *)

\* spend::reserve, under the lock of the seat's bucket.
SeatAllows(e, m) ==
  /\ m <= PerTransaction
  /\ seat[e].count < DailyCount
  /\ seat[e].reserved + m <= DailyTotal[e]

\* spend::reserve has the seat's row; then the roster says which team pays.
TakeSeat(c) ==
  LET e == call[c].employee IN
  /\ At(c, "reserving")
  /\ seatLock[e] = Nobody
  /\ IF SeatAllows(e, call[c].amount)
     THEN /\ seatLock' = [seatLock EXCEPT ![e] = c]
          /\ call' = [call EXCEPT ![c].stage = "charging", ![c].team = teamOf[e]]
          /\ UNCHANGED <<roster, books, ask, teamLock, approvalLock, paid, failures>>
     ELSE Refuse(c)

Mut_TeamAllowsAny(t, m) == m <= TeamBudget[t]
TeamAllows(t, m) == team[t] + m <= TeamBudget[t]

\* org::reserve has the team's row.
TakeTeam(c) ==
  LET t == call[c].team IN
  /\ At(c, "charging")
  /\ teamLock[t] = Nobody
  /\ IF TeamAllows(t, call[c].amount)
     THEN /\ teamLock' = [teamLock EXCEPT ![t] = c]
          /\ Go(c, "committing")
          /\ UNCHANGED <<roster, books, ask, seatLock, approvalLock, paid, failures>>
     ELSE Refuse(c)

\* The policy's day cap, asked again under the lock; not on the redemption path.
Mut_StillWithinDayUnasked(c) == TRUE
StillWithinDay(c) ==
  \/ call[c].approval # 0
  \/ seat[call[c].employee].reserved + call[c].amount <= PolicyDay

\* Both charges, the entry, the approval and the audit row commit together.
Commit(c) ==
  LET e == call[c].employee
      m == call[c].amount
  IN
  /\ At(c, "committing")
  /\ IF StillWithinDay(c)
     THEN /\ seat' = [seat EXCEPT ![e] = [reserved |-> @.reserved + m, count |-> @.count + 1]]
          /\ team' = [team EXCEPT ![call[c].team] = @ + m]
          /\ ledger' = Append(ledger, [employee |-> e, amount |-> m, state |-> "reserved",
                                       approval |-> call[c].approval, intent |-> "none"])
          /\ approval' = Spent(c)
          /\ Unlock(c)
          /\ call' = [call EXCEPT ![c] = Task("authorised", e, m, 0, Len(ledger) + 1)]
          /\ UNCHANGED <<roster, expired, paid, failures>>
     ELSE Refuse(c)

-----------------------------------------------------------------------------
(* The executor: Effects::pay.                                             *)

\* begin_send commits the intent, and only then the request leaves.
BeginSend(c) ==
  /\ At(c, "authorised")
  /\ ledger' = [ledger EXCEPT ![call[c].entry].intent = "in_flight"]
  /\ Go(c, "calling")
  /\ UNCHANGED <<roster, seat, team, ask, locks, paid, failures>>

\* The rail pays, refuses (terminal, rate limited), or is not heard from.
Pay(c) ==
  /\ At(c, "calling")
  /\ \/ Go(c, "ok") /\ paid' = paid \cup {call[c].entry}
     \/ Go(c, "refused") /\ UNCHANGED paid
     \/ Go(c, "unknown") /\ (UNCHANGED paid \/ paid' = paid \cup {call[c].entry})
  /\ UNCHANGED <<roster, books, ask, locks, failures>>

\* record_sent of a payment that went out: intent and reservation settled.
Settle(c) ==
  /\ At(c, "ok")
  /\ ledger' = [ledger EXCEPT ![call[c].entry] =
                  [@ EXCEPT !.state = "settled", !.intent = "succeeded"]]
  /\ call' = [call EXCEPT ![c] = Free]
  /\ UNCHANGED <<roster, seat, team, ask, locks, paid, failures>>

\* record_sent of any error: org::release has the seat's row.
CreditSeat(c) ==
  LET e == call[c].employee IN
  /\ call[c].stage \in {"refused", "unknown"}
  /\ seatLock[e] = Nobody
  /\ seatLock' = [seatLock EXCEPT ![e] = c]
  /\ call' = [call EXCEPT ![c].stage = "crediting", ![c].answer = call[c].stage,
                          ![c].team = teamOf[e]]
  /\ UNCHANGED <<roster, books, ask, teamLock, approvalLock, paid, failures>>

CreditTeam(c) ==
  LET t == call[c].team IN
  /\ At(c, "crediting")
  /\ teamLock[t] = Nobody
  /\ teamLock' = [teamLock EXCEPT ![t] = c]
  /\ Go(c, "returning")
  /\ UNCHANGED <<roster, books, ask, seatLock, approvalLock, paid, failures>>

Mut_IntentAfterTimedOut(r, answer) == "failed"
\* An answer settles the intent; silence leaves it in flight.
IntentAfter(r, answer) == IF answer = "refused" THEN "failed" ELSE r.intent

Released(r) == [r EXCEPT !.state = "released"]

\* Both buckets' CHECK: no row goes below zero.
Covered(e, t, m) == seat[e].reserved >= m /\ seat[e].count > 0 /\ team[t] >= m

\* The release commits as a whole, or fails a CHECK as a whole.
Release(c) ==
  LET e == call[c].employee
      m == call[c].amount
      i == call[c].entry
      t == call[c].team
  IN
  /\ At(c, "returning")
  /\ IF Covered(e, t, m)
     THEN /\ seat' = [seat EXCEPT ![e] = [reserved |-> @.reserved - m, count |-> @.count - 1]]
          /\ team' = [team EXCEPT ![t] = @ - m]
          /\ ledger' = [ledger EXCEPT ![i] =
               [Released(@) EXCEPT !.intent = IntentAfter(ledger[i], call[c].answer)]]
     ELSE UNCHANGED books
  /\ Ends(c)
  /\ UNCHANGED <<roster, ask, paid, failures>>

\* The process dies, or a statement fails: the transaction never was, and a
\* token dropped on the way leaves its reservation held.
Fail(c) ==
  /\ ~At(c, "idle")
  /\ failures < MaxFailures
  /\ failures' = failures + 1
  /\ Ends(c)
  /\ UNCHANGED <<roster, books, ask, paid>>

-----------------------------------------------------------------------------
(* People.                                                                 *)

\* deny waits for the row like a redemption does.
Deny(a) ==
  /\ Redeemable(a) /\ approvalLock[a] = Nobody
  /\ approval' = [approval EXCEPT ![a].state = "denied"]
  /\ UNCHANGED <<roster, books, expired, call, locks, paid, failures>>

Expire(a) ==
  /\ a \notin expired
  /\ expired' = expired \cup {a}
  /\ UNCHANGED <<roster, books, approval, call, locks, paid, failures>>

Halt ==
  /\ halted' = ~halted
  /\ UNCHANGED <<standing, teamOf, moves, books, ask, call, locks, paid, failures>>

Suspend(e) ==
  /\ standing' = [standing EXCEPT ![e] = IF @ = "active" THEN "suspended" ELSE "active"]
  /\ UNCHANGED <<halted, teamOf, moves, books, ask, call, locks, paid, failures>>

\* set_member.
Move(e, t) ==
  /\ teamOf[e] # t
  /\ moves < MaxMoves
  /\ moves' = moves + 1
  /\ teamOf' = [teamOf EXCEPT ![e] = t]
  /\ UNCHANGED <<halted, standing, books, ask, call, locks, paid, failures>>

-----------------------------------------------------------------------------
Reserves(c) == Redeem(c) \/ TakeSeat(c) \/ TakeTeam(c) \/ Commit(c)
Pays(c)     == BeginSend(c) \/ Pay(c) \/ Settle(c)
Returns(c)  == CreditSeat(c) \/ CreditTeam(c) \/ Release(c)

Next ==
  \/ \E c \in Calls :
       \/ \E e \in Employees, m \in Amounts : Rule(c, e, m)
       \/ \E a \in DOMAIN approval : StartRedeem(c, a)
       \/ Reserves(c) \/ Pays(c) \/ Returns(c) \/ Fail(c)
  \/ \E e \in Employees, m \in Amounts : RequestApproval(e, m)
  \/ \E a \in DOMAIN approval : Deny(a) \/ Expire(a)
  \/ \E e \in Suspendable : Suspend(e)
  \/ \E e \in Employees, t \in Teams : Move(e, t)
  \/ Halt

Spec == Init /\ [][Next]_vars

-----------------------------------------------------------------------------
(* Properties.                                                             *)

\* A seat's bucket is the sum of its reservations that were not released,
\* through refusals after the seat was charged, crashes, and releases.
SeatLedger ==
  \A e \in Employees :
    /\ seat[e].reserved = Total(Entries(e))
    /\ seat[e].count = Cardinality(Entries(e))

\* Over all teams together nothing is created or lost, even when an employee
\* moves between its reservation and its release (org::release credits the
\* team of that moment); while nobody moves this holds of each team.
TeamLedger ==
  /\ MapThenSumSet(LAMBDA t : team[t], Teams) = Total({i \in DOMAIN ledger : Live(i)})
  /\ moves = 0 =>
       \A t \in Teams :
         team[t] = Total({i \in DOMAIN ledger : Live(i) /\ teamOf[ledger[i].employee] = t})

\* Both ledgers add up: what a seat and the teams hold is what was reserved
\* and not released (spend::reserve and release, org::reserve and release).
LedgersAgree == SeatLedger /\ TeamLedger

\* One accord, one payment: an approval backs at most one entry, whoever
\* redeems, denies or dies meanwhile, and a denied one backs none.
ApprovedOnce ==
  \A i \in DOMAIN ledger :
    LET a == ledger[i].approval IN
    a # 0 =>
      /\ approval[a].state = "redeemed"
      /\ \A j \in DOMAIN ledger : ledger[j].approval = a => j = i

\* Money that moved is visible: its intent says in flight or succeeded, never
\* failed, whatever was heard from the rail and whoever died.
MovedIsVisible == \A i \in paid : ledger[i].intent \in {"in_flight", "succeeded"}

\* Two rulings made on the same headroom cannot both spend it: no payment the
\* policy allowed by itself takes the day past max_per_day.
RuledWithinDay ==
  [][\A e \in Employees :
       (Len(ledger') > Len(ledger) /\ ledger'[Len(ledger')].employee = e
          /\ ledger'[Len(ledger')].approval = 0)
       => seat'[e].reserved <= PolicyDay]_vars

\* The row a call waits for is held by whom.
Awaits(c) ==
  CASE At(c, "redeeming") -> approvalLock[call[c].approval]
    [] call[c].stage \in {"reserving", "refused", "unknown"} -> seatLock[call[c].employee]
    [] call[c].stage \in {"charging", "crediting"} -> teamLock[call[c].team]
    [] OTHER -> Nobody

\* Rulings, redemptions and releases take their rows in one order and give them
\* up on every path: no group of calls waits for itself, and no row is held by a
\* call that has gone.
LocksComeFree ==
  /\ \A S \in (SUBSET Calls) \ {{}} : \E c \in S : Awaits(c) \notin S
  /\ \A c \in Calls : At(c, "idle") =>
       /\ \A e \in Employees : seatLock[e] # c
       /\ \A t \in Teams : teamLock[t] # c
       /\ \A a \in 1..MaxApprovals : approvalLock[a] # c

-----------------------------------------------------------------------------
(* What the documentation says and the code does not do.                   *)

\* A payment is released only if the money did not move (gate.rs:222, effects.rs:42),
\* so the daily cap bounds what an employee can have moved in a day.
MovedWithinDay ==
  \A e \in Employees : Total({i \in paid : ledger[i].employee = e}) <= DailyTotal[e]
=============================================================================
