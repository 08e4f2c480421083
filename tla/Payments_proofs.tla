--------------------------- MODULE Payments_proofs ---------------------------
(***************************************************************************)
(* Proofs about Payments, for any number of employees, teams and calls and *)
(* any caps and budgets: the buckets stay within them, no group of calls   *)
(* waits for itself, an approval pays once, a ruling respects the day,     *)
(* money that moved is never recorded as failed, the ledgers add up, and   *)
(* the caps bound the entries as they bound the buckets.                   *)
(*                                                                         *)
(* The strengthening is the locking discipline: which stages of a call     *)
(* hold which row, and what the holder of a row was told by it; for the    *)
(* ledgers, that the entry a call has in hand is live and its own, and for *)
(* the sums, arguments from the smallest set of which a claim fails.       *)
(***************************************************************************)
EXTENDS Payments, SequenceTheorems, FiniteSetTheorems, WellFoundedInduction, TLAPS

HoldsApproval == {"reserving", "charging", "committing"}
HoldsSeat     == {"charging", "committing", "crediting", "returning"}
HoldsTeam     == {"committing", "returning"}
OwnsEntry     == {"authorised", "calling", "ok", "refused", "unknown", "crediting", "returning"}

\* What a call at work knows of it.
BriefedAt(c) ==
  ~At(c, "idle") =>
    /\ call[c].employee \in Employees
    /\ call[c].amount \in Amounts
    /\ call[c].approval \in 0..Len(approval)
    /\ At(c, "redeeming") => call[c].approval # 0
    /\ call[c].stage \in HoldsSeat => call[c].team \in Teams
    /\ call[c].stage \in OwnsEntry => call[c].entry \in DOMAIN ledger

Briefed == \A c \in Calls : BriefedAt(c)

\* A row is locked by exactly the calls whose stage says so.
Discipline ==
  \A c \in Calls :
    /\ \A e \in Employees :
         seatLock[e] = c <=> call[c].stage \in HoldsSeat /\ call[c].employee = e
    /\ \A t \in Teams :
         teamLock[t] = c <=> call[c].stage \in HoldsTeam /\ call[c].team = t
    /\ \A a \in 1..MaxApprovals :
         approvalLock[a] = c <=> call[c].stage \in HoldsApproval /\ call[c].approval = a

\* What a locked row said still holds when its holder writes.
ToldAt(c) ==
  /\ call[c].stage \in {"charging", "committing"} =>
       SeatAllows(call[c].employee, call[c].amount)
  /\ At(c, "committing") => TeamAllows(call[c].team, call[c].amount)
  /\ call[c].stage \in HoldsApproval /\ call[c].approval # 0 =>
       Redeemable(call[c].approval)

Told == \A c \in Calls : ToldAt(c)

IInv == TypeOK /\ Briefed /\ Discipline /\ Told

-----------------------------------------------------------------------------
(* Records and sequences.                                                  *)

LEMMA Limits ==
  /\ MaxApprovals \in Nat /\ MaxMoves \in Nat /\ MaxFailures \in Nat
  /\ DailyCount \in Nat /\ PolicyDay \in Nat
  /\ 0 \in 0..MaxApprovals
BY PaymentsAssumption

LEMMA TaskIsCall ==
  ASSUME NEW s \in Stage, NEW e \in Employees \cup {Nobody}, NEW m \in Amounts \cup {0},
         NEW a \in 0..MaxApprovals, NEW i \in Nat
  PROVE  /\ Task(s, e, m, a, i) \in Call
         /\ Task(s, e, m, a, i).stage = s
         /\ Task(s, e, m, a, i).employee = e
         /\ Task(s, e, m, a, i).amount = m
         /\ Task(s, e, m, a, i).approval = a
         /\ Task(s, e, m, a, i).entry = i
BY DEF Task, Call

LEMMA FreeIsCall == Free \in Call
BY PaymentsAssumption DEF Free, Task, Call, Stage

LEMMA CallUpdates ==
  ASSUME NEW r \in Call, NEW s \in Stage, NEW t \in Teams, NEW x \in {"refused", "unknown"}
  PROVE  /\ [r EXCEPT !.stage = s] \in Call
         /\ [r EXCEPT !.stage = s, !.team = t] \in Call
         /\ [r EXCEPT !.stage = s, !.answer = x, !.team = t] \in Call
<1>1. [r EXCEPT !.stage = s] \in Call
  BY DEF Call
<1>2. \A q \in Call : [q EXCEPT !.team = t] \in Call
  BY DEF Call
<1>3. \A q \in Call : [q EXCEPT !.answer = x] \in Call
  BY DEF Call
<1>4. QED
  BY <1>1, <1>2, <1>3

LEMMA FreeHoldsNothing ==
  /\ Free.stage = "idle"
  /\ "idle" \notin HoldsApproval \cup HoldsSeat \cup HoldsTeam \cup OwnsEntry
BY DEF Free, Task, HoldsApproval, HoldsSeat, HoldsTeam, OwnsEntry

\* The rows of a table are numbered from one.
LEMMA Tables ==
  ASSUME TypeOK
  PROVE  /\ Len(approval) \in Nat /\ Len(approval) <= MaxApprovals
         /\ DOMAIN approval = 1..Len(approval)
         /\ \A a \in DOMAIN approval : approval[a] \in Approval
         /\ Len(ledger) \in Nat
         /\ DOMAIN ledger = 1..Len(ledger)
         /\ \A i \in DOMAIN ledger : ledger[i] \in Reservation
<1>1. approval \in Seq(Approval) /\ Len(approval) <= MaxApprovals /\ ledger \in Seq(Reservation)
  BY DEF TypeOK
<1>2. /\ Len(approval) \in Nat /\ DOMAIN approval = 1..Len(approval)
      /\ Len(ledger) \in Nat /\ DOMAIN ledger = 1..Len(ledger)
  BY <1>1, LenProperties
<1>3. QED
  BY <1>1, <1>2, ElementOfSeq

\* One entry of the ledger rewritten.
LEMMA LedgerUpdate ==
  ASSUME ledger \in Seq(Reservation), NEW i \in DOMAIN ledger, NEW r \in Reservation,
         ledger' = [ledger EXCEPT ![i] = r]
  PROVE  /\ ledger' \in Seq(Reservation)
         /\ Len(ledger') = Len(ledger)
         /\ DOMAIN ledger' = DOMAIN ledger
         /\ \A j \in DOMAIN ledger : ledger'[j] = IF j = i THEN r ELSE ledger[j]
<1>1. i \in 1..Len(ledger)
  BY LenProperties
<1>2. QED
  BY <1>1, ExceptSeq, LenProperties

\* One entry added to it.
LEMMA LedgerAppend ==
  ASSUME ledger \in Seq(Reservation), NEW r \in Reservation, ledger' = Append(ledger, r)
  PROVE  /\ ledger' \in Seq(Reservation)
         /\ Len(ledger') = Len(ledger) + 1
         /\ DOMAIN ledger' = DOMAIN ledger \cup {Len(ledger) + 1}
         /\ Len(ledger) + 1 \notin DOMAIN ledger
         /\ ledger'[Len(ledger) + 1] = r
         /\ \A j \in DOMAIN ledger : ledger'[j] = ledger[j]
<1>1. /\ Len(ledger) \in Nat /\ DOMAIN ledger = 1..Len(ledger)
  BY LenProperties
<1>2. /\ ledger' \in Seq(Reservation)
      /\ Len(ledger') = Len(ledger) + 1
      /\ \A j \in 1..Len(ledger) : ledger'[j] = ledger[j]
      /\ ledger'[Len(ledger) + 1] = r
  BY AppendProperties
<1>3. DOMAIN ledger' = 1..Len(ledger')
  BY <1>2, LenProperties
<1>4. QED
  BY <1>1, <1>2, <1>3

\* The approval a call redeemed is the only one its commit changes.
LEMMA ApprovalSpent ==
  ASSUME approval \in Seq(Approval), NEW c \in Calls,
         call[c].approval \in 0..Len(approval)
  PROVE  /\ Spent(c) \in Seq(Approval)
         /\ Len(Spent(c)) = Len(approval)
         /\ DOMAIN Spent(c) = DOMAIN approval
         /\ \A a \in DOMAIN approval :
              a # call[c].approval => Spent(c)[a] = approval[a]
         /\ call[c].approval # 0 => Spent(c)[call[c].approval].state = "redeemed"
<1>1. Len(approval) \in Nat /\ DOMAIN approval = 1..Len(approval)
  BY LenProperties
<1>2. CASE call[c].approval = 0
  BY <1>1, <1>2 DEF Spent
<1>3. CASE call[c].approval # 0
  <2> DEFINE a == call[c].approval
             r == [approval[a] EXCEPT !.state = "redeemed"]
  <2>1. a \in 1..Len(approval)
    BY <1>1, <1>3
  <2>2. approval[a] \in Approval
    BY <2>1, ElementOfSeq
  <2>3. r \in Approval /\ r.state = "redeemed"
    BY <2>2 DEF Approval
  <2>4. Spent(c) = [approval EXCEPT ![a] = r]
    BY <1>3 DEF Spent
  <2> HIDE DEF r, a
  <2>5. /\ Spent(c) \in Seq(Approval)
        /\ Len(Spent(c)) = Len(approval)
        /\ \A j \in 1..Len(approval) : Spent(c)[j] = IF j = a THEN r ELSE approval[j]
    BY <2>1, <2>3, <2>4, ExceptSeq
  <2>6. DOMAIN Spent(c) = 1..Len(approval)
    BY <2>5, LenProperties
  <2>7. QED
    BY <1>1, <2>1, <2>3, <2>5, <2>6 DEF a
<1>4. QED
  BY <1>2, <1>3

-----------------------------------------------------------------------------
(* The buckets.                                                            *)

\* A seat's bucket rewritten within its cap.
LEMMA SeatWritten ==
  ASSUME TypeOK, NEW e \in Employees, NEW x \in Nat, NEW n \in 0..DailyCount,
         x <= DailyTotal[e], seat' = [seat EXCEPT ![e] = [reserved |-> x, count |-> n]]
  PROVE  /\ seat' \in [Employees -> [reserved : Nat, count : 0..DailyCount]]
         /\ \A f \in Employees : seat'[f].reserved <= DailyTotal[f]
         /\ \A f \in Employees : f # e => seat'[f] = seat[f]
         /\ seat'[e].reserved = x
<1>1. seat' \in [Employees -> [reserved : Nat, count : 0..DailyCount]]
  BY DEF TypeOK
<1>2. seat'[e].reserved = x /\ \A f \in Employees : f # e => seat'[f] = seat[f]
  BY DEF TypeOK
<1>3. QED
  BY <1>1, <1>2 DEF TypeOK

\* A team's bucket rewritten within its budget.
LEMMA TeamWritten ==
  ASSUME TypeOK, NEW t \in Teams, NEW x \in Nat,
         x <= TeamBudget[t], team' = [team EXCEPT ![t] = x]
  PROVE  /\ team' \in [Teams -> Nat]
         /\ \A u \in Teams : team'[u] <= TeamBudget[u]
         /\ \A u \in Teams : u # t => team'[u] = team[u]
BY DEF TypeOK

-----------------------------------------------------------------------------
(* The discipline, one kind of step at a time.                             *)

\* A call that gives its rows up and goes on without any.
LEMMA UnlockKeepsDiscipline ==
  ASSUME TypeOK, Discipline, NEW c \in Calls, Unlock(c),
         NEW r \in Call, r.stage \notin HoldsApproval \cup HoldsSeat \cup HoldsTeam,
         call' = [call EXCEPT ![c] = r]
  PROVE  /\ Discipline'
         /\ call' \in [Calls -> Call]
         /\ seatLock' \in [Employees -> Calls \cup {Nobody}]
         /\ teamLock' \in [Teams -> Calls \cup {Nobody}]
         /\ approvalLock' \in [1..MaxApprovals -> Calls \cup {Nobody}]
<1> USE PaymentsAssumption
<1>1. /\ call' \in [Calls -> Call]
      /\ call'[c] = r
      /\ \A d \in Calls : d # c => call'[d] = call[d]
  BY DEF TypeOK
<1>2. /\ seatLock' \in [Employees -> Calls \cup {Nobody}]
      /\ teamLock' \in [Teams -> Calls \cup {Nobody}]
      /\ approvalLock' \in [1..MaxApprovals -> Calls \cup {Nobody}]
  BY DEF TypeOK, Unlock
<1>3. ASSUME NEW d \in Calls
      PROVE  /\ \A e \in Employees :
                  seatLock'[e] = d <=> call'[d].stage \in HoldsSeat /\ call'[d].employee = e
             /\ \A t \in Teams :
                  teamLock'[t] = d <=> call'[d].stage \in HoldsTeam /\ call'[d].team = t
             /\ \A a \in 1..MaxApprovals :
                  approvalLock'[a] = d
                    <=> call'[d].stage \in HoldsApproval /\ call'[d].approval = a
  <2>1. CASE d = c
    <3>1. /\ \A e \in Employees : seatLock'[e] # c
          /\ \A t \in Teams : teamLock'[t] # c
          /\ \A a \in 1..MaxApprovals : approvalLock'[a] # c
      BY DEF TypeOK, Unlock
    <3>2. QED
      BY <1>1, <2>1, <3>1
  <2>2. CASE d # c
    <3>1. /\ \A e \in Employees : seatLock'[e] = d <=> seatLock[e] = d
          /\ \A t \in Teams : teamLock'[t] = d <=> teamLock[t] = d
          /\ \A a \in 1..MaxApprovals : approvalLock'[a] = d <=> approvalLock[a] = d
      <4> d # Nobody
        OBVIOUS
      <4>1. \A e \in Employees : seatLock'[e] = d <=> seatLock[e] = d
        BY <2>2 DEF TypeOK, Unlock
      <4>2. \A t \in Teams : teamLock'[t] = d <=> teamLock[t] = d
        BY <2>2 DEF TypeOK, Unlock
      <4>3. \A a \in 1..MaxApprovals : approvalLock'[a] = d <=> approvalLock[a] = d
        BY <2>2 DEF TypeOK, Unlock
      <4>4. QED
        BY <4>1, <4>2, <4>3
    <3>2. QED
      BY <1>1, <2>2, <3>1 DEF Discipline
  <2>3. QED
    BY <2>1, <2>2
<1>4. Discipline'
  BY <1>3 DEF Discipline
<1>5. QED
  BY <1>1, <1>2, <1>4

\* A call that changes and holds what it held.
LEMMA SameHoldings ==
  ASSUME Discipline, NEW c \in Calls,
         \A d \in Calls : d # c => call'[d] = call[d],
         UNCHANGED locks,
         \/ /\ call[c].stage \notin HoldsSeat \cup HoldsTeam \cup HoldsApproval
            /\ call'[c].stage \notin HoldsSeat \cup HoldsTeam \cup HoldsApproval
         \/ /\ \A H \in {HoldsSeat, HoldsTeam, HoldsApproval} :
                 call'[c].stage \in H <=> call[c].stage \in H
            /\ call'[c].employee = call[c].employee /\ call'[c].team = call[c].team
            /\ call'[c].approval = call[c].approval
  PROVE  Discipline'
<1>1. \A e \in Employees, d \in Calls :
        seatLock'[e] = d <=> call'[d].stage \in HoldsSeat /\ call'[d].employee = e
  BY DEF Discipline, locks
<1>2. \A t \in Teams, d \in Calls :
        teamLock'[t] = d <=> call'[d].stage \in HoldsTeam /\ call'[d].team = t
  BY DEF Discipline, locks
<1>3. \A a \in 1..MaxApprovals, d \in Calls :
        approvalLock'[a] = d <=> call'[d].stage \in HoldsApproval /\ call'[d].approval = a
  BY DEF Discipline, locks
<1>4. QED
  BY <1>1, <1>2, <1>3 DEF Discipline

\* What the other calls know stays true while c changes only rows it holds.
LEMMA OthersKept ==
  ASSUME IInv, NEW c \in Calls,
         \A d \in Calls : d # c => call'[d] = call[d],
         \A e \in Employees : seat'[e] = seat[e] \/ seatLock[e] = c,
         \A t \in Teams : team'[t] = team[t] \/ teamLock[t] = c,
         \A a \in 1..Len(approval) :
           approval'[a].state = approval[a].state \/ approvalLock[a] = c,
         Len(approval') = Len(approval),
         DOMAIN ledger \subseteq DOMAIN ledger'
  PROVE  \A d \in Calls : d # c => BriefedAt(d)' /\ ToldAt(d)'
<1> SUFFICES ASSUME NEW d \in Calls, d # c PROVE BriefedAt(d)' /\ ToldAt(d)'
  OBVIOUS
<1> USE PaymentsAssumption
<1>1. call'[d] = call[d] /\ call[d] \in Call
  BY DEF IInv, TypeOK
<1>2. BriefedAt(d) /\ ToldAt(d)
  BY DEF IInv, Briefed, Told
<1>3. BriefedAt(d)'
  BY <1>1, <1>2 DEF BriefedAt, At
<1>4. call[d].stage \in {"charging", "committing"} =>
        seat'[call[d].employee] = seat[call[d].employee]
  <2> SUFFICES ASSUME call[d].stage \in {"charging", "committing"}
               PROVE  seat'[call[d].employee] = seat[call[d].employee]
    OBVIOUS
  <2>1. call[d].employee \in Employees
    BY <1>2 DEF BriefedAt, At
  <2>2. seatLock[call[d].employee] = d
    BY <2>1 DEF IInv, Discipline, HoldsSeat
  <2>3. QED
    BY <2>1, <2>2
<1>5. At(d, "committing") => team'[call[d].team] = team[call[d].team]
  <2> SUFFICES ASSUME At(d, "committing") PROVE team'[call[d].team] = team[call[d].team]
    OBVIOUS
  <2>1. call[d].team \in Teams
    BY <1>2 DEF BriefedAt, At, HoldsSeat
  <2>2. teamLock[call[d].team] = d
    BY <2>1 DEF IInv, Discipline, HoldsTeam, At
  <2>3. QED
    BY <2>1, <2>2
<1>6. ASSUME call[d].stage \in HoldsApproval, call[d].approval # 0
      PROVE  approval'[call[d].approval].state = approval[call[d].approval].state
  <2>1. call[d].approval \in 1..Len(approval)
    BY <1>2, <1>6, Tables DEF BriefedAt, At, HoldsApproval, IInv
  <2>2. Len(approval) \in Nat /\ Len(approval) <= MaxApprovals
    BY LenProperties DEF IInv, TypeOK
  <2>3. call[d].approval \in 1..MaxApprovals
    BY <2>1, <2>2
  <2>4. approvalLock[call[d].approval] = d
    BY <1>6, <2>3 DEF IInv, Discipline
  <2>5. QED
    BY <2>1, <2>4
<1>7. ToldAt(d)'
  BY <1>1, <1>2, <1>4, <1>5, <1>6 DEF ToldAt, At, SeatAllows, TeamAllows, Redeemable
<1>8. QED
  BY <1>3, <1>7

\* The parts of the invariant, put together again after a step of c.
LEMMA Assemble ==
  ASSUME TypeOK', Discipline', NEW c \in Calls, BriefedAt(c)', ToldAt(c)',
         \A d \in Calls : d # c => BriefedAt(d)' /\ ToldAt(d)'
  PROVE  IInv'
BY DEF IInv, Briefed, Told

-----------------------------------------------------------------------------
(* Each step of a call.                                                    *)

LEMMA RuleStep ==
  ASSUME IInv, NEW c \in Calls, NEW e \in Employees, NEW m \in Amounts, Rule(c, e, m)
  PROVE  IInv'
<1> USE PaymentsAssumption
<1> DEFINE r == Task("reserving", e, m, 0, 0)
<1>1. r \in Call /\ r.stage = "reserving" /\ r.employee = e /\ r.amount = m /\ r.approval = 0
  <2>1. "reserving" \in Stage
    BY DEF Stage
  <2>2. QED
    BY <2>1, TaskIsCall, Limits
<1>2. call' = [call EXCEPT ![c] = r]
  BY DEF Rule
<1> HIDE DEF r
<1>3. /\ call' \in [Calls -> Call] /\ call'[c] = r
      /\ \A d \in Calls : d # c => call'[d] = call[d]
  BY <1>1, <1>2 DEF IInv, TypeOK
<1>4. UNCHANGED <<roster, books, ask, locks, paid, failures>>
  BY DEF Rule
<1>5. TypeOK'
  BY <1>3, <1>4 DEF IInv, TypeOK, roster, books, ask, locks
<1>6. Discipline'
  <2>1. call[c].stage = "idle"
    BY DEF Rule, At
  <2>2. QED
    BY <1>1, <1>3, <1>4, <2>1 DEF IInv, Discipline, HoldsApproval, HoldsSeat, HoldsTeam, locks
<1>7. BriefedAt(c)' /\ ToldAt(c)'
  <2>1. Len(approval') \in Nat
    BY <1>4, Tables DEF IInv, ask
  <2>2. BriefedAt(c)'
    BY <1>1, <1>3, <2>1 DEF BriefedAt, At, HoldsSeat, OwnsEntry
  <2>3. ToldAt(c)'
    BY <1>1, <1>3 DEF ToldAt, At
  <2>4. QED
    BY <2>2, <2>3
<1>8. QED
  BY <1>3, <1>4, <1>5, <1>6, <1>7, OthersKept, Assemble DEF books, ask

LEMMA StartRedeemStep ==
  ASSUME IInv, NEW c \in Calls, NEW a \in DOMAIN approval, StartRedeem(c, a)
  PROVE  IInv'
<1> DEFINE e == approval[a].employee
           m == approval[a].amount
           r == Task("redeeming", e, m, a, 0)
<1>1. /\ r \in Call /\ r.stage = "redeeming" /\ r.approval = a
      /\ r.employee \in Employees /\ r.amount \in Amounts
      /\ a \in 1..Len(approval)
  <2>1. "redeeming" \in Stage
    BY DEF Stage
  <2>2. a \in 1..Len(approval) /\ approval[a] \in Approval /\ a \in 0..MaxApprovals
    BY Tables, Limits DEF IInv
  <2>3. e \in Employees /\ m \in Amounts
    BY <2>2 DEF Approval
  <2> HIDE DEF e, m
  <2>4. QED
    BY <2>1, <2>2, <2>3, TaskIsCall
<1>2. call' = [call EXCEPT ![c] = r]
  BY DEF StartRedeem
<1> HIDE DEF r
<1>3. /\ call' \in [Calls -> Call] /\ call'[c] = r
      /\ \A d \in Calls : d # c => call'[d] = call[d]
  BY <1>1, <1>2 DEF IInv, TypeOK
<1>4. UNCHANGED <<roster, books, ask, locks, paid, failures>>
  BY DEF StartRedeem
<1>5. TypeOK'
  BY <1>3, <1>4 DEF IInv, TypeOK, roster, books, ask, locks
<1>6. Discipline'
  <2>1. call[c].stage = "idle"
    BY DEF StartRedeem, At
  <2>2. call'[c].stage = "redeeming"
    BY <1>1, <1>3
  <2>3. QED
    BY <1>3, <1>4, <2>1, <2>2, SameHoldings
      DEF IInv, HoldsApproval, HoldsSeat, HoldsTeam, locks
<1>7. BriefedAt(c)'
  <2>1. Len(approval') = Len(approval) /\ Len(approval) \in Nat
    BY <1>4, Tables DEF IInv, ask
  <2>2. QED
    BY <1>1, <1>3, <2>1 DEF BriefedAt, At, HoldsSeat, OwnsEntry
<1>8. ToldAt(c)'
  BY <1>1, <1>3 DEF ToldAt, At, HoldsApproval
<1>9. QED
  BY <1>3, <1>4, <1>5, <1>6, <1>7, <1>8, OthersKept, Assemble DEF books, ask

\* A call that ends and leaves the books alone: a refusal, a crash.
LEMMA EndsStep ==
  ASSUME IInv, NEW c \in Calls, Ends(c),
         UNCHANGED <<roster, books, expired, paid>>, failures' \in 0..MaxFailures,
         \/ approval' = approval
         \/ approval' = Spent(c) /\ call[c].stage \in HoldsApproval
  PROVE  IInv'
<1> USE PaymentsAssumption
<1>1. Unlock(c) /\ call' = [call EXCEPT ![c] = Free]
  BY DEF Ends
<1>2. /\ Discipline'
      /\ call' \in [Calls -> Call]
      /\ seatLock' \in [Employees -> Calls \cup {Nobody}]
      /\ teamLock' \in [Teams -> Calls \cup {Nobody}]
      /\ approvalLock' \in [1..MaxApprovals -> Calls \cup {Nobody}]
  BY <1>1, FreeIsCall, FreeHoldsNothing, UnlockKeepsDiscipline DEF IInv
<1>3. call'[c].stage = "idle" /\ \A d \in Calls : d # c => call'[d] = call[d]
  BY <1>1, FreeHoldsNothing DEF IInv, TypeOK
<1>4. /\ approval' \in Seq(Approval) /\ Len(approval') = Len(approval)
      /\ DOMAIN approval' = DOMAIN approval
      /\ \A a \in 1..Len(approval) :
           approval'[a].state = approval[a].state \/ approvalLock[a] = c
  <2>1. CASE approval' = approval
    BY <2>1 DEF IInv, TypeOK
  <2>2. CASE approval' = Spent(c) /\ call[c].stage \in HoldsApproval
    <3>1. call[c].approval \in 0..Len(approval)
      BY <2>2 DEF IInv, Briefed, BriefedAt, At, HoldsApproval
    <3>2. /\ approval' \in Seq(Approval) /\ Len(approval') = Len(approval)
          /\ DOMAIN approval' = DOMAIN approval
          /\ \A a \in DOMAIN approval : a # call[c].approval => approval'[a] = approval[a]
      BY <2>2, <3>1, ApprovalSpent DEF IInv, TypeOK
    <3>3. \A a \in 1..Len(approval) : a = call[c].approval => approvalLock[a] = c
      <4>1. \A a \in 1..Len(approval) : a \in 1..MaxApprovals
        BY Tables, Limits DEF IInv
      <4>2. QED
        BY <2>2, <4>1 DEF IInv, Discipline
    <3>4. QED
      BY <3>2, <3>3, Tables DEF IInv
  <2>3. QED
    BY <2>1, <2>2
<1>5. TypeOK'
  BY <1>2, <1>4 DEF IInv, TypeOK, roster, books
<1>6. BriefedAt(c)' /\ ToldAt(c)'
  BY <1>3 DEF BriefedAt, ToldAt, At, HoldsApproval
<1>7. \A d \in Calls : d # c => BriefedAt(d)' /\ ToldAt(d)'
  BY <1>3, <1>4, OthersKept DEF books
<1>8. QED
  BY <1>2, <1>5, <1>6, <1>7, Assemble

LEMMA RefuseStep ==
  ASSUME IInv, NEW c \in Calls, call[c].stage \in HoldsApproval, Refuse(c)
  PROVE  IInv'
<1>1. failures' \in 0..MaxFailures
  BY DEF Refuse, IInv, TypeOK
<1>2. QED
  BY <1>1, EndsStep DEF Refuse

LEMMA FailStep ==
  ASSUME IInv, NEW c \in Calls, Fail(c)
  PROVE  IInv'
<1>1. failures' \in 0..MaxFailures
  BY Limits DEF Fail, IInv, TypeOK
<1>2. QED
  BY <1>1, EndsStep DEF Fail, ask

\* A step of c that only takes rows: what every other call knows is kept.
LEMMA LockingStep ==
  ASSUME IInv, NEW c \in Calls, UNCHANGED <<roster, books, ask, paid, failures>>,
         NEW r \in Call, call' = [call EXCEPT ![c] = r],
         seatLock' \in [Employees -> Calls \cup {Nobody}],
         teamLock' \in [Teams -> Calls \cup {Nobody}],
         approvalLock' \in [1..MaxApprovals -> Calls \cup {Nobody}],
         Discipline', BriefedAt(c)', ToldAt(c)'
  PROVE  IInv'
<1>1. /\ call' \in [Calls -> Call]
      /\ \A d \in Calls : d # c => call'[d] = call[d]
  BY DEF IInv, TypeOK
<1>2. TypeOK'
  BY <1>1 DEF IInv, TypeOK, roster, books, ask
<1>3. \A d \in Calls : d # c => BriefedAt(d)' /\ ToldAt(d)'
  BY <1>1, OthersKept DEF books, ask
<1>4. QED
  BY <1>2, <1>3, Assemble

LEMMA RedeemStep ==
  ASSUME IInv, NEW c \in Calls, Redeem(c)
  PROVE  IInv'
<1> USE PaymentsAssumption
<1> DEFINE a == call[c].approval
<1>0. /\ call[c] \in Call /\ call[c].stage = "redeeming"
      /\ BriefedAt(c)
      /\ call \in [Calls -> Call]
      /\ UNCHANGED <<roster, books, ask, seatLock, teamLock, paid, failures>>
  BY DEF Redeem, At, IInv, TypeOK, Briefed
<1>1. a \in 1..Len(approval) /\ a \in 1..MaxApprovals /\ a # 0
  BY <1>0, Tables, Limits DEF BriefedAt, At, IInv
<1>2. approvalLock[a] = Nobody
  BY DEF Redeem
<1>3. CASE Redeemable(a)
  <2> DEFINE r == [call[c] EXCEPT !.stage = "reserving"]
  <2>1. /\ r \in Call /\ r.stage = "reserving" /\ r.employee = call[c].employee
        /\ r.amount = call[c].amount /\ r.approval = a
    BY <1>0 DEF Call, Stage
  <2>2. call' = [call EXCEPT ![c] = r] /\ approvalLock' = [approvalLock EXCEPT ![a] = c]
    BY <1>3 DEF Redeem, Go
  <2> HIDE DEF r
  <2>3. call'[c] = r /\ \A d \in Calls : d # c => call'[d] = call[d]
    BY <1>0, <2>2
  <2>4. approvalLock' \in [1..MaxApprovals -> Calls \cup {Nobody}]
    BY <1>1, <2>2 DEF IInv, TypeOK
  <2>5. /\ approvalLock'[a] = c
        /\ \A b \in 1..MaxApprovals : b # a => approvalLock'[b] = approvalLock[b]
    BY <1>1, <2>2 DEF IInv, TypeOK
  <2>6. Discipline'
    <3>1. \A e \in Employees, d \in Calls :
            seatLock'[e] = d <=> call'[d].stage \in HoldsSeat /\ call'[d].employee = e
      BY <1>0, <2>1, <2>3 DEF IInv, Discipline, HoldsSeat
    <3>2. \A t \in Teams, d \in Calls :
            teamLock'[t] = d <=> call'[d].stage \in HoldsTeam /\ call'[d].team = t
      BY <1>0, <2>1, <2>3 DEF IInv, Discipline, HoldsTeam
    <3>3. ASSUME NEW b \in 1..MaxApprovals, NEW d \in Calls
          PROVE  approvalLock'[b] = d <=> call'[d].stage \in HoldsApproval /\ call'[d].approval = b
      <4>1. CASE d = c
        <5>1. approvalLock[b] # c
          BY <1>0 DEF IInv, Discipline, HoldsApproval
        <5>2. QED
          BY <2>1, <2>3, <2>5, <4>1, <5>1 DEF HoldsApproval
      <4>2. CASE d # c
        <5>1. approvalLock[b] = d <=> call[d].stage \in HoldsApproval /\ call[d].approval = b
          BY DEF IInv, Discipline
        <5>2. approvalLock'[b] = d <=> approvalLock[b] = d
          BY <1>2, <2>5, <4>2
        <5>3. QED
          BY <2>3, <4>2, <5>1, <5>2
      <4>3. QED
        BY <4>1, <4>2
    <3>4. QED
      BY <3>1, <3>2, <3>3 DEF Discipline
  <2>7. BriefedAt(c)'
    BY <1>0, <2>1, <2>3 DEF BriefedAt, At, HoldsSeat, OwnsEntry, ask
  <2>8. ToldAt(c)'
    BY <1>0, <1>3, <2>1, <2>3 DEF ToldAt, At, Redeemable, ask
  <2>9. QED
    BY <1>0, <2>1, <2>2, <2>4, <2>6, <2>7, <2>8, LockingStep DEF IInv, TypeOK
<1>4. CASE ~Redeemable(a)
  <2>1. call' = [call EXCEPT ![c] = Free] /\ UNCHANGED locks
    BY <1>0, <1>4 DEF Redeem, locks
  <2>2. call'[c] = Free /\ \A d \in Calls : d # c => call'[d] = call[d]
    BY <1>0, <2>1
  <2>3. Discipline'
    BY <1>0, <2>1, <2>2, FreeHoldsNothing, SameHoldings
      DEF IInv, HoldsApproval, HoldsSeat, HoldsTeam
  <2>4. BriefedAt(c)' /\ ToldAt(c)'
    BY <2>2, FreeHoldsNothing DEF BriefedAt, ToldAt, At, HoldsApproval
  <2>5. QED
    BY <1>0, <2>1, <2>3, <2>4, FreeIsCall, LockingStep DEF IInv, TypeOK, locks
<1>5. QED
  BY <1>3, <1>4


\* The seat's row taken, before the reservation or before the release.
LEMMA SeatTaken ==
  ASSUME IInv, NEW c \in Calls, NEW e \in Employees, NEW r \in Call,
         seatLock[e] = Nobody,
         call[c].stage \notin HoldsSeat \cup HoldsTeam,
         r.stage \in HoldsSeat \ HoldsTeam, r.employee = e,
         r.stage \in HoldsApproval <=> call[c].stage \in HoldsApproval,
         r.approval = call[c].approval,
         call' = [call EXCEPT ![c] = r],
         seatLock' = [seatLock EXCEPT ![e] = c],
         UNCHANGED <<teamLock, approvalLock>>
  PROVE  /\ Discipline'
         /\ seatLock' \in [Employees -> Calls \cup {Nobody}]
         /\ teamLock' \in [Teams -> Calls \cup {Nobody}]
         /\ approvalLock' \in [1..MaxApprovals -> Calls \cup {Nobody}]
<1> USE PaymentsAssumption
<1>1. call'[c] = r /\ \A d \in Calls : d # c => call'[d] = call[d]
  BY DEF IInv, TypeOK
<1>2. /\ seatLock' \in [Employees -> Calls \cup {Nobody}] /\ seatLock'[e] = c
      /\ \A f \in Employees : f # e => seatLock'[f] = seatLock[f]
  BY DEF IInv, TypeOK
<1>3. ASSUME NEW f \in Employees, NEW d \in Calls
      PROVE  seatLock'[f] = d <=> call'[d].stage \in HoldsSeat /\ call'[d].employee = f
  <2>1. seatLock[f] = d <=> call[d].stage \in HoldsSeat /\ call[d].employee = f
    BY DEF IInv, Discipline
  <2>2. CASE d = c
    BY <1>1, <1>2, <2>1, <2>2
  <2>3. CASE d # c
    BY <1>1, <1>2, <2>1, <2>3
  <2>4. QED
    BY <2>2, <2>3
<1>4. \A t \in Teams, d \in Calls :
        teamLock'[t] = d <=> call'[d].stage \in HoldsTeam /\ call'[d].team = t
  BY <1>1 DEF IInv, Discipline
<1>5. \A a \in 1..MaxApprovals, d \in Calls :
        approvalLock'[a] = d <=> call'[d].stage \in HoldsApproval /\ call'[d].approval = a
  BY <1>1 DEF IInv, Discipline
<1>6. Discipline'
  BY <1>3, <1>4, <1>5 DEF Discipline
<1>7. QED
  BY <1>2, <1>6 DEF IInv, TypeOK

\* The team's row taken, after the seat's.
LEMMA TeamTaken ==
  ASSUME IInv, NEW c \in Calls, NEW t \in Teams, NEW r \in Call,
         teamLock[t] = Nobody,
         call[c].stage \in HoldsSeat \ HoldsTeam,
         r.stage \in HoldsTeam, r.team = t, r.employee = call[c].employee,
         r.stage \in HoldsApproval <=> call[c].stage \in HoldsApproval,
         r.approval = call[c].approval,
         call' = [call EXCEPT ![c] = r],
         teamLock' = [teamLock EXCEPT ![t] = c],
         UNCHANGED <<seatLock, approvalLock>>
  PROVE  /\ Discipline'
         /\ seatLock' \in [Employees -> Calls \cup {Nobody}]
         /\ teamLock' \in [Teams -> Calls \cup {Nobody}]
         /\ approvalLock' \in [1..MaxApprovals -> Calls \cup {Nobody}]
<1> USE PaymentsAssumption
<1>1. call'[c] = r /\ \A d \in Calls : d # c => call'[d] = call[d]
  BY DEF IInv, TypeOK
<1>2. /\ teamLock' \in [Teams -> Calls \cup {Nobody}] /\ teamLock'[t] = c
      /\ \A u \in Teams : u # t => teamLock'[u] = teamLock[u]
  BY DEF IInv, TypeOK
<1>3. r.stage \in HoldsSeat
  BY DEF HoldsSeat, HoldsTeam
<1>4. ASSUME NEW u \in Teams, NEW d \in Calls
      PROVE  teamLock'[u] = d <=> call'[d].stage \in HoldsTeam /\ call'[d].team = u
  <2>1. teamLock[u] = d <=> call[d].stage \in HoldsTeam /\ call[d].team = u
    BY DEF IInv, Discipline
  <2>2. CASE d = c
    BY <1>1, <1>2, <2>1, <2>2
  <2>3. CASE d # c
    BY <1>1, <1>2, <2>1, <2>3
  <2>4. QED
    BY <2>2, <2>3
<1>5. \A e \in Employees, d \in Calls :
        seatLock'[e] = d <=> call'[d].stage \in HoldsSeat /\ call'[d].employee = e
  BY <1>1, <1>3 DEF IInv, Discipline
<1>6. \A a \in 1..MaxApprovals, d \in Calls :
        approvalLock'[a] = d <=> call'[d].stage \in HoldsApproval /\ call'[d].approval = a
  BY <1>1 DEF IInv, Discipline
<1>7. Discipline'
  BY <1>4, <1>5, <1>6 DEF Discipline
<1>8. QED
  BY <1>2, <1>7 DEF IInv, TypeOK

LEMMA TakeSeatStep ==
  ASSUME IInv, NEW c \in Calls, TakeSeat(c)
  PROVE  IInv'
<1> USE PaymentsAssumption
<1> DEFINE e == call[c].employee
<1>0. /\ call[c] \in Call /\ call[c].stage = "reserving"
      /\ BriefedAt(c) /\ ToldAt(c)
      /\ seatLock[e] = Nobody
  BY DEF TakeSeat, At, IInv, TypeOK, Briefed, Told
<1>1. e \in Employees /\ teamOf[e] \in Teams
  BY <1>0 DEF BriefedAt, At, IInv, TypeOK
<1>2. CASE SeatAllows(e, call[c].amount)
  <2> DEFINE q == [call[c] EXCEPT !.stage = "charging"]
             r == [q EXCEPT !.team = teamOf[e]]
  <2>1. /\ q \in Call /\ q.stage = "charging" /\ q.employee = e
        /\ q.amount = call[c].amount /\ q.approval = call[c].approval
    BY <1>0 DEF Call, Stage
  <2>2. call' = [call EXCEPT ![c] = r]
    BY <1>2 DEF TakeSeat
  <2> HIDE DEF q
  <2>3. /\ r \in Call /\ r.stage = "charging" /\ r.employee = e /\ r.team \in Teams
        /\ r.amount = call[c].amount /\ r.approval = call[c].approval
    BY <1>1, <2>1 DEF Call
  <2> HIDE DEF r
  <2>4. /\ seatLock' = [seatLock EXCEPT ![e] = c]
        /\ UNCHANGED <<roster, books, ask, teamLock, approvalLock, paid, failures>>
    BY <1>2 DEF TakeSeat
  <2>5. call'[c] = r
    BY <2>2 DEF IInv, TypeOK
  <2>6. /\ Discipline'
        /\ seatLock' \in [Employees -> Calls \cup {Nobody}]
        /\ teamLock' \in [Teams -> Calls \cup {Nobody}]
        /\ approvalLock' \in [1..MaxApprovals -> Calls \cup {Nobody}]
    <3>1. /\ call[c].stage \notin HoldsSeat \cup HoldsTeam
          /\ r.stage \in HoldsSeat \ HoldsTeam
          /\ r.stage \in HoldsApproval <=> call[c].stage \in HoldsApproval
      BY <1>0, <2>3 DEF HoldsSeat, HoldsTeam, HoldsApproval
    <3>2. QED
      BY <1>0, <1>1, <2>2, <2>3, <2>4, <3>1, SeatTaken
  <2>7. BriefedAt(c)'
    BY <1>0, <2>3, <2>4, <2>5 DEF BriefedAt, At, OwnsEntry, ask
  <2>8. ToldAt(c)'
    BY <1>0, <1>2, <2>3, <2>4, <2>5
      DEF ToldAt, At, SeatAllows, Redeemable, HoldsApproval, ask, books
  <2>9. QED
    BY <2>2, <2>3, <2>4, <2>6, <2>7, <2>8, LockingStep
<1>3. CASE ~SeatAllows(e, call[c].amount)
  BY <1>0, <1>3, RefuseStep DEF TakeSeat, HoldsApproval
<1>4. QED
  BY <1>2, <1>3

LEMMA TakeTeamStep ==
  ASSUME IInv, NEW c \in Calls, TakeTeam(c)
  PROVE  IInv'
<1> USE PaymentsAssumption
<1> DEFINE t == call[c].team
<1>0. /\ call[c] \in Call /\ call[c].stage = "charging"
      /\ BriefedAt(c) /\ ToldAt(c)
      /\ teamLock[t] = Nobody
  BY DEF TakeTeam, At, IInv, TypeOK, Briefed, Told
<1>1. t \in Teams
  BY <1>0 DEF BriefedAt, At, HoldsSeat
<1>2. CASE TeamAllows(t, call[c].amount)
  <2> DEFINE r == [call[c] EXCEPT !.stage = "committing"]
  <2>1. /\ r \in Call /\ r.stage = "committing" /\ r.employee = call[c].employee
        /\ r.team = t /\ r.amount = call[c].amount /\ r.approval = call[c].approval
    BY <1>0 DEF Call, Stage
  <2>2. call' = [call EXCEPT ![c] = r]
    BY <1>2 DEF TakeTeam, Go
  <2> HIDE DEF r
  <2>3. /\ teamLock' = [teamLock EXCEPT ![t] = c]
        /\ UNCHANGED <<roster, books, ask, seatLock, approvalLock, paid, failures>>
    BY <1>2 DEF TakeTeam
  <2>4. call'[c] = r
    BY <2>2 DEF IInv, TypeOK
  <2>5. /\ Discipline'
        /\ seatLock' \in [Employees -> Calls \cup {Nobody}]
        /\ teamLock' \in [Teams -> Calls \cup {Nobody}]
        /\ approvalLock' \in [1..MaxApprovals -> Calls \cup {Nobody}]
    <3>1. /\ call[c].stage \in HoldsSeat \ HoldsTeam
          /\ r.stage \in HoldsTeam
          /\ r.stage \in HoldsApproval <=> call[c].stage \in HoldsApproval
      BY <1>0, <2>1 DEF HoldsSeat, HoldsTeam, HoldsApproval
    <3>2. QED
      BY <1>0, <1>1, <2>1, <2>2, <2>3, <3>1, TeamTaken
  <2>6. BriefedAt(c)'
    BY <1>0, <1>1, <2>1, <2>3, <2>4 DEF BriefedAt, At, OwnsEntry, ask
  <2>7. ToldAt(c)'
    BY <1>0, <1>2, <2>1, <2>3, <2>4
      DEF ToldAt, At, SeatAllows, TeamAllows, Redeemable, HoldsApproval, ask, books
  <2>8. QED
    BY <2>1, <2>2, <2>3, <2>5, <2>6, <2>7, LockingStep
<1>3. CASE ~TeamAllows(t, call[c].amount)
  BY <1>0, <1>3, RefuseStep DEF TakeTeam, HoldsApproval
<1>4. QED
  BY <1>2, <1>3


LEMMA CreditSeatStep ==
  ASSUME IInv, NEW c \in Calls, CreditSeat(c)
  PROVE  IInv'
<1> USE PaymentsAssumption
<1> DEFINE e == call[c].employee
<1>0. /\ call[c] \in Call /\ call[c].stage \in {"refused", "unknown"}
      /\ BriefedAt(c)
      /\ seatLock[e] = Nobody
  BY DEF CreditSeat, IInv, TypeOK, Briefed
<1>1. e \in Employees /\ teamOf[e] \in Teams
  BY <1>0 DEF BriefedAt, At, IInv, TypeOK
<1> DEFINE q == [call[c] EXCEPT !.stage = "crediting"]
           p == [q EXCEPT !.answer = call[c].stage]
           r == [p EXCEPT !.team = teamOf[e]]
<1>2. call' = [call EXCEPT ![c] = r]
  BY DEF CreditSeat
<1>3. /\ q \in Call /\ q.stage = "crediting" /\ q.employee = e
      /\ q.amount = call[c].amount /\ q.approval = call[c].approval /\ q.entry = call[c].entry
  BY <1>0 DEF Call, Stage
<1> HIDE DEF q
<1>4. /\ p \in Call /\ p.stage = "crediting" /\ p.employee = e
      /\ p.amount = call[c].amount /\ p.approval = call[c].approval /\ p.entry = call[c].entry
  BY <1>0, <1>3 DEF Call
<1> HIDE DEF p
<1>5. /\ r \in Call /\ r.stage = "crediting" /\ r.employee = e /\ r.team \in Teams
      /\ r.amount = call[c].amount /\ r.approval = call[c].approval /\ r.entry = call[c].entry
  BY <1>1, <1>4 DEF Call
<1> HIDE DEF r
<1>6. /\ seatLock' = [seatLock EXCEPT ![e] = c]
      /\ UNCHANGED <<roster, books, ask, teamLock, approvalLock, paid, failures>>
  BY DEF CreditSeat
<1>7. call'[c] = r
  BY <1>2 DEF IInv, TypeOK
<1>8. /\ Discipline'
      /\ seatLock' \in [Employees -> Calls \cup {Nobody}]
      /\ teamLock' \in [Teams -> Calls \cup {Nobody}]
      /\ approvalLock' \in [1..MaxApprovals -> Calls \cup {Nobody}]
  <2>1. /\ call[c].stage \notin HoldsSeat \cup HoldsTeam
        /\ r.stage \in HoldsSeat \ HoldsTeam
        /\ r.stage \in HoldsApproval <=> call[c].stage \in HoldsApproval
    BY <1>0, <1>5 DEF HoldsSeat, HoldsTeam, HoldsApproval
  <2>2. QED
    BY <1>0, <1>1, <1>2, <1>5, <1>6, <2>1, SeatTaken
<1>9. BriefedAt(c)'
  BY <1>0, <1>5, <1>6, <1>7 DEF BriefedAt, At, OwnsEntry, ask, books
<1>10. ToldAt(c)'
  BY <1>5, <1>7 DEF ToldAt, At, HoldsApproval
<1>11. QED
  BY <1>2, <1>5, <1>6, <1>8, <1>9, <1>10, LockingStep

LEMMA CreditTeamStep ==
  ASSUME IInv, NEW c \in Calls, CreditTeam(c)
  PROVE  IInv'
<1> USE PaymentsAssumption
<1> DEFINE t == call[c].team
           r == [call[c] EXCEPT !.stage = "returning"]
<1>0. /\ call[c] \in Call /\ call[c].stage = "crediting"
      /\ BriefedAt(c)
      /\ teamLock[t] = Nobody
  BY DEF CreditTeam, At, IInv, TypeOK, Briefed
<1>1. t \in Teams
  BY <1>0 DEF BriefedAt, At, HoldsSeat
<1>2. /\ r \in Call /\ r.stage = "returning" /\ r.employee = call[c].employee /\ r.team = t
      /\ r.amount = call[c].amount /\ r.approval = call[c].approval /\ r.entry = call[c].entry
  BY <1>0 DEF Call, Stage
<1>3. call' = [call EXCEPT ![c] = r]
  BY DEF CreditTeam, Go
<1> HIDE DEF r
<1>4. /\ teamLock' = [teamLock EXCEPT ![t] = c]
      /\ UNCHANGED <<roster, books, ask, seatLock, approvalLock, paid, failures>>
  BY DEF CreditTeam
<1>5. call'[c] = r
  BY <1>3 DEF IInv, TypeOK
<1>6. /\ Discipline'
      /\ seatLock' \in [Employees -> Calls \cup {Nobody}]
      /\ teamLock' \in [Teams -> Calls \cup {Nobody}]
      /\ approvalLock' \in [1..MaxApprovals -> Calls \cup {Nobody}]
  <2>1. /\ call[c].stage \in HoldsSeat \ HoldsTeam
        /\ r.stage \in HoldsTeam
        /\ r.stage \in HoldsApproval <=> call[c].stage \in HoldsApproval
    BY <1>0, <1>2 DEF HoldsSeat, HoldsTeam, HoldsApproval
  <2>2. QED
    BY <1>0, <1>1, <1>2, <1>3, <1>4, <2>1, TeamTaken
<1>7. BriefedAt(c)'
  BY <1>0, <1>1, <1>2, <1>4, <1>5 DEF BriefedAt, At, OwnsEntry, ask, books
<1>8. ToldAt(c)'
  BY <1>2, <1>5 DEF ToldAt, At, HoldsApproval
<1>9. QED
  BY <1>2, <1>3, <1>4, <1>6, <1>7, <1>8, LockingStep

\* A call between its reservation and the rail's answer holds no row.
LEMMA UnlockedStep ==
  ASSUME IInv, NEW c \in Calls, NEW s \in Stage, NEW r \in Call,
         call[c].stage \in OwnsEntry \ HoldsSeat, s \notin HoldsSeat \cup HoldsApproval,
         r.stage = s, s # "idle" => r = [call[c] EXCEPT !.stage = s],
         call' = [call EXCEPT ![c] = r],
         s # "redeeming",
         ledger' \in Seq(Reservation), DOMAIN ledger' = DOMAIN ledger,
         paid' \subseteq DOMAIN ledger,
         UNCHANGED <<roster, seat, team, ask, locks, failures>>
  PROVE  IInv'
<1>1. /\ call' \in [Calls -> Call] /\ call'[c] = r
      /\ \A d \in Calls : d # c => call'[d] = call[d]
      /\ call[c] \in Call /\ BriefedAt(c)
  BY DEF IInv, TypeOK, Briefed
<1>2. TypeOK'
  BY <1>1 DEF IInv, TypeOK, roster, ask, locks
<1>3. Discipline'
  BY <1>1, SameHoldings DEF IInv, OwnsEntry, HoldsSeat, HoldsTeam, HoldsApproval
<1>4. s # "idle" =>
        /\ r.employee = call[c].employee /\ r.amount = call[c].amount
        /\ r.approval = call[c].approval /\ r.entry = call[c].entry
  BY <1>1 DEF Call
<1>5. BriefedAt(c)'
  BY <1>1, <1>4 DEF BriefedAt, At, OwnsEntry, ask
<1>6. ToldAt(c)'
  BY <1>1 DEF ToldAt, At, HoldsSeat, HoldsApproval
<1>7. \A d \in Calls : d # c => BriefedAt(d)' /\ ToldAt(d)'
  BY <1>1, OthersKept DEF ask
<1>8. QED
  BY <1>2, <1>3, <1>5, <1>6, <1>7, Assemble

LEMMA BeginSendStep ==
  ASSUME IInv, NEW c \in Calls, BeginSend(c)
  PROVE  IInv'
<1> DEFINE i == call[c].entry
           r == [call[c] EXCEPT !.stage = "calling"]
           l == [ledger[i] EXCEPT !.intent = "in_flight"]
<1>0. /\ call[c] \in Call /\ call[c].stage = "authorised" /\ i \in DOMAIN ledger
  BY DEF BeginSend, At, IInv, TypeOK, Briefed, BriefedAt, OwnsEntry
<1>1. r \in Call /\ r.stage = "calling"
  BY <1>0 DEF Call, Stage
<1>2. l \in Reservation
  <2>1. ledger[i] \in Reservation
    BY <1>0, Tables DEF IInv
  <2>2. QED
    BY <2>1 DEF Reservation
<1>3. /\ call' = [call EXCEPT ![c] = r] /\ ledger' = [ledger EXCEPT ![i] = l]
      /\ UNCHANGED <<roster, seat, team, ask, locks, paid, failures>>
  BY DEF BeginSend, Go
<1>4. ledger' \in Seq(Reservation) /\ DOMAIN ledger' = DOMAIN ledger
  <2> HIDE DEF l, r
  <2>1. QED
    BY <1>0, <1>2, <1>3, LedgerUpdate DEF IInv, TypeOK
<1>5. paid' \subseteq DOMAIN ledger
  BY <1>3 DEF IInv, TypeOK
<1>6. "calling" \in Stage
  BY DEF Stage
<1>7. call[c].stage \in OwnsEntry \ HoldsSeat /\ "calling" \notin HoldsSeat \cup HoldsApproval
  BY <1>0 DEF OwnsEntry, HoldsSeat, HoldsApproval
<1>8. QED
  BY <1>1, <1>3, <1>4, <1>5, <1>6, <1>7, UnlockedStep

LEMMA PayStep ==
  ASSUME IInv, NEW c \in Calls, Pay(c)
  PROVE  IInv'
<1>0. /\ call[c] \in Call /\ call[c].stage = "calling" /\ call[c].entry \in DOMAIN ledger
  BY DEF Pay, At, IInv, TypeOK, Briefed, BriefedAt, OwnsEntry
<1>1. PICK s \in {"ok", "refused", "unknown"} : Go(c, s)
  BY DEF Pay
<1>2. s \in Stage
  BY DEF Stage
<1>3. [call[c] EXCEPT !.stage = s] \in Call /\ [call[c] EXCEPT !.stage = s].stage = s
  BY <1>0, <1>2 DEF Call
<1>4. paid' \subseteq DOMAIN ledger
  BY <1>0 DEF Pay, IInv, TypeOK
<1>5. /\ call' = [call EXCEPT ![c] = [call[c] EXCEPT !.stage = s]]
      /\ UNCHANGED <<roster, books, ask, locks, failures>>
  BY <1>1 DEF Pay, Go
<1>6. ledger' \in Seq(Reservation) /\ DOMAIN ledger' = DOMAIN ledger
  BY <1>5 DEF books, IInv, TypeOK
<1>7. call[c].stage \in OwnsEntry \ HoldsSeat /\ s \notin HoldsSeat \cup HoldsApproval
  BY <1>0 DEF OwnsEntry, HoldsSeat, HoldsApproval
<1>8. QED
  BY <1>2, <1>3, <1>4, <1>5, <1>6, <1>7, UnlockedStep DEF books

LEMMA SettleStep ==
  ASSUME IInv, NEW c \in Calls, Settle(c)
  PROVE  IInv'
<1> DEFINE i == call[c].entry
           k == [ledger[i] EXCEPT !.state = "settled"]
           l == [k EXCEPT !.intent = "succeeded"]
<1>0. /\ call[c] \in Call /\ call[c].stage = "ok" /\ i \in DOMAIN ledger
  BY DEF Settle, At, IInv, TypeOK, Briefed, BriefedAt, OwnsEntry
<1>1. k \in Reservation
  <2>1. ledger[i] \in Reservation
    BY <1>0, Tables DEF IInv
  <2>2. QED
    BY <2>1 DEF Reservation
<1>2. /\ call' = [call EXCEPT ![c] = Free] /\ ledger' = [ledger EXCEPT ![i] = l]
      /\ UNCHANGED <<roster, seat, team, ask, locks, paid, failures>>
  BY DEF Settle
<1> HIDE DEF k
<1>3. l \in Reservation
  BY <1>1 DEF Reservation
<1> HIDE DEF l
<1>4. ledger' \in Seq(Reservation) /\ DOMAIN ledger' = DOMAIN ledger
  BY <1>0, <1>2, <1>3, LedgerUpdate DEF IInv, TypeOK
<1>5. paid' \subseteq DOMAIN ledger
  BY <1>2 DEF IInv, TypeOK
<1>6. "idle" \in Stage
  BY DEF Stage
<1>7. call[c].stage \in OwnsEntry \ HoldsSeat /\ "idle" \notin HoldsSeat \cup HoldsApproval
  BY <1>0 DEF OwnsEntry, HoldsSeat, HoldsApproval
<1>8. QED
  BY <1>2, <1>4, <1>5, <1>6, <1>7, FreeIsCall, FreeHoldsNothing, UnlockedStep


LEMMA CommitStep ==
  ASSUME IInv, NEW c \in Calls, Commit(c)
  PROVE  IInv'
<1> DEFINE e == call[c].employee
           m == call[c].amount
           t == call[c].team
           a == call[c].approval
<1>0. /\ call[c] \in Call /\ call[c].stage = "committing"
      /\ BriefedAt(c) /\ ToldAt(c)
  BY DEF Commit, At, IInv, TypeOK, Briefed, Told
<1>1. e \in Employees /\ m \in Amounts /\ m \in Nat /\ t \in Teams /\ a \in 0..Len(approval)
  BY <1>0, PaymentsAssumption DEF BriefedAt, At, HoldsSeat
<1>2. CASE StillWithinDay(c)
  <2> DEFINE l == [employee |-> e, amount |-> m, state |-> "reserved",
                   approval |-> a, intent |-> "none"]
             r == Task("authorised", e, m, 0, Len(ledger) + 1)
  <2>1. /\ seat' = [seat EXCEPT ![e] = [reserved |-> @.reserved + m, count |-> @.count + 1]]
        /\ team' = [team EXCEPT ![t] = @ + m]
        /\ ledger' = Append(ledger, l)
        /\ approval' = Spent(c)
        /\ Unlock(c)
        /\ call' = [call EXCEPT ![c] = r]
        /\ UNCHANGED <<roster, expired, paid, failures>>
    BY <1>2 DEF Commit
  <2>2. /\ seat' \in [Employees -> [reserved : Nat, count : 0..DailyCount]]
        /\ \A f \in Employees : seat'[f].reserved <= DailyTotal[f]
        /\ \A f \in Employees : f # e => seat'[f] = seat[f]
    <3>1. /\ seat[e].reserved \in Nat /\ seat[e].count \in 0..DailyCount
          /\ seat[e].count < DailyCount /\ seat[e].reserved + m <= DailyTotal[e]
      BY <1>0, <1>1 DEF ToldAt, At, SeatAllows, IInv, TypeOK
    <3> HIDE DEF e, m
    <3>2. seat[e].reserved + m \in Nat /\ seat[e].count + 1 \in 0..DailyCount
      BY <1>1, <3>1, Limits
    <3>3. QED
      BY <1>1, <2>1, <3>1, <3>2, SeatWritten DEF IInv
  <2>3. /\ team' \in [Teams -> Nat]
        /\ \A u \in Teams : team'[u] <= TeamBudget[u]
        /\ \A u \in Teams : u # t => team'[u] = team[u]
    <3>1. team[t] + m <= TeamBudget[t]
      BY <1>0 DEF ToldAt, At, TeamAllows
    <3> HIDE DEF t, m
    <3>2. team[t] \in Nat
      BY <1>1 DEF IInv, TypeOK
    <3>3. team[t] + m \in Nat
      BY <1>1, <3>2
    <3>4. QED
      BY <1>1, <2>1, <3>1, <3>3, TeamWritten DEF IInv
  <2>4. l \in Reservation
    <3>1. a \in 0..MaxApprovals
      BY <1>0 DEF Call
    <3>2. QED
      BY <1>1, <3>1 DEF Reservation
  <2> HIDE DEF l
  <2>5. /\ ledger' \in Seq(Reservation) /\ DOMAIN ledger \subseteq DOMAIN ledger'
        /\ Len(ledger) + 1 \in DOMAIN ledger' /\ Len(ledger) + 1 \in Nat
    BY <2>1, <2>4, LedgerAppend, Tables DEF IInv, TypeOK
  <2>6. /\ r \in Call /\ r.stage = "authorised" /\ r.employee = e /\ r.amount = m
        /\ r.approval = 0 /\ r.entry = Len(ledger) + 1
    <3>1. "authorised" \in Stage
      BY DEF Stage
    <3> HIDE DEF e, m
    <3>2. QED
      BY <1>1, <2>5, <3>1, TaskIsCall, Limits
  <2> HIDE DEF r
  <2>7. /\ Discipline'
        /\ call' \in [Calls -> Call]
        /\ seatLock' \in [Employees -> Calls \cup {Nobody}]
        /\ teamLock' \in [Teams -> Calls \cup {Nobody}]
        /\ approvalLock' \in [1..MaxApprovals -> Calls \cup {Nobody}]
    <3>1. r.stage \notin HoldsApproval \cup HoldsSeat \cup HoldsTeam
      BY <2>6 DEF HoldsApproval, HoldsSeat, HoldsTeam
    <3>2. QED
      BY <2>1, <2>6, <3>1, UnlockKeepsDiscipline DEF IInv
  <2>8. /\ approval' \in Seq(Approval) /\ Len(approval') = Len(approval)
        /\ DOMAIN approval' = DOMAIN approval
        /\ \A b \in DOMAIN approval : b # a => approval'[b] = approval[b]
    BY <1>1, <2>1, ApprovalSpent DEF IInv, TypeOK
  <2>9. TypeOK'
    BY <2>1, <2>2, <2>3, <2>5, <2>7, <2>8 DEF IInv, TypeOK, roster
  <2>10. call'[c] = r /\ \A d \in Calls : d # c => call'[d] = call[d]
    BY <2>1 DEF IInv, TypeOK
  <2>11. BriefedAt(c)' /\ ToldAt(c)'
    <3>1. BriefedAt(c)'
      <4>1. Len(approval') \in Nat
        BY <2>8, Tables DEF IInv
      <4> HIDE DEF e, m
      <4>2. QED
        BY <1>1, <2>5, <2>6, <2>10, <4>1 DEF BriefedAt, At, HoldsSeat
    <3>2. ToldAt(c)'
      BY <2>6, <2>10 DEF ToldAt, At, HoldsApproval
    <3>3. QED
      BY <3>1, <3>2
  <2>12. \A d \in Calls : d # c => BriefedAt(d)' /\ ToldAt(d)'
    <3>1. seatLock[e] = c /\ teamLock[t] = c
      BY <1>0, <1>1 DEF IInv, Discipline, HoldsSeat, HoldsTeam
    <3>2. \A b \in 1..Len(approval) : b = a => approvalLock[b] = c
      <4>1. \A b \in 1..Len(approval) : b \in 1..MaxApprovals
        BY Tables, Limits DEF IInv
      <4>2. QED
        BY <1>0, <4>1 DEF IInv, Discipline, HoldsApproval
    <3>3. \A b \in 1..Len(approval) : approval'[b].state = approval[b].state \/ approvalLock[b] = c
      BY <2>8, <3>2, Tables DEF IInv
    <3>4. QED
      BY <2>2, <2>3, <2>5, <2>8, <2>10, <3>1, <3>3, OthersKept
  <2>13. QED
    BY <2>7, <2>9, <2>11, <2>12, Assemble
<1>3. CASE ~StillWithinDay(c)
  BY <1>0, <1>3, RefuseStep DEF Commit, HoldsApproval
<1>4. QED
  BY <1>2, <1>3

LEMMA ReleaseStep ==
  ASSUME IInv, NEW c \in Calls, Release(c)
  PROVE  IInv'
<1> DEFINE e == call[c].employee
           m == call[c].amount
           t == call[c].team
           i == call[c].entry
<1>0. /\ call[c] \in Call /\ call[c].stage = "returning" /\ BriefedAt(c)
      /\ Ends(c) /\ UNCHANGED <<roster, ask, paid, failures>>
  BY DEF Release, At, IInv, TypeOK, Briefed
<1>1. e \in Employees /\ m \in Nat /\ t \in Teams /\ i \in DOMAIN ledger
  BY <1>0, PaymentsAssumption DEF BriefedAt, At, HoldsSeat, OwnsEntry
<1>2. CASE Covered(e, t, m)
  <2> DEFINE k == [ledger[i] EXCEPT !.state = "released"]
             l == [k EXCEPT !.intent = IntentAfter(ledger[i], call[c].answer)]
  <2>1. /\ seat' = [seat EXCEPT ![e] = [reserved |-> @.reserved - m, count |-> @.count - 1]]
        /\ team' = [team EXCEPT ![t] = @ - m]
        /\ ledger' = [ledger EXCEPT ![i] = l]
    BY <1>2 DEF Release, Released
  <2>2. /\ seat' \in [Employees -> [reserved : Nat, count : 0..DailyCount]]
        /\ \A f \in Employees : seat'[f].reserved <= DailyTotal[f]
        /\ \A f \in Employees : f # e => seat'[f] = seat[f]
    <3>1. /\ seat[e].reserved \in Nat /\ seat[e].count \in 0..DailyCount
          /\ seat[e].reserved <= DailyTotal[e] /\ DailyTotal[e] \in Nat
          /\ seat[e].reserved >= m /\ seat[e].count > 0
      BY <1>1, <1>2, PaymentsAssumption DEF IInv, TypeOK, Covered
    <3> HIDE DEF e, m
    <3>2. /\ seat[e].reserved - m \in Nat /\ seat[e].reserved - m <= DailyTotal[e]
          /\ seat[e].count - 1 \in 0..DailyCount
      BY <1>1, <3>1, Limits
    <3>3. QED
      BY <1>1, <2>1, <3>2, SeatWritten DEF IInv
  <2>3. /\ team' \in [Teams -> Nat]
        /\ \A u \in Teams : team'[u] <= TeamBudget[u]
        /\ \A u \in Teams : u # t => team'[u] = team[u]
    <3> HIDE DEF t, m
    <3>1. team[t] \in Nat /\ team[t] <= TeamBudget[t] /\ TeamBudget[t] \in Nat
      BY <1>1, PaymentsAssumption DEF IInv, TypeOK
    <3>2. team[t] >= m
      BY <1>2 DEF Covered
    <3>3. team[t] - m \in Nat /\ team[t] - m <= TeamBudget[t]
      BY <1>1, <3>1, <3>2
    <3>4. QED
      BY <1>1, <2>1, <3>3, TeamWritten DEF IInv
  <2>4. ledger[i] \in Reservation
    BY <1>1, Tables DEF IInv
  <2>5. k \in Reservation /\ IntentAfter(ledger[i], call[c].answer) \in {"none", "in_flight", "succeeded", "failed"}
    BY <2>4 DEF Reservation, IntentAfter
  <2> HIDE DEF k
  <2>6. l \in Reservation
    BY <2>5 DEF Reservation
  <2> HIDE DEF l
  <2>7. ledger' \in Seq(Reservation) /\ DOMAIN ledger' = DOMAIN ledger
    BY <1>1, <2>1, <2>6, LedgerUpdate DEF IInv, TypeOK
  <2>8. /\ Discipline'
        /\ call' \in [Calls -> Call]
        /\ seatLock' \in [Employees -> Calls \cup {Nobody}]
        /\ teamLock' \in [Teams -> Calls \cup {Nobody}]
        /\ approvalLock' \in [1..MaxApprovals -> Calls \cup {Nobody}]
    BY <1>0, FreeIsCall, FreeHoldsNothing, UnlockKeepsDiscipline DEF IInv, Ends
  <2>9. TypeOK'
    BY <1>0, <2>2, <2>3, <2>7, <2>8 DEF IInv, TypeOK, roster, ask
  <2>10. call'[c].stage = "idle" /\ \A d \in Calls : d # c => call'[d] = call[d]
    BY <1>0, FreeHoldsNothing DEF IInv, TypeOK, Ends
  <2>11. BriefedAt(c)' /\ ToldAt(c)'
    BY <2>10 DEF BriefedAt, ToldAt, At, HoldsApproval
  <2>12. \A d \in Calls : d # c => BriefedAt(d)' /\ ToldAt(d)'
    <3>1. seatLock[e] = c /\ teamLock[t] = c
      BY <1>0, <1>1 DEF IInv, Discipline, HoldsSeat, HoldsTeam
    <3>2. QED
      BY <1>0, <2>2, <2>3, <2>7, <2>10, <3>1, OthersKept DEF ask
  <2>13. QED
    BY <2>8, <2>9, <2>11, <2>12, Assemble
<1>3. CASE ~Covered(e, t, m)
  <2>1. UNCHANGED books
    BY <1>3 DEF Release
  <2>2. failures' \in 0..MaxFailures
    BY <1>0 DEF IInv, TypeOK
  <2>3. QED
    BY <1>0, <2>1, <2>2, EndsStep DEF ask
<1>4. QED
  BY <1>2, <1>3


-----------------------------------------------------------------------------
(* Each step of a person, and the invariant.                               *)

\* A row somebody holds does not change under it.
LEMMA PeopleStep ==
  ASSUME IInv, TypeOK', UNCHANGED <<books, call, locks>>,
         Len(approval) <= Len(approval'),
         \A a \in 1..Len(approval) :
           approval'[a].state = approval[a].state \/ approvalLock[a] = Nobody
  PROVE  IInv'
<1> USE PaymentsAssumption
<1>1. Len(approval) \in Nat /\ Len(approval) <= MaxApprovals /\ Len(approval') \in Nat
  BY Tables, LenProperties DEF IInv, TypeOK
<1>2. Discipline'
  BY DEF IInv, Discipline, locks
<1>3. ASSUME NEW c \in Calls PROVE BriefedAt(c)' /\ ToldAt(c)'
  <2>1. BriefedAt(c) /\ ToldAt(c)
    BY DEF IInv, Briefed, Told
  <2>2. call[c].approval \in 0..Len(approval) => call[c].approval \in 0..Len(approval')
    BY <1>1
  <2>3. BriefedAt(c)'
    BY <2>1, <2>2 DEF BriefedAt, At, books
  <2>4. ASSUME call[c].stage \in HoldsApproval, call[c].approval # 0
        PROVE  approval'[call[c].approval].state = approval[call[c].approval].state
    <3>1. call[c].approval \in 0..Len(approval)
      BY <2>1, <2>4 DEF BriefedAt, At, HoldsApproval
    <3>2. call[c].approval \in 1..Len(approval) /\ call[c].approval \in 1..MaxApprovals
      BY <1>1, <2>4, <3>1, Limits
    <3>3. approvalLock[call[c].approval] = c
      BY <2>4, <3>2 DEF IInv, Discipline
    <3>4. QED
      BY <3>2, <3>3
  <2>5. ToldAt(c)'
    BY <2>1, <2>4 DEF ToldAt, At, SeatAllows, TeamAllows, Redeemable, books
  <2>6. QED
    BY <2>3, <2>5
<1>4. QED
  BY <1>2, <1>3 DEF IInv, Briefed, Told

LEMMA RequestApprovalStep ==
  ASSUME IInv, NEW e \in Employees, NEW m \in Amounts, RequestApproval(e, m)
  PROVE  IInv'
<1> DEFINE r == [employee |-> e, amount |-> m, state |-> "pending"]
<1>1. r \in Approval
  BY DEF Approval
<1>2. /\ approval' = Append(approval, r) /\ Len(approval) < MaxApprovals
      /\ UNCHANGED <<roster, books, expired, call, locks, paid, failures>>
  BY DEF RequestApproval
<1> HIDE DEF r
<1>3. /\ approval' \in Seq(Approval) /\ Len(approval') = Len(approval) + 1
      /\ \A a \in 1..Len(approval) : approval'[a] = approval[a]
  BY <1>1, <1>2, AppendProperties DEF IInv, TypeOK
<1>4. Len(approval) \in Nat /\ DOMAIN approval = 1..Len(approval) /\ DOMAIN approval' = 1..Len(approval')
  BY <1>3, Tables, LenProperties DEF IInv
<1>5. Len(approval') <= MaxApprovals /\ DOMAIN approval \subseteq DOMAIN approval'
  BY <1>2, <1>3, <1>4, Limits
<1>6. TypeOK'
  BY <1>2, <1>3, <1>5 DEF IInv, TypeOK, roster, books, locks
<1>7. Len(approval) <= Len(approval')
  BY <1>3, <1>4
<1>8. QED
  BY <1>2, <1>3, <1>6, <1>7, PeopleStep

LEMMA DenyStep ==
  ASSUME IInv, NEW a \in DOMAIN approval, Deny(a)
  PROVE  IInv'
<1> DEFINE r == [approval[a] EXCEPT !.state = "denied"]
<1>1. approval[a] \in Approval /\ a \in 1..Len(approval) /\ Len(approval) \in Nat
  BY Tables DEF IInv
<1>2. r \in Approval
  BY <1>1 DEF Approval
<1>3. /\ approval' = [approval EXCEPT ![a] = r] /\ approvalLock[a] = Nobody
      /\ UNCHANGED <<roster, books, expired, call, locks, paid, failures>>
  BY DEF Deny
<1> HIDE DEF r
<1>4. /\ approval' \in Seq(Approval) /\ Len(approval') = Len(approval)
      /\ \A b \in 1..Len(approval) : approval'[b] = IF b = a THEN r ELSE approval[b]
  BY <1>1, <1>2, <1>3, ExceptSeq DEF IInv, TypeOK
<1>5. DOMAIN approval' = DOMAIN approval
  BY <1>4, Tables, LenProperties DEF IInv
<1>6. TypeOK'
  BY <1>3, <1>4, <1>5 DEF IInv, TypeOK, roster, books, locks
<1>7. QED
  BY <1>1, <1>3, <1>4, <1>6, PeopleStep

\* A deadline, a halt, a suspension, a move.
LEMMA RosterStep ==
  ASSUME IInv, UNCHANGED <<books, approval, call, locks, paid, failures>>,
         halted' \in BOOLEAN,
         standing' \in [Employees -> {"active", "suspended"}],
         teamOf' \in [Employees -> Teams],
         moves' \in 0..MaxMoves, expired' \subseteq DOMAIN approval
  PROVE  IInv'
<1>1. TypeOK'
  BY DEF IInv, TypeOK, books, locks
<1>2. Len(approval) <= Len(approval')
  BY Tables DEF IInv
<1>3. QED
  BY <1>1, <1>2, PeopleStep

LEMMA IInvStep ==
  ASSUME IInv, [Next]_vars
  PROVE  IInv'
<1>0. /\ halted \in BOOLEAN /\ standing \in [Employees -> {"active", "suspended"}]
      /\ teamOf \in [Employees -> Teams] /\ moves \in 0..MaxMoves
      /\ expired \subseteq DOMAIN approval
  BY DEF IInv, TypeOK
<1>1. ASSUME NEW c \in Calls, NEW e \in Employees, NEW m \in Amounts, Rule(c, e, m)
      PROVE  IInv'
  BY <1>1, RuleStep
<1>2. ASSUME NEW c \in Calls, NEW a \in DOMAIN approval, StartRedeem(c, a)
      PROVE  IInv'
  BY <1>2, StartRedeemStep
<1>3. ASSUME NEW c \in Calls, Reserves(c)
      PROVE  IInv'
  BY <1>3, RedeemStep, TakeSeatStep, TakeTeamStep, CommitStep DEF Reserves
<1>4. ASSUME NEW c \in Calls, Pays(c)
      PROVE  IInv'
  BY <1>4, BeginSendStep, PayStep, SettleStep DEF Pays
<1>5. ASSUME NEW c \in Calls, Returns(c)
      PROVE  IInv'
  BY <1>5, CreditSeatStep, CreditTeamStep, ReleaseStep DEF Returns
<1>6. ASSUME NEW c \in Calls, Fail(c)
      PROVE  IInv'
  BY <1>6, FailStep
<1>7. ASSUME NEW e \in Employees, NEW m \in Amounts, RequestApproval(e, m)
      PROVE  IInv'
  BY <1>7, RequestApprovalStep
<1>8. ASSUME NEW a \in DOMAIN approval, Deny(a) \/ Expire(a)
      PROVE  IInv'
  <2>1. CASE Deny(a)
    BY <2>1, DenyStep
  <2>2. CASE Expire(a)
    BY <1>0, <2>2, RosterStep DEF Expire, roster
  <2>3. QED
    BY <1>8, <2>1, <2>2
<1>9. ASSUME NEW e \in Suspendable, Suspend(e)
      PROVE  IInv'
  <2>1. standing' \in [Employees -> {"active", "suspended"}]
    BY <1>0, <1>9 DEF Suspend
  <2>2. QED
    BY <1>0, <1>9, <2>1, RosterStep DEF Suspend, ask
<1>10. ASSUME NEW e \in Employees, NEW t \in Teams, Move(e, t)
       PROVE  IInv'
  <2>1. teamOf' \in [Employees -> Teams] /\ moves' \in 0..MaxMoves
    BY <1>0, <1>10, Limits DEF Move
  <2>2. QED
    BY <1>0, <1>10, <2>1, RosterStep DEF Move, ask
<1>11. CASE Halt
  <2>1. halted' \in BOOLEAN
    BY <1>11 DEF Halt
  <2>2. QED
    BY <1>0, <1>11, <2>1, RosterStep DEF Halt, ask
<1>12. CASE UNCHANGED vars
  BY <1>0, <1>12, RosterStep DEF vars, roster, ask
<1>13. QED
  BY <1>1, <1>2, <1>3, <1>4, <1>5, <1>6, <1>7, <1>8, <1>9, <1>10, <1>11, <1>12 DEF Next

LEMMA IInvInit == Init => IInv
<1> SUFFICES ASSUME Init PROVE IInv
  OBVIOUS
<1> USE PaymentsAssumption
<1>1. call \in [Calls -> Call] /\ \A c \in Calls : call[c].stage = "idle"
  BY FreeIsCall, FreeHoldsNothing DEF Init
<1>2. TypeOK
  <2>1. /\ ledger \in Seq(Reservation) /\ approval \in Seq(Approval)
        /\ Len(approval) = 0 /\ expired \subseteq DOMAIN approval /\ paid \subseteq DOMAIN ledger
    BY DEF Init
  <2>2. /\ seat \in [Employees -> [reserved : Nat, count : 0..DailyCount]]
        /\ \A e \in Employees : seat[e].reserved <= DailyTotal[e]
    BY DEF Init
  <2>3. team \in [Teams -> Nat] /\ \A t \in Teams : team[t] <= TeamBudget[t]
    BY DEF Init
  <2>4. /\ seatLock \in [Employees -> Calls \cup {Nobody}]
        /\ teamLock \in [Teams -> Calls \cup {Nobody}]
        /\ approvalLock \in [1..MaxApprovals -> Calls \cup {Nobody}]
    BY DEF Init
  <2>5. /\ standing \in [Employees -> {"active", "suspended"}]
        /\ teamOf \in [Employees -> Teams]
    BY DEF Init
  <2>6. moves \in 0..MaxMoves /\ failures \in 0..MaxFailures /\ 0 <= MaxApprovals
    BY Limits DEF Init
  <2>7. halted \in BOOLEAN
    BY DEF Init
  <2>8. QED
    BY <1>1, <2>1, <2>2, <2>3, <2>4, <2>5, <2>6, <2>7 DEF TypeOK
<1>3. Briefed /\ Told
  BY <1>1 DEF Briefed, BriefedAt, Told, ToldAt, At, HoldsApproval
<1>4. Discipline
  BY <1>1 DEF Init, Discipline, HoldsSeat, HoldsTeam, HoldsApproval
<1>5. QED
  BY <1>2, <1>3, <1>4 DEF IInv

LEMMA IInvAlways == Spec => []IInv
BY IInvInit, IInvStep, PTL DEF Spec

\* No seat ever holds more than its daily cap and no team more than its budget,
\* whatever the interleaving of rulings, redemptions, releases and failures
\* (org::reserve under the row locks), and every variable keeps its type.
THEOREM WithinCaps == Spec => []TypeOK
<1>1. IInv => TypeOK
  BY DEF IInv
<1>2. QED
  BY <1>1, IInvAlways, PTL


-----------------------------------------------------------------------------
(* Nobody waits for itself.                                                *)

LEMMA NoCycle == IInv => LocksComeFree
<1> SUFFICES ASSUME IInv PROVE LocksComeFree
  OBVIOUS
<1>0. Nobody \notin Calls
  BY PaymentsAssumption
\* The holder of a team's row waits for nothing.
<1>1. ASSUME NEW c \in Calls, call[c].stage \in {"charging", "crediting"}, Awaits(c) \in Calls
      PROVE  Awaits(Awaits(c)) = Nobody
  <2>1. Awaits(c) = teamLock[call[c].team] /\ call[c].team \in Teams
    BY <1>1 DEF Awaits, At, IInv, Briefed, BriefedAt, HoldsSeat
  <2>2. call[Awaits(c)].stage \in HoldsTeam
    BY <1>1, <2>1 DEF IInv, Discipline
  <2>3. QED
    BY <2>2 DEF Awaits, At, HoldsTeam
\* The holder of a seat's row waits for a team's row at most.
<1>2. ASSUME NEW c \in Calls, call[c].stage \in {"reserving", "refused", "unknown"},
             Awaits(c) \in Calls
      PROVE  \/ Awaits(Awaits(c)) = Nobody
             \/ call[Awaits(c)].stage \in {"charging", "crediting"}
  <2>1. Awaits(c) = seatLock[call[c].employee] /\ call[c].employee \in Employees
    BY <1>2 DEF Awaits, At, IInv, Briefed, BriefedAt
  <2>2. call[Awaits(c)].stage \in HoldsSeat
    BY <1>2, <2>1 DEF IInv, Discipline
  <2>3. QED
    BY <2>2 DEF Awaits, At, HoldsSeat
\* The holder of an approval waits for a seat's or a team's row at most.
<1>3. ASSUME NEW c \in Calls, call[c].stage = "redeeming", Awaits(c) \in Calls
      PROVE  \/ Awaits(Awaits(c)) = Nobody
             \/ call[Awaits(c)].stage \in {"reserving", "charging"}
  <2>1. /\ Awaits(c) = approvalLock[call[c].approval]
        /\ call[c].approval \in 0..Len(approval) /\ call[c].approval # 0
    BY <1>3 DEF Awaits, At, IInv, Briefed, BriefedAt
  <2>2. call[c].approval \in 1..MaxApprovals
    BY <2>1, Tables, Limits DEF IInv
  <2>3. call[Awaits(c)].stage \in HoldsApproval
    BY <1>3, <2>1, <2>2 DEF IInv, Discipline
  <2>4. QED
    BY <2>3 DEF Awaits, At, HoldsApproval
<1>4. ASSUME NEW c \in Calls, Awaits(c) # Nobody
      PROVE  call[c].stage \in {"redeeming", "reserving", "refused", "unknown", "charging", "crediting"}
  BY <1>4 DEF Awaits, At
<1>5. ASSUME NEW S \in (SUBSET Calls) \ {{}} PROVE \E c \in S : Awaits(c) \notin S
  <2> SUFFICES ASSUME \A c \in S : Awaits(c) \in S PROVE FALSE
    OBVIOUS
  <2>1. \A c \in S : c \in Calls /\ Awaits(c) \in Calls /\ Awaits(c) # Nobody
    BY <1>0
  <2>2. \A c \in S : call[c].stage \notin {"charging", "crediting"}
    BY <1>1, <2>1
  <2>3. \A c \in S : call[c].stage \notin {"reserving", "refused", "unknown"}
    BY <1>2, <2>1, <2>2
  <2>4. \A c \in S : call[c].stage # "redeeming"
    BY <1>3, <2>1, <2>2, <2>3
  <2>5. \A c \in S : FALSE
    BY <1>4, <2>1, <2>2, <2>3, <2>4
  <2>6. PICK c \in Calls : c \in S
    OBVIOUS
  <2>7. QED
    BY <2>5, <2>6
<1>6. ASSUME NEW c \in Calls, At(c, "idle")
      PROVE  /\ \A e \in Employees : seatLock[e] # c
             /\ \A t \in Teams : teamLock[t] # c
             /\ \A a \in 1..MaxApprovals : approvalLock[a] # c
  BY <1>6 DEF IInv, Discipline, At, HoldsSeat, HoldsTeam, HoldsApproval
<1>7. QED
  BY <1>5, <1>6 DEF LocksComeFree

\* Whatever rulings, redemptions and releases run at once, for any number of
\* calls: no group of them waits for itself, and no row outlives its transaction.
THEOREM DeadlockFree == Spec => []LocksComeFree
BY IInvAlways, NoCycle, PTL

-----------------------------------------------------------------------------
(* The ledger grows by commits only.                                       *)

LEMMA LedgerSteps ==
  ASSUME IInv, [Next]_vars
  PROVE  \/ /\ DOMAIN ledger' = DOMAIN ledger /\ Len(ledger') = Len(ledger)
            /\ \A i \in DOMAIN ledger : ledger'[i].approval = ledger[i].approval
         \/ \E c \in Calls : Commit(c) /\ StillWithinDay(c)
<1> DEFINE Kept == /\ DOMAIN ledger' = DOMAIN ledger /\ Len(ledger') = Len(ledger)
                   /\ \A i \in DOMAIN ledger : ledger'[i].approval = ledger[i].approval
<1>0. \A c \in Calls : call[c].stage \in OwnsEntry => call[c].entry \in DOMAIN ledger
  BY DEF IInv, Briefed, BriefedAt, At, OwnsEntry
<1>a. \A i \in DOMAIN ledger : ledger[i] \in Reservation
  BY Tables DEF IInv
<1>b. ledger \in Seq(Reservation)
  BY DEF IInv, TypeOK
<1>1. ledger' = ledger => Kept
  OBVIOUS
<1>2. ASSUME NEW c \in Calls, BeginSend(c) PROVE Kept
  <2> DEFINE i == call[c].entry
             l == [ledger[i] EXCEPT !.intent = "in_flight"]
  <2>1. i \in DOMAIN ledger
    BY <1>0, <1>2 DEF BeginSend, At, OwnsEntry
  <2>2. l \in Reservation /\ l.approval = ledger[i].approval
    BY <1>a, <2>1 DEF Reservation
  <2>3. ledger' = [ledger EXCEPT ![i] = l]
    BY <1>2 DEF BeginSend
  <2> HIDE DEF l, i
  <2>4. QED
    BY <1>b, <2>1, <2>2, <2>3, LedgerUpdate
<1>3. ASSUME NEW c \in Calls, Settle(c) PROVE Kept
  <2> DEFINE i == call[c].entry
             k == [ledger[i] EXCEPT !.state = "settled"]
             l == [k EXCEPT !.intent = "succeeded"]
  <2>1. i \in DOMAIN ledger
    BY <1>0, <1>3 DEF Settle, At, OwnsEntry
  <2>2. k \in Reservation /\ k.approval = ledger[i].approval
    BY <1>a, <2>1 DEF Reservation
  <2>3. ledger' = [ledger EXCEPT ![i] = l]
    BY <1>3 DEF Settle
  <2> HIDE DEF k
  <2>4. l \in Reservation /\ l.approval = ledger[i].approval
    BY <2>2 DEF Reservation
  <2> HIDE DEF l, i
  <2>5. QED
    BY <1>b, <2>1, <2>3, <2>4, LedgerUpdate
<1>4. ASSUME NEW c \in Calls, Release(c) PROVE Kept
  <2> DEFINE i == call[c].entry
             k == [ledger[i] EXCEPT !.state = "released"]
             x == IntentAfter(ledger[i], call[c].answer)
             l == [k EXCEPT !.intent = x]
  <2>1. i \in DOMAIN ledger
    BY <1>0, <1>4 DEF Release, At, OwnsEntry
  <2>2. k \in Reservation /\ k.approval = ledger[i].approval
    BY <1>a, <2>1 DEF Reservation
  <2>3. x \in {"none", "in_flight", "succeeded", "failed"}
    BY <1>a, <2>1 DEF Reservation, IntentAfter
  <2>4. ledger' = ledger \/ ledger' = [ledger EXCEPT ![i] = l]
    BY <1>4 DEF Release, Released, books
  <2> HIDE DEF k, x
  <2>5. l \in Reservation /\ l.approval = ledger[i].approval
    BY <2>2, <2>3 DEF Reservation
  <2> HIDE DEF l, i
  <2>6. QED
    BY <1>1, <1>b, <2>1, <2>4, <2>5, LedgerUpdate
<1>5. ASSUME NEW c \in Calls, Reserves(c)
      PROVE  ledger' = ledger \/ (Commit(c) /\ StillWithinDay(c))
  <2>1. Refuse(c) => ledger' = ledger
    BY DEF Refuse, books
  <2>2. Redeem(c) => ledger' = ledger
    BY DEF Redeem, books
  <2>3. TakeSeat(c) => ledger' = ledger
    BY <2>1 DEF TakeSeat, books
  <2>4. TakeTeam(c) => ledger' = ledger
    BY <2>1 DEF TakeTeam, books
  <2>5. Commit(c) => ledger' = ledger \/ StillWithinDay(c)
    BY <2>1 DEF Commit
  <2>6. QED
    BY <1>5, <2>2, <2>3, <2>4, <2>5 DEF Reserves
<1>6. ASSUME NEW c \in Calls, Pay(c) \/ CreditSeat(c) \/ CreditTeam(c) \/ Fail(c)
      PROVE  ledger' = ledger
  BY <1>6 DEF Pay, CreditSeat, CreditTeam, Fail, books
<1>7. ASSUME NEW c \in Calls, Pays(c) \/ Returns(c) \/ Fail(c) PROVE Kept
  BY <1>1, <1>2, <1>3, <1>4, <1>6, <1>7 DEF Pays, Returns
<1>8. CASE Next
  <2>1. \/ \E c \in Calls : Reserves(c) \/ Pays(c) \/ Returns(c) \/ Fail(c)
        \/ ledger' = ledger
    BY <1>8 DEF Next, Rule, StartRedeem, RequestApproval, Deny, Expire, Suspend, Move, Halt, books
  <2> HIDE DEF Kept
  <2>2. Kept \/ \E c \in Calls : Commit(c) /\ StillWithinDay(c)
    BY <1>1, <1>5, <1>7, <2>1
  <2>3. QED
    BY <2>2 DEF Kept
<1>9. CASE UNCHANGED vars
  BY <1>9 DEF vars, books
<1>10. QED
  BY <1>8, <1>9

\* What a commit writes.
LEMMA CommitWrites ==
  ASSUME IInv, NEW c \in Calls, Commit(c), StillWithinDay(c)
  PROVE  /\ call[c].employee \in Employees /\ call[c].approval \in 0..Len(approval)
         /\ Len(ledger') = Len(ledger) + 1 /\ Len(ledger) \in Nat
         /\ DOMAIN ledger' = DOMAIN ledger \cup {Len(ledger) + 1}
         /\ Len(ledger) + 1 \notin DOMAIN ledger
         /\ ledger'[Len(ledger) + 1].employee = call[c].employee
         /\ ledger'[Len(ledger) + 1].approval = call[c].approval
         /\ ledger'[Len(ledger) + 1].intent = "none"
         /\ \A j \in DOMAIN ledger : ledger'[j] = ledger[j]
         /\ seat'[call[c].employee].reserved = seat[call[c].employee].reserved + call[c].amount
         /\ approval' = Spent(c)
<1> DEFINE e == call[c].employee
           m == call[c].amount
           a == call[c].approval
           l == [employee |-> e, amount |-> m, state |-> "reserved",
                 approval |-> a, intent |-> "none"]
<1>1. e \in Employees /\ m \in Amounts /\ a \in 0..Len(approval)
  BY DEF Commit, At, IInv, Briefed, BriefedAt
<1>2. a \in 0..MaxApprovals
  BY DEF IInv, TypeOK, Call
<1>3. l \in Reservation /\ l.employee = e /\ l.approval = a /\ l.intent = "none"
  BY <1>1, <1>2 DEF Reservation
<1>4. ledger' = Append(ledger, l) /\ approval' = Spent(c)
  BY DEF Commit
<1>5. seat'[e].reserved = seat[e].reserved + m
  BY <1>1 DEF Commit, IInv, TypeOK
<1> HIDE DEF l
<1>6. ledger \in Seq(Reservation)
  BY DEF IInv, TypeOK
<1>7. QED
  BY <1>1, <1>3, <1>4, <1>5, <1>6, LedgerAppend, Tables DEF IInv

\* Of the rulings made on one headroom, only those that fit in it commit, for
\* every policy and any number of calls (the day's total asked again under the
\* seat's lock).
THEOREM DayCapHolds == Spec => RuledWithinDay
<1> DEFINE P == \A e \in Employees :
                  (Len(ledger') > Len(ledger) /\ ledger'[Len(ledger')].employee = e
                     /\ ledger'[Len(ledger')].approval = 0)
                  => seat'[e].reserved <= PolicyDay
<1>1. ASSUME IInv, [Next]_vars PROVE P
  <2> SUFFICES ASSUME Len(ledger') > Len(ledger), ledger'[Len(ledger')].approval = 0
               PROVE  seat'[ledger'[Len(ledger')].employee].reserved <= PolicyDay
    OBVIOUS
  <2>1. PICK c \in Calls : Commit(c) /\ StillWithinDay(c)
    <3>1. Len(ledger) \in Nat
      BY <1>1, Tables DEF IInv
    <3>2. QED
      BY <1>1, <3>1, LedgerSteps
  <2>2. call[c].approval = 0 /\ ledger'[Len(ledger')].employee = call[c].employee
    BY <1>1, <2>1, CommitWrites
  <2>3. seat[call[c].employee].reserved + call[c].amount <= PolicyDay
    BY <2>1, <2>2 DEF StillWithinDay
  <2>4. QED
    BY <1>1, <2>1, <2>2, <2>3, CommitWrites
<1>2. QED
  BY <1>1, IInvAlways, PTL DEF Spec, RuledWithinDay


-----------------------------------------------------------------------------
(* An approval pays once.                                                  *)

\* A redeemed approval stays redeemed: denials need a pending one.
LEMMA ApprovalSteps ==
  ASSUME IInv, [Next]_vars
  PROVE  /\ DOMAIN approval \subseteq DOMAIN approval'
         /\ \A a \in DOMAIN approval :
              approval[a].state = "redeemed" => approval'[a].state = "redeemed"
<1> DEFINE Kept == /\ DOMAIN approval \subseteq DOMAIN approval'
                   /\ \A a \in DOMAIN approval :
                        approval[a].state = "redeemed" => approval'[a].state = "redeemed"
<1>0. /\ approval \in Seq(Approval) /\ Len(approval) \in Nat
      /\ DOMAIN approval = 1..Len(approval)
      /\ \A a \in DOMAIN approval : approval[a] \in Approval
  BY Tables DEF IInv, TypeOK
<1>1. ASSUME NEW c \in Calls, ~At(c, "idle"), approval' = Spent(c) PROVE Kept
  <2>1. call[c].approval \in 0..Len(approval)
    BY <1>1 DEF IInv, Briefed, BriefedAt
  <2>2. QED
    BY <1>0, <1>1, <2>1, ApprovalSpent
<1>2. approval' = approval => Kept
  OBVIOUS
<1>3. ASSUME NEW a \in DOMAIN approval, Deny(a) PROVE Kept
  <2> DEFINE r == [approval[a] EXCEPT !.state = "denied"]
  <2>1. r \in Approval /\ a \in 1..Len(approval)
    BY <1>0 DEF Approval
  <2>2. approval' = [approval EXCEPT ![a] = r] /\ approval[a].state = "pending"
    BY <1>3 DEF Deny, Redeemable
  <2> HIDE DEF r
  <2>3. /\ approval' \in Seq(Approval) /\ Len(approval') = Len(approval)
        /\ \A b \in 1..Len(approval) : approval'[b] = IF b = a THEN r ELSE approval[b]
    BY <1>0, <2>1, <2>2, ExceptSeq
  <2>4. DOMAIN approval' = 1..Len(approval)
    BY <2>3, LenProperties
  <2>5. QED
    BY <1>0, <2>2, <2>3, <2>4
<1>4. ASSUME NEW e \in Employees, NEW m \in Amounts, RequestApproval(e, m) PROVE Kept
  <2> DEFINE r == [employee |-> e, amount |-> m, state |-> "pending"]
  <2>1. r \in Approval
    BY DEF Approval
  <2>2. approval' = Append(approval, r)
    BY <1>4 DEF RequestApproval
  <2> HIDE DEF r
  <2>3. /\ approval' \in Seq(Approval) /\ Len(approval') = Len(approval) + 1
        /\ \A b \in 1..Len(approval) : approval'[b] = approval[b]
    BY <1>0, <2>1, <2>2, AppendProperties
  <2>4. DOMAIN approval' = 1..(Len(approval) + 1)
    BY <2>3, LenProperties
  <2>5. QED
    BY <1>0, <2>3, <2>4
<1>5. ASSUME NEW c \in Calls, Reserves(c)
      PROVE  approval' = approval \/ (~At(c, "idle") /\ approval' = Spent(c))
  <2>1. Refuse(c) => approval' = Spent(c)
    BY DEF Refuse
  <2>2. Redeem(c) => approval' = approval
    BY DEF Redeem, ask
  <2>3. TakeSeat(c) => approval' = approval \/ approval' = Spent(c)
    BY <2>1 DEF TakeSeat, ask
  <2>4. TakeTeam(c) => approval' = approval \/ approval' = Spent(c)
    BY <2>1 DEF TakeTeam, ask
  <2>5. Commit(c) => approval' = Spent(c)
    BY <2>1 DEF Commit
  <2>6. ~At(c, "idle")
    BY <1>5 DEF Reserves, Redeem, TakeSeat, TakeTeam, Commit, At
  <2>7. QED
    BY <1>5, <2>2, <2>3, <2>4, <2>5, <2>6 DEF Reserves
<1>6. ASSUME NEW c \in Calls, Pays(c) \/ Returns(c) \/ Fail(c) PROVE approval' = approval
  BY <1>6 DEF Pays, Returns, Fail, BeginSend, Pay, Settle, CreditSeat, CreditTeam, Release, ask
<1>7. CASE Next
  <2>1. \/ \E c \in Calls : Reserves(c) \/ Pays(c) \/ Returns(c) \/ Fail(c)
        \/ \E e \in Employees, m \in Amounts : RequestApproval(e, m)
        \/ \E a \in DOMAIN approval : Deny(a)
        \/ approval' = approval
    BY <1>7 DEF Next, Rule, StartRedeem, Expire, Suspend, Move, Halt, ask
  <2> HIDE DEF Kept
  <2>2. Kept
    BY <1>1, <1>2, <1>3, <1>4, <1>5, <1>6, <2>1
  <2>3. QED
    BY <2>2 DEF Kept
<1>8. CASE UNCHANGED vars
  BY <1>8 DEF vars, ask
<1>9. QED
  BY <1>7, <1>8

\* Every entry names an approval that exists, or none.
Backed == \A i \in DOMAIN ledger : ledger[i].approval # 0 => ledger[i].approval \in DOMAIN approval

LEMMA ApprovedStep ==
  ASSUME IInv, Backed, ApprovedOnce, [Next]_vars
  PROVE  Backed' /\ ApprovedOnce'
<1>0. /\ DOMAIN approval \subseteq DOMAIN approval'
      /\ \A a \in DOMAIN approval :
           approval[a].state = "redeemed" => approval'[a].state = "redeemed"
  BY ApprovalSteps
<1>1. CASE /\ DOMAIN ledger' = DOMAIN ledger
           /\ \A i \in DOMAIN ledger : ledger'[i].approval = ledger[i].approval
  <2>1. Backed'
    BY <1>0, <1>1 DEF Backed
  <2>2. ApprovedOnce'
    BY <1>0, <1>1 DEF ApprovedOnce, Backed
  <2>3. QED
    BY <2>1, <2>2
<1>2. ASSUME NEW c \in Calls, Commit(c), StillWithinDay(c) PROVE Backed' /\ ApprovedOnce'
  <2> DEFINE a == call[c].approval
             n == Len(ledger) + 1
  <2>1. /\ a \in 0..Len(approval) /\ Len(ledger') = Len(ledger) + 1
        /\ DOMAIN ledger' = DOMAIN ledger \cup {n} /\ n \notin DOMAIN ledger
        /\ ledger'[n].approval = a
        /\ \A j \in DOMAIN ledger : ledger'[j] = ledger[j]
        /\ approval' = Spent(c)
    BY <1>2, CommitWrites
  <2>2. a # 0 => a \in DOMAIN approval
    BY <2>1, Tables DEF IInv
  <2>3. a # 0 => approval[a].state = "pending"
    BY <1>2 DEF IInv, Told, ToldAt, Commit, At, HoldsApproval, Redeemable
  <2>4. a # 0 => approval'[a].state = "redeemed"
    BY <2>1, ApprovalSpent DEF IInv, TypeOK
  <2>5. a # 0 => \A j \in DOMAIN ledger : ledger[j].approval # a
    BY <2>3 DEF ApprovedOnce
  <2> HIDE DEF a, n
  <2>6. Backed'
    BY <1>0, <2>1, <2>2 DEF Backed
  <2>7. ASSUME NEW i \in DOMAIN ledger', ledger'[i].approval # 0
        PROVE  /\ approval'[ledger'[i].approval].state = "redeemed"
               /\ \A j \in DOMAIN ledger' : ledger'[j].approval = ledger'[i].approval => j = i
    <3>1. CASE i = n
      BY <2>1, <2>4, <2>5, <2>7, <3>1
    <3>2. CASE i \in DOMAIN ledger
      <4>1. ledger'[i] = ledger[i] /\ ledger[i].approval \in DOMAIN approval
        BY <2>1, <2>7, <3>2 DEF Backed
      <4>2. /\ approval[ledger[i].approval].state = "redeemed"
            /\ \A j \in DOMAIN ledger : ledger[j].approval = ledger[i].approval => j = i
        BY <2>7, <3>2, <4>1 DEF ApprovedOnce
      <4>3. QED
        BY <1>0, <2>1, <2>5, <2>7, <3>2, <4>1, <4>2
    <3>3. QED
      BY <2>1, <3>1, <3>2
  <2>8. ApprovedOnce'
    BY <2>7 DEF ApprovedOnce
  <2>9. QED
    BY <2>6, <2>8
<1>3. QED
  BY <1>1, <1>2, LedgerSteps

\* One accord buys one payment, for any number of calls redeeming it, people
\* denying it and processes dying (REDEEM_SQL's row lock and its pending guard).
THEOREM OneAccordOnePayment == Spec => []ApprovedOnce
<1>1. Init => Backed /\ ApprovedOnce
  BY DEF Init, Backed, ApprovedOnce
<1>2. IInv /\ Backed /\ ApprovedOnce /\ [Next]_vars => Backed' /\ ApprovedOnce'
  BY ApprovedStep
<1>3. QED
  BY <1>1, <1>2, IInvAlways, PTL DEF Spec


-----------------------------------------------------------------------------
(* Money that moved is visible.                                            *)

\* The rail has not paid for this call, as far as the call's stage tells.
Unpaid(c) ==
  \/ call[c].stage \in {"authorised", "calling", "refused"}
  \/ call[c].stage \in {"crediting", "returning"} /\ call[c].answer = "refused"

EntryAt(c) ==
  /\ Unpaid(c) => call[c].entry \notin paid
  /\ At(c, "calling") => ledger[call[c].entry].intent = "in_flight"

\* No entry is in two hands.
Alone(c) ==
  \A d \in Calls :
    call[c].stage \in OwnsEntry /\ call[d].stage \in OwnsEntry
      /\ call[c].entry = call[d].entry => c = d

PInv == IInv /\ MovedIsVisible /\ \A c \in Calls : EntryAt(c) /\ Alone(c)

\* A step of c touches no entry but its own, and no other call's is affected.
LEMMA OwnerStep ==
  ASSUME PInv, IInv', NEW c \in Calls, EntryAt(c)',
         \A d \in Calls : d # c => call'[d] = call[d],
         DOMAIN ledger \subseteq DOMAIN ledger',
         \A j \in DOMAIN ledger :
           \/ ledger'[j].intent = ledger[j].intent
           \/ call[c].stage \in OwnsEntry /\ j = call[c].entry,
         \A j \in paid' :
           \/ j \in paid
           \/ call[c].stage \in OwnsEntry /\ j = call[c].entry,
         call[c].stage \in OwnsEntry /\ call[c].entry \in paid' =>
           ledger'[call[c].entry].intent \in {"in_flight", "succeeded"},
         call'[c].stage \in OwnsEntry =>
           \/ call[c].stage \in OwnsEntry /\ call'[c].entry = call[c].entry
           \/ call'[c].entry \notin DOMAIN ledger
  PROVE  PInv'
<1>0. \A d \in Calls : call[d].stage \in OwnsEntry => call[d].entry \in DOMAIN ledger
  BY DEF PInv, IInv, Briefed, BriefedAt, At, OwnsEntry
<1>1. MovedIsVisible'
  <2> SUFFICES ASSUME NEW j \in paid' PROVE ledger'[j].intent \in {"in_flight", "succeeded"}
    BY DEF MovedIsVisible
  <2>1. CASE call[c].stage \in OwnsEntry /\ j = call[c].entry
    BY <2>1
  <2>2. CASE ~(call[c].stage \in OwnsEntry /\ j = call[c].entry)
    <3>1. j \in paid /\ j \in DOMAIN ledger
      BY <2>2 DEF PInv, IInv, TypeOK
    <3>2. QED
      BY <2>2, <3>1 DEF PInv, MovedIsVisible
  <2>3. QED
    BY <2>1, <2>2
<1>2. ASSUME NEW d \in Calls, d # c PROVE EntryAt(d)'
  <2>1. call'[d] = call[d] /\ EntryAt(d) /\ Alone(c)
    BY <1>2 DEF PInv
  <2>2. call[d].stage \in OwnsEntry =>
          /\ call[d].entry \in DOMAIN ledger
          /\ ~(call[c].stage \in OwnsEntry /\ call[d].entry = call[c].entry)
    BY <1>0, <1>2, <2>1 DEF Alone
  <2>3. Unpaid(d) => call[d].stage \in OwnsEntry
    BY DEF Unpaid, OwnsEntry
  <2>4. Unpaid(d)' => Unpaid(d)
    BY <2>1 DEF Unpaid
  <2>5. Unpaid(d)' => call'[d].entry \notin paid'
    BY <2>1, <2>2, <2>3, <2>4 DEF EntryAt
  <2>6. At(d, "calling")' => ledger'[call'[d].entry].intent = "in_flight"
    BY <2>1, <2>2 DEF EntryAt, At, OwnsEntry
  <2>7. QED
    BY <2>5, <2>6 DEF EntryAt
<1>3. ASSUME NEW d \in Calls, NEW f \in Calls,
             call'[d].stage \in OwnsEntry, call'[f].stage \in OwnsEntry,
             call'[d].entry = call'[f].entry
      PROVE  d = f
  <2>1. \A x, y \in Calls :
          call[x].stage \in OwnsEntry /\ call[y].stage \in OwnsEntry
            /\ call[x].entry = call[y].entry => x = y
    BY DEF PInv, Alone
  <2>2. QED
    BY <1>0, <1>3, <2>1
<1>4. \A d \in Calls : Alone(d)'
  BY <1>3 DEF Alone
<1>5. QED
  BY <1>1, <1>2, <1>4 DEF PInv


\* A call that ends up with no entry in its hands, and wrote none.
LEMMA QuietStep ==
  ASSUME PInv, IInv', NEW c \in Calls, ledger' = ledger, paid' = paid,
         NEW r \in Call, r.stage \notin OwnsEntry, call' = [call EXCEPT ![c] = r]
  PROVE  PInv'
<1>1. call'[c] = r /\ \A d \in Calls : d # c => call'[d] = call[d]
  BY DEF PInv, IInv, TypeOK
<1>2. EntryAt(c)'
  BY <1>1 DEF EntryAt, Unpaid, At, OwnsEntry
<1>3. call[c].entry \in paid => ledger[call[c].entry].intent \in {"in_flight", "succeeded"}
  BY DEF PInv, MovedIsVisible
<1>4. QED
  BY <1>1, <1>2, <1>3, OwnerStep

LEMMA EndsQuiet ==
  ASSUME PInv, IInv', NEW c \in Calls, Ends(c), ledger' = ledger, paid' = paid
  PROVE  PInv'
BY QuietStep, FreeIsCall, FreeHoldsNothing DEF Ends

LEMMA GateQuiet ==
  ASSUME PInv, IInv', NEW c \in Calls,
         Redeem(c) \/ TakeSeat(c) \/ TakeTeam(c) \/ (Commit(c) /\ ~StillWithinDay(c))
  PROVE  PInv'
<1>0. call[c] \in Call /\ call \in [Calls -> Call]
  BY DEF PInv, IInv, TypeOK
<1>1. Refuse(c) => PInv'
  BY EndsQuiet DEF Refuse, books
<1>2. ASSUME NEW s \in {"reserving", "committing"}, Go(c, s), ledger' = ledger, paid' = paid
      PROVE  PInv'
  <2> DEFINE r == [call[c] EXCEPT !.stage = s]
  <2>1. r \in Call /\ r.stage = s
    BY <1>0 DEF Call, Stage
  <2>2. call' = [call EXCEPT ![c] = r]
    BY <1>2 DEF Go
  <2> HIDE DEF r
  <2>3. QED
    BY <1>2, <2>1, <2>2, QuietStep DEF OwnsEntry
<1>3. CASE Redeem(c)
  <2>1. ledger' = ledger /\ paid' = paid
    BY <1>3 DEF Redeem, books
  <2>2. Go(c, "reserving") \/ call' = [call EXCEPT ![c] = Free]
    BY <1>3 DEF Redeem
  <2>3. QED
    BY <1>2, <2>1, <2>2, FreeIsCall, FreeHoldsNothing, QuietStep
<1>4. CASE TakeSeat(c)
  <2> DEFINE e == call[c].employee
             q == [call[c] EXCEPT !.stage = "charging"]
             r == [q EXCEPT !.team = teamOf[e]]
  <2>1. CASE SeatAllows(e, call[c].amount)
    <3>1. e \in Employees
      BY <1>4 DEF TakeSeat, At, PInv, IInv, Briefed, BriefedAt
    <3>2. teamOf[e] \in Teams
      BY <3>1 DEF PInv, IInv, TypeOK
    <3>3. q \in Call /\ q.stage = "charging"
      BY <1>0 DEF Call, Stage
    <3>4. call' = [call EXCEPT ![c] = r] /\ ledger' = ledger /\ paid' = paid
      BY <1>4, <2>1 DEF TakeSeat, books
    <3> HIDE DEF q
    <3>5. r \in Call /\ r.stage = "charging"
      BY <3>2, <3>3 DEF Call
    <3> HIDE DEF r
    <3>6. QED
      BY <3>4, <3>5, QuietStep DEF OwnsEntry
  <2>2. CASE ~SeatAllows(e, call[c].amount)
    BY <1>1, <1>4, <2>2 DEF TakeSeat
  <2>3. QED
    BY <2>1, <2>2
<1>5. CASE TakeTeam(c)
  <2>1. CASE TeamAllows(call[c].team, call[c].amount)
    BY <1>2, <1>5, <2>1 DEF TakeTeam, books
  <2>2. CASE ~TeamAllows(call[c].team, call[c].amount)
    BY <1>1, <1>5, <2>2 DEF TakeTeam
  <2>3. QED
    BY <2>1, <2>2
<1>6. CASE Commit(c) /\ ~StillWithinDay(c)
  BY <1>1, <1>6 DEF Commit
<1>7. QED
  BY <1>3, <1>4, <1>5, <1>6

LEMMA CommitFresh ==
  ASSUME PInv, IInv', NEW c \in Calls, Commit(c), StillWithinDay(c)
  PROVE  PInv'
<1> DEFINE r == Task("authorised", call[c].employee, call[c].amount, 0, Len(ledger) + 1)
<1>1. /\ DOMAIN ledger' = DOMAIN ledger \cup {Len(ledger) + 1}
      /\ Len(ledger) + 1 \notin DOMAIN ledger /\ Len(ledger) \in Nat
      /\ \A j \in DOMAIN ledger : ledger'[j] = ledger[j]
  BY CommitWrites DEF PInv
<1>2. call' = [call EXCEPT ![c] = r] /\ paid' = paid
  BY DEF Commit
<1>3. r.stage = "authorised" /\ r.entry = Len(ledger) + 1
  BY DEF Task
<1> HIDE DEF r
<1>4. call'[c] = r /\ \A d \in Calls : d # c => call'[d] = call[d]
  BY <1>2 DEF PInv, IInv, TypeOK
<1>5. call'[c].entry \notin DOMAIN ledger /\ call'[c].entry \notin paid'
  BY <1>1, <1>2, <1>3, <1>4 DEF PInv, IInv, TypeOK
<1>6. EntryAt(c)'
  BY <1>3, <1>4, <1>5 DEF EntryAt, At
<1>7. call[c].stage \notin OwnsEntry
  BY DEF Commit, At, OwnsEntry
<1>8. QED
  BY <1>1, <1>2, <1>4, <1>5, <1>6, <1>7, OwnerStep


\* Facts the steps of the executor share.
LEMMA Owner ==
  ASSUME PInv, NEW c \in Calls, call[c].stage \in OwnsEntry
  PROVE  /\ call[c] \in Call /\ call \in [Calls -> Call]
         /\ ledger \in Seq(Reservation)
         /\ call[c].entry \in DOMAIN ledger
         /\ ledger[call[c].entry] \in Reservation
         /\ EntryAt(c)
         /\ call[c].entry \in paid => ledger[call[c].entry].intent \in {"in_flight", "succeeded"}
<1>1. call[c].entry \in DOMAIN ledger
  BY DEF PInv, IInv, Briefed, BriefedAt, At, OwnsEntry
<1>2. ledger[call[c].entry] \in Reservation
  BY <1>1, Tables DEF PInv, IInv
<1>3. QED
  BY <1>1, <1>2 DEF PInv, IInv, TypeOK, MovedIsVisible

LEMMA ExecutorVisible ==
  ASSUME PInv, IInv', NEW c \in Calls, Pays(c)
  PROVE  PInv'
<1> DEFINE i == call[c].entry
<1>0. call[c].stage \in OwnsEntry
  BY DEF Pays, BeginSend, Pay, Settle, At, OwnsEntry
<1>1. /\ call[c] \in Call /\ call \in [Calls -> Call]
      /\ ledger \in Seq(Reservation) /\ i \in DOMAIN ledger
      /\ ledger[i] \in Reservation /\ EntryAt(c)
      /\ i \in paid => ledger[i].intent \in {"in_flight", "succeeded"}
  BY <1>0, Owner
<1>2. CASE BeginSend(c)
  <2> DEFINE r == [call[c] EXCEPT !.stage = "calling"]
             l == [ledger[i] EXCEPT !.intent = "in_flight"]
  <2>1. r.stage = "calling" /\ r.entry = i
    BY <1>1 DEF Call
  <2>2. l \in Reservation /\ l.intent = "in_flight"
    BY <1>1 DEF Reservation
  <2>3. call' = [call EXCEPT ![c] = r] /\ ledger' = [ledger EXCEPT ![i] = l] /\ paid' = paid
    BY <1>2 DEF BeginSend, Go
  <2> HIDE DEF l, r
  <2>4. /\ DOMAIN ledger' = DOMAIN ledger
        /\ \A j \in DOMAIN ledger : ledger'[j] = IF j = i THEN l ELSE ledger[j]
    BY <1>1, <2>2, <2>3, LedgerUpdate
  <2>5. call'[c] = r /\ \A d \in Calls : d # c => call'[d] = call[d]
    BY <1>1, <2>3
  <2>6. i \notin paid
    BY <1>1, <1>2 DEF EntryAt, Unpaid, BeginSend, At
  <2>7. EntryAt(c)'
    BY <1>1, <2>1, <2>2, <2>3, <2>4, <2>5, <2>6 DEF EntryAt
  <2>8. QED
    BY <1>0, <1>1, <2>1, <2>3, <2>4, <2>5, <2>6, <2>7, OwnerStep
<1>3. CASE Pay(c)
  <2>1. PICK s \in {"ok", "refused", "unknown"} :
          /\ Go(c, s)
          /\ s = "refused" => paid' = paid
          /\ paid' = paid \/ paid' = paid \cup {i}
    BY <1>3 DEF Pay
  <2> DEFINE r == [call[c] EXCEPT !.stage = s]
  <2>2. r.stage = s /\ r.entry = i
    BY <1>1 DEF Call
  <2>3. call' = [call EXCEPT ![c] = r] /\ ledger' = ledger
    BY <1>3, <2>1 DEF Pay, Go, books
  <2> HIDE DEF r
  <2>4. call'[c] = r /\ \A d \in Calls : d # c => call'[d] = call[d]
    BY <1>1, <2>3
  <2>5. i \notin paid /\ ledger[i].intent = "in_flight"
    BY <1>1, <1>3 DEF EntryAt, Unpaid, Pay, At
  <2>6. EntryAt(c)'
    BY <2>1, <2>2, <2>4, <2>5 DEF EntryAt, Unpaid, At
  <2>7. call'[c].stage \in OwnsEntry /\ call'[c].entry = i
    BY <2>2, <2>4 DEF OwnsEntry
  <2> HIDE DEF i
  <2>8. \A j \in paid' : j \in paid \/ j = i
    BY <2>1
  <2>9. QED
    BY <1>0, <2>3, <2>4, <2>5, <2>6, <2>7, <2>8, OwnerStep DEF i
<1>4. CASE Settle(c)
  <2> DEFINE k == [ledger[i] EXCEPT !.state = "settled"]
             l == [k EXCEPT !.intent = "succeeded"]
  <2>1. k \in Reservation
    BY <1>1 DEF Reservation
  <2>2. call' = [call EXCEPT ![c] = Free] /\ ledger' = [ledger EXCEPT ![i] = l] /\ paid' = paid
    BY <1>4 DEF Settle
  <2> HIDE DEF k
  <2>3. l \in Reservation /\ l.intent = "succeeded"
    BY <2>1 DEF Reservation
  <2> HIDE DEF l
  <2>4. /\ DOMAIN ledger' = DOMAIN ledger
        /\ \A j \in DOMAIN ledger : ledger'[j] = IF j = i THEN l ELSE ledger[j]
    BY <1>1, <2>2, <2>3, LedgerUpdate
  <2>5. call'[c].stage = "idle" /\ \A d \in Calls : d # c => call'[d] = call[d]
    BY <1>1, <2>2, FreeHoldsNothing
  <2>6. EntryAt(c)'
    BY <2>5 DEF EntryAt, Unpaid, At
  <2>7. QED
    BY <1>0, <1>1, <2>2, <2>3, <2>4, <2>5, <2>6, FreeHoldsNothing, OwnerStep
<1>5. QED
  BY <1>2, <1>3, <1>4 DEF Pays

LEMMA ReturnVisible ==
  ASSUME PInv, IInv', NEW c \in Calls, Returns(c)
  PROVE  PInv'
<1> DEFINE i == call[c].entry
<1>0. call[c].stage \in OwnsEntry
  BY DEF Returns, CreditSeat, CreditTeam, Release, At, OwnsEntry
<1>1. /\ call[c] \in Call /\ call \in [Calls -> Call]
      /\ ledger \in Seq(Reservation) /\ i \in DOMAIN ledger
      /\ ledger[i] \in Reservation /\ EntryAt(c)
      /\ i \in paid => ledger[i].intent \in {"in_flight", "succeeded"}
  BY <1>0, Owner
<1>2. CASE CreditSeat(c)
  <2> DEFINE e == call[c].employee
             q == [call[c] EXCEPT !.stage = "crediting"]
             p == [q EXCEPT !.answer = call[c].stage]
             r == [p EXCEPT !.team = teamOf[e]]
  <2>1. call' = [call EXCEPT ![c] = r] /\ ledger' = ledger /\ paid' = paid
        /\ call[c].stage \in {"refused", "unknown"}
    BY <1>2 DEF CreditSeat, books
  <2>2. q \in Call /\ q.stage = "crediting" /\ q.entry = i
    BY <1>1 DEF Call, Stage
  <2> HIDE DEF q
  <2>3. p \in Call /\ p.stage = "crediting" /\ p.entry = i /\ p.answer = call[c].stage
    BY <2>1, <2>2 DEF Call
  <2> HIDE DEF p
  <2>4. r.stage = "crediting" /\ r.entry = i /\ r.answer = call[c].stage
    BY <2>3 DEF Call
  <2> HIDE DEF r
  <2>5. call'[c] = r /\ \A d \in Calls : d # c => call'[d] = call[d]
    BY <1>1, <2>1
  <2>6. EntryAt(c)'
    BY <1>1, <2>1, <2>4, <2>5 DEF EntryAt, Unpaid, At
  <2>7. QED
    BY <1>0, <1>1, <2>1, <2>4, <2>5, <2>6, OwnerStep
<1>3. CASE CreditTeam(c)
  <2> DEFINE r == [call[c] EXCEPT !.stage = "returning"]
  <2>1. call' = [call EXCEPT ![c] = r] /\ ledger' = ledger /\ paid' = paid
        /\ call[c].stage = "crediting"
    BY <1>3 DEF CreditTeam, Go, At, books
  <2>2. r.stage = "returning" /\ r.entry = i /\ r.answer = call[c].answer
    BY <1>1 DEF Call
  <2> HIDE DEF r
  <2>3. call'[c] = r /\ \A d \in Calls : d # c => call'[d] = call[d]
    BY <1>1, <2>1
  <2>4. EntryAt(c)'
    BY <1>1, <2>1, <2>2, <2>3 DEF EntryAt, Unpaid, At
  <2>5. QED
    BY <1>0, <1>1, <2>1, <2>2, <2>3, <2>4, OwnerStep
<1>4. CASE Release(c)
  <2> DEFINE k == [ledger[i] EXCEPT !.state = "released"]
             x == IntentAfter(ledger[i], call[c].answer)
             l == [k EXCEPT !.intent = x]
  <2>1. Ends(c) /\ paid' = paid /\ call[c].stage = "returning"
    BY <1>4 DEF Release, At
  <2>2. ledger' = ledger \/ ledger' = [ledger EXCEPT ![i] = l]
    BY <1>4 DEF Release, Released, books
  <2>3. CASE ledger' = ledger
    BY <2>1, <2>3, EndsQuiet
  <2>4. CASE ledger' = [ledger EXCEPT ![i] = l]
    <3>1. k \in Reservation
      BY <1>1 DEF Reservation
    <3>2. x \in {"none", "in_flight", "succeeded", "failed"}
      BY <1>1 DEF Reservation, IntentAfter
    \* A refusal was no payment; after anything else the intent is left alone.
    <3>3. i \in paid => x \in {"in_flight", "succeeded"}
      BY <1>1, <2>1 DEF IntentAfter, EntryAt, Unpaid
    <3> HIDE DEF k, x
    <3>4. l \in Reservation /\ l.intent = x
      BY <3>1, <3>2 DEF Reservation
    <3> HIDE DEF l
    <3>5. /\ DOMAIN ledger' = DOMAIN ledger
          /\ \A j \in DOMAIN ledger : ledger'[j] = IF j = i THEN l ELSE ledger[j]
      BY <1>1, <2>4, <3>4, LedgerUpdate
    <3>6. call'[c].stage = "idle" /\ \A d \in Calls : d # c => call'[d] = call[d]
      BY <1>1, <2>1, FreeHoldsNothing DEF Ends
    <3>7. EntryAt(c)'
      BY <3>6 DEF EntryAt, Unpaid, At
    <3>8. QED
      BY <1>0, <1>1, <2>1, <3>3, <3>4, <3>5, <3>6, <3>7, FreeHoldsNothing, OwnerStep
  <2>5. QED
    BY <2>2, <2>3, <2>4
<1>5. QED
  BY <1>2, <1>3, <1>4 DEF Returns

LEMMA PInvStep ==
  ASSUME PInv, [Next]_vars
  PROVE  PInv'
<1>0. IInv /\ IInv'
  BY IInvStep DEF PInv
<1>1. ASSUME NEW c \in Calls, NEW e \in Employees, NEW m \in Amounts, Rule(c, e, m)
      PROVE  PInv'
  <2> DEFINE r == Task("reserving", e, m, 0, 0)
  <2>1. "reserving" \in Stage
    BY DEF Stage
  <2>2. r \in Call /\ r.stage = "reserving"
    BY <2>1, TaskIsCall, Limits
  <2>3. call' = [call EXCEPT ![c] = r] /\ ledger' = ledger /\ paid' = paid
    BY <1>1 DEF Rule, books
  <2> HIDE DEF r
  <2>4. QED
    BY <1>0, <2>2, <2>3, QuietStep DEF OwnsEntry
<1>2. ASSUME NEW c \in Calls, NEW a \in DOMAIN approval, StartRedeem(c, a)
      PROVE  PInv'
  <2> DEFINE r == Task("redeeming", approval[a].employee, approval[a].amount, a, 0)
  <2>1. call' = [call EXCEPT ![c] = r] /\ ledger' = ledger /\ paid' = paid
    BY <1>2 DEF StartRedeem, books
  <2>2. r.stage = "redeeming"
    BY DEF Task
  <2> HIDE DEF r
  <2>3. r \in Call
    <3>1. call'[c] = r
      BY <2>1 DEF PInv, IInv, TypeOK
    <3>2. QED
      BY <1>0, <3>1 DEF IInv, TypeOK
  <2>4. QED
    BY <1>0, <2>1, <2>2, <2>3, QuietStep DEF OwnsEntry
<1>3. ASSUME NEW c \in Calls, Reserves(c)
      PROVE  PInv'
  BY <1>0, <1>3, GateQuiet, CommitFresh DEF Reserves
<1>4. ASSUME NEW c \in Calls, Pays(c) \/ Returns(c)
      PROVE  PInv'
  BY <1>0, <1>4, ExecutorVisible, ReturnVisible
<1>5. ASSUME NEW c \in Calls, Fail(c)
      PROVE  PInv'
  BY <1>0, <1>5, EndsQuiet DEF Fail, books
<1>6. CASE UNCHANGED <<ledger, call, paid>>
  BY <1>0, <1>6 DEF PInv, MovedIsVisible, EntryAt, Unpaid, Alone, At
<1>7. CASE Next
  <2>1. \/ \E c \in Calls :
             \/ \E e \in Employees, m \in Amounts : Rule(c, e, m)
             \/ \E a \in DOMAIN approval : StartRedeem(c, a)
             \/ Reserves(c) \/ Pays(c) \/ Returns(c) \/ Fail(c)
        \/ UNCHANGED <<ledger, call, paid>>
    BY <1>7 DEF Next, RequestApproval, Deny, Expire, Suspend, Move, Halt, books
  <2>2. QED
    BY <1>1, <1>2, <1>3, <1>4, <1>5, <1>6, <2>1
<1>8. CASE UNCHANGED vars
  BY <1>6, <1>8 DEF vars, books
<1>9. QED
  BY <1>7, <1>8

\* A payment whose money moved is never recorded as failed, whatever the rail
\* answered, whoever timed out and whoever died (record_sent, IntentAfter).
THEOREM MovedMoneyIsVisible == Spec => []MovedIsVisible
<1>1. Init => PInv
  <2> SUFFICES ASSUME Init PROVE PInv
    OBVIOUS
  <2>1. paid = {} /\ \A c \in Calls : call[c].stage = "idle"
    BY FreeHoldsNothing DEF Init
  <2>2. QED
    BY <2>1, IInvInit DEF PInv, MovedIsVisible, EntryAt, Unpaid, Alone, At, OwnsEntry
<1>2. PInv /\ [Next]_vars => PInv'
  BY PInvStep
<1>3. PInv => MovedIsVisible
  BY DEF PInv
<1>4. QED
  BY <1>1, <1>2, <1>3, PTL DEF Spec

-----------------------------------------------------------------------------
(* Sums over finite sets, as the community modules' fold computes them. The *)
(* arguments by induction take the smallest set of which a claim fails.     *)

\* A family of sets within a finite one has a smallest member.
LEMMA Smallest ==
  ASSUME NEW S, IsFiniteSet(S), NEW B, B \subseteq SUBSET S, B # {}
  PROVE  \E T \in B : \A U \in SUBSET T : U # T => U \notin B
<1>1. B \subseteq FiniteSubsetsOf(S)
  BY FS_FiniteSubsetsOfFinite
<1>2. IsWellFoundedOn(StrictSubsetOrdering(S), FiniteSubsetsOf(S))
  BY FS_StrictSubsetOrderingWellFounded
<1>3. PICK T \in B : \A U \in B : ~(<<U, T>> \in StrictSubsetOrdering(S))
  BY <1>1, <1>2, WFMin
<1>4. ASSUME NEW U \in SUBSET T, U # T, U \in B PROVE FALSE
  BY <1>3, <1>4 DEF StrictSubsetOrdering
<1>5. QED
  BY <1>4

Less == {ss \in Nat \X Nat : ss[1] < ss[2]}

\* A set of natural numbers that is not empty has a least one.
LEMMA LeastOne ==
  ASSUME NEW T \in SUBSET Nat, T # {}
  PROVE  \E x \in T : \A y \in T : x <= y
<1>0. IsWellFoundedOn(Less, Nat)
  BY NatLessThanWellFounded DEF OpToRel, Less
<1>1. PICK x \in T : \A y \in T : ~(<<y, x>> \in Less)
  BY <1>0, WFMin
<1>2. ASSUME NEW y \in T PROVE x <= y
  <2>1. ~(y < x)
    BY <1>1 DEF Less
  <2>2. QED
    BY <2>1
<1>3. QED
  BY <1>2

Any(s) == CHOOSE x \in s : TRUE

\* The fold's equation: g sums f over every subset of S.
Sums(g, f, S) ==
  g = [s \in SUBSET S |-> IF s = {} THEN 0 ELSE f[Any(s)] + g[s \ {Any(s)}]]

Summing(f, S) == CHOOSE g : Sums(g, f, S)
Sum(f, S) == Summing(f, S)[S]

\* There is such a function: there is no least size up to which none is.
LEMMA SumExists ==
  ASSUME NEW f, NEW S, IsFiniteSet(S)
  PROVE  Sums(Summing(f, S), f, S)
<1> DEFINE Size(s) == Cardinality(s)
           Upto(n) == {s \in SUBSET S : Cardinality(s) <= n}
           Good(g, n) == g = [s \in Upto(n) |-> IF s = {} THEN 0 ELSE f[Any(s)] + g[s \ {Any(s)}]]
<1>0. \A s \in SUBSET S : /\ IsFiniteSet(s) /\ Cardinality(s) \in Nat
                          /\ Cardinality(s) <= Cardinality(S)
                          /\ s # {} => /\ Any(s) \in s /\ s \ {Any(s)} \in SUBSET S
                                       /\ Cardinality(s \ {Any(s)}) = Cardinality(s) - 1
  <2> SUFFICES ASSUME NEW s \in SUBSET S
               PROVE  /\ IsFiniteSet(s) /\ Cardinality(s) \in Nat
                      /\ Cardinality(s) <= Cardinality(S)
                      /\ s # {} => /\ Any(s) \in s /\ s \ {Any(s)} \in SUBSET S
                                   /\ Cardinality(s \ {Any(s)}) = Cardinality(s) - 1
    OBVIOUS
  <2>1. IsFiniteSet(s) /\ Cardinality(s) <= Cardinality(S)
    BY FS_Subset
  <2>2. Cardinality(s) \in Nat
    BY <2>1, FS_CardinalityType
  <2>3. s # {} => Any(s) \in s
    BY DEF Any
  <2>4. s # {} => Cardinality(s \ {Any(s)}) = Cardinality(s) - 1
    BY <2>1, <2>3, FS_RemoveElement
  <2>5. QED
    BY <2>1, <2>2, <2>3, <2>4
<1>1. Cardinality(S) \in Nat
  BY <1>0
<1>2. \E g : Good(g, 0)
  <2>1. ASSUME NEW s \in Upto(0) PROVE s = {}
    <3>0. s \in SUBSET S /\ Cardinality(s) <= 0
      OBVIOUS
    <3>1. IsFiniteSet(s) /\ Cardinality(s) \in Nat
      BY <1>0, <3>0
    <3>2. QED
      BY <3>0, <3>1, FS_EmptySet
  <2> DEFINE g == [s \in Upto(0) |-> 0]
             k == [s \in Upto(0) |-> IF s = {} THEN 0 ELSE f[Any(s)] + g[s \ {Any(s)}]]
  <2> HIDE DEF Upto
  <2>2. g = k
    <3>1. \A s \in Upto(0) : g[s] = k[s]
      BY <2>1
    <3>2. QED
      BY <3>1
  <2>3. QED
    BY <2>2
<1>3. ASSUME NEW n \in Nat, NEW g, Good(g, n) PROVE \E h : Good(h, n + 1)
  <2> DEFINE h == [s \in Upto(n + 1) |-> IF s = {} THEN 0 ELSE f[Any(s)] + g[s \ {Any(s)}]]
  <2>1. ASSUME NEW s \in Upto(n + 1), s # {} PROVE h[s \ {Any(s)}] = g[s \ {Any(s)}]
    <3> DEFINE u == s \ {Any(s)}
    <3>1. u \in SUBSET S /\ Cardinality(u) <= n /\ Cardinality(u) <= n + 1
      BY <1>0, <2>1
    <3>2. u \in Upto(n) /\ u \in Upto(n + 1)
      BY <3>1
    <3> HIDE DEF u, Upto
    <3>3. h[u] = IF u = {} THEN 0 ELSE f[Any(u)] + g[u \ {Any(u)}]
      BY <3>2
    <3>4. g[u] = IF u = {} THEN 0 ELSE f[Any(u)] + g[u \ {Any(u)}]
      BY <1>3, <3>2
    <3>5. QED
      BY <3>3, <3>4 DEF u
  <2> HIDE DEF Upto
  <2>2. h = [s \in Upto(n + 1) |-> IF s = {} THEN 0 ELSE f[Any(s)] + h[s \ {Any(s)}]]
    <3> DEFINE k == [s \in Upto(n + 1) |-> IF s = {} THEN 0 ELSE f[Any(s)] + h[s \ {Any(s)}]]
    <3>1. \A s \in Upto(n + 1) : h[s] = k[s]
      BY <2>1
    <3>2. QED
      BY <3>1
  <2>3. QED
    BY <2>2
<1> HIDE DEF Good
<1>4. \A n \in Nat : \E g : Good(g, n)
  <2> DEFINE Bad == {n \in Nat : ~\E g : Good(g, n)}
  <2> SUFFICES ASSUME Bad # {} PROVE FALSE
    OBVIOUS
  <2>1. PICK n \in Bad : \A m \in Bad : n <= m
    BY LeastOne
  <2>2. n \in Nat /\ n # 0 /\ n - 1 \in Nat
    BY <1>2
  <2>3. n - 1 \notin Bad
    <3>1. ~(n <= n - 1)
      BY <2>2
    <3>2. QED
      BY <2>1, <3>1
  <2>4. \E g : Good(g, n - 1)
    BY <2>2, <2>3
  <2>5. \E g : Good(g, n - 1 + 1)
    BY <1>3, <2>2, <2>4
  <2>6. n - 1 + 1 = n
    BY <2>2
  <2>7. QED
    BY <2>5, <2>6
<1>5. Upto(Cardinality(S)) = SUBSET S
  BY <1>0
<1>6. \E g : Sums(g, f, S)
  BY <1>1, <1>4, <1>5 DEF Good, Sums
<1>7. QED
  BY <1>6 DEF Summing

\* One step of the fold.
LEMMA SumUnfolds ==
  ASSUME NEW f, NEW S, IsFiniteSet(S), NEW T \in SUBSET S
  PROVE  /\ T = {} => Summing(f, S)[T] = 0
         /\ T # {} => /\ Any(T) \in T
                      /\ Summing(f, S)[T] = f[Any(T)] + Summing(f, S)[T \ {Any(T)}]
<1> DEFINE g == Summing(f, S)
<1>1. Sums(g, f, S)
  BY SumExists
<1> HIDE DEF g
<1>2. g[T] = IF T = {} THEN 0 ELSE f[Any(T)] + g[T \ {Any(T)}]
  BY <1>1 DEF Sums
<1>3. T # {} => Any(T) \in T
  BY DEF Any
<1>4. QED
  BY <1>2, <1>3 DEF g

\* What a set sums up to does not depend on the set it is a part of.
LEMMA SumLocal ==
  ASSUME NEW f, NEW S, IsFiniteSet(S)
  PROVE  \A T \in SUBSET S : Summing(f, S)[T] = Sum(f, T)
<1> DEFINE B == {T \in SUBSET S : \E V \in SUBSET S : T \in SUBSET V /\ Summing(f, V)[T] # Sum(f, T)}
<1> SUFFICES ASSUME B # {} PROVE FALSE
  OBVIOUS
<1>0. B # {} /\ B \subseteq SUBSET S
  OBVIOUS
<1> HIDE DEF B
<1>1. PICK T \in B : \A U \in SUBSET T : U # T => U \notin B
  BY <1>0, Smallest
<1> USE DEF B
<1>2. PICK V \in SUBSET S : T \in SUBSET V /\ Summing(f, V)[T] # Sum(f, T)
  OBVIOUS
<1>3. IsFiniteSet(V) /\ IsFiniteSet(T)
  BY <1>2, FS_Subset
<1>4. T # {}
  <2>1. T = {} => Summing(f, V)[T] = 0 /\ Summing(f, T)[T] = 0
    BY <1>2, <1>3, SumUnfolds
  <2>2. QED
    BY <1>2, <2>1 DEF Sum
<1> DEFINE x == Any(T)
           u == T \ {x}
<1>5. x \in T /\ Summing(f, V)[T] = f[x] + Summing(f, V)[u]
  BY <1>2, <1>3, <1>4, SumUnfolds
<1>6. Summing(f, T)[T] = f[x] + Summing(f, T)[u]
  BY <1>3, <1>4, SumUnfolds
<1>7. u \in SUBSET T /\ u # T
  BY <1>5
<1>8. u \notin B /\ u \in SUBSET S /\ u \in SUBSET V
  BY <1>1, <1>2, <1>7
<1>9. Summing(f, V)[u] = Sum(f, u) /\ Summing(f, T)[u] = Sum(f, u)
  BY <1>7, <1>8
<1>10. QED
  BY <1>2, <1>5, <1>6, <1>9 DEF Sum

\* The element the fold takes first.
LEMMA SumChosen ==
  ASSUME NEW f, NEW S, IsFiniteSet(S), S # {}
  PROVE  Any(S) \in S /\ Sum(f, S) = f[Any(S)] + Sum(f, S \ {Any(S)})
<1>0. \A T \in SUBSET S : T # {} =>
        /\ Any(T) \in T /\ Summing(f, S)[T] = f[Any(T)] + Summing(f, S)[T \ {Any(T)}]
  BY SumUnfolds
<1>1. Any(S) \in S /\ Summing(f, S)[S] = f[Any(S)] + Summing(f, S)[S \ {Any(S)}]
  BY <1>0
<1>2. Summing(f, S)[S \ {Any(S)}] = Sum(f, S \ {Any(S)})
  BY SumLocal
<1>3. QED
  BY <1>1, <1>2 DEF Sum

LEMMA SumEmpty == \A f : Sum(f, {}) = 0
BY SumUnfolds, FS_EmptySet DEF Sum

\* Natural numbers sum up to one.
LEMMA SumType ==
  ASSUME NEW f, NEW S, IsFiniteSet(S), \A x \in S : f[x] \in Nat
  PROVE  \A T \in SUBSET S : Sum(f, T) \in Nat
<1> DEFINE B == {T \in SUBSET S : Sum(f, T) \notin Nat}
<1> SUFFICES ASSUME B # {} PROVE FALSE
  OBVIOUS
<1>0. B # {} /\ B \subseteq SUBSET S
  OBVIOUS
<1> HIDE DEF B
<1>1. PICK T \in B : \A U \in SUBSET T : U # T => U \notin B
  BY <1>0, Smallest
<1> USE DEF B
<1>2. IsFiniteSet(T) /\ T # {}
  <2>1. T \in SUBSET S /\ IsFiniteSet(T)
    BY FS_Subset
  <2>2. Sum(f, {}) \in Nat
    BY SumEmpty
  <2>3. QED
    BY <2>1, <2>2
<1>3. Any(T) \in T /\ Sum(f, T) = f[Any(T)] + Sum(f, T \ {Any(T)})
  BY <1>2, SumChosen
<1>4. Sum(f, T \ {Any(T)}) \in Nat
  BY <1>1, <1>3
<1>5. f[Any(T)] \in Nat
  BY <1>3
<1>6. QED
  BY <1>3, <1>4, <1>5

\* It does not matter which element is taken out first.
LEMMA SumTakesAny ==
  ASSUME NEW f, NEW S, IsFiniteSet(S), \A x \in S : f[x] \in Nat, NEW x \in S
  PROVE  Sum(f, S) = f[x] + Sum(f, S \ {x}) /\ Sum(f, S \ {x}) \in Nat
<1> DEFINE B == {T \in SUBSET S : \E z \in T : Sum(f, T) # f[z] + Sum(f, T \ {z})}
<1>1. ASSUME B # {} PROVE FALSE
  <2>0. B # {} /\ B \subseteq SUBSET S
    BY <1>1
  <2> HIDE DEF B
  <2>1. PICK T \in B : \A U \in SUBSET T : U # T => U \notin B
    BY <2>0, Smallest
  <2> USE DEF B
  <2>2. PICK z \in T : Sum(f, T) # f[z] + Sum(f, T \ {z})
    OBVIOUS
  <2> DEFINE y == Any(T)
             v == (T \ {y}) \ {z}
  <2>3. IsFiniteSet(T)
    BY FS_Subset
  <2>4. y \in T /\ Sum(f, T) = f[y] + Sum(f, T \ {y})
    BY <2>2, <2>3, SumChosen
  <2> HIDE DEF y
  <2>5. y # z
    BY <2>2, <2>4
  <2>6. T \ {y} \notin B /\ T \ {y} \in SUBSET S /\ z \in T \ {y}
    BY <2>1, <2>2, <2>4, <2>5
  <2>7. T \ {z} \notin B /\ T \ {z} \in SUBSET S /\ y \in T \ {z}
    BY <2>1, <2>2, <2>4, <2>5
  <2>8. Sum(f, T \ {y}) = f[z] + Sum(f, v)
    BY <2>6
  <2>9. v = (T \ {z}) \ {y}
    OBVIOUS
  <2>10. Sum(f, T \ {z}) = f[y] + Sum(f, v)
    BY <2>7, <2>9
  <2>11. f[y] \in Nat /\ f[z] \in Nat /\ Sum(f, v) \in Nat
    BY <2>2, <2>4, SumType
  <2>12. QED
    BY <2>2, <2>4, <2>8, <2>10, <2>11
<1>2. S \notin B
  BY <1>1
<1>3. QED
  BY <1>2, SumType

\* One element more.
LEMMA SumAdds ==
  ASSUME NEW f, NEW S, IsFiniteSet(S), NEW x, x \notin S, f[x] \in Nat,
         \A y \in S : f[y] \in Nat
  PROVE  Sum(f, S \cup {x}) = f[x] + Sum(f, S) /\ Sum(f, S) \in Nat
<1> DEFINE R == S \cup {x}
<1>1. IsFiniteSet(R) /\ R \ {x} = S /\ x \in R /\ \A y \in R : f[y] \in Nat
  BY FS_AddElement
<1> HIDE DEF R
<1>2. Sum(f, R) = f[x] + Sum(f, R \ {x}) /\ Sum(f, R \ {x}) \in Nat
  BY <1>1, SumTakesAny
<1>3. QED
  BY <1>1, <1>2 DEF R

\* Only the values on the set count.
LEMMA SumSame ==
  ASSUME NEW f, NEW g, NEW S, IsFiniteSet(S), \A x \in S : f[x] = g[x]
  PROVE  Sum(f, S) = Sum(g, S)
<1> DEFINE B == {T \in SUBSET S : Sum(f, T) # Sum(g, T)}
<1> SUFFICES ASSUME B # {} PROVE FALSE
  OBVIOUS
<1>0. B # {} /\ B \subseteq SUBSET S
  OBVIOUS
<1> HIDE DEF B
<1>1. PICK T \in B : \A U \in SUBSET T : U # T => U \notin B
  BY <1>0, Smallest
<1> USE DEF B
<1>2. IsFiniteSet(T) /\ T # {}
  <2>1. T \in SUBSET S /\ IsFiniteSet(T)
    BY FS_Subset
  <2>2. Sum(f, {}) = Sum(g, {})
    BY SumEmpty
  <2>3. QED
    BY <2>1, <2>2
<1>3. /\ Any(T) \in T /\ Sum(f, T) = f[Any(T)] + Sum(f, T \ {Any(T)})
      /\ Sum(g, T) = g[Any(T)] + Sum(g, T \ {Any(T)})
  BY <1>2, SumChosen
<1>4. Sum(f, T \ {Any(T)}) = Sum(g, T \ {Any(T)})
  BY <1>1, <1>3
<1>5. f[Any(T)] = g[Any(T)]
  BY <1>3
<1>6. QED
  BY <1>3, <1>4, <1>5

\* Zeros sum up to zero.
LEMMA SumNone ==
  ASSUME NEW f, NEW S, IsFiniteSet(S), \A x \in S : f[x] = 0
  PROVE  Sum(f, S) = 0
<1> DEFINE B == {T \in SUBSET S : Sum(f, T) # 0}
<1> SUFFICES ASSUME B # {} PROVE FALSE
  OBVIOUS
<1>0. B # {} /\ B \subseteq SUBSET S
  OBVIOUS
<1> HIDE DEF B
<1>1. PICK T \in B : \A U \in SUBSET T : U # T => U \notin B
  BY <1>0, Smallest
<1> USE DEF B
<1>2. IsFiniteSet(T) /\ T # {}
  BY FS_Subset, SumEmpty
<1>3. Any(T) \in T /\ Sum(f, T) = f[Any(T)] + Sum(f, T \ {Any(T)})
  BY <1>2, SumChosen
<1>4. Sum(f, T \ {Any(T)}) = 0 /\ f[Any(T)] = 0
  BY <1>1, <1>3
<1>5. QED
  BY <1>3, <1>4

-----------------------------------------------------------------------------
(* Both ledgers add up.                                                    *)

\* The books as functions of a ledger, so that they can be said of the ledger
\* before a step and of the ledger after it.
Alive(L)        == {i \in DOMAIN L : L[i].state \in {"reserved", "settled"}}
OfSeat(L, e)    == {i \in Alive(L) : L[i].employee = e}
OfTeam(L, R, t) == {i \in Alive(L) : R[L[i].employee] = t}
TotalOf(L, S)   == MapThenSumSet(LAMBDA i : L[i].amount, S)

\* b and s are the buckets of teams and seats, R the roster, still that nobody
\* has moved.
Balanced(L, s, b, R, still) ==
  /\ \A e \in Employees :
       s[e].reserved = TotalOf(L, OfSeat(L, e)) /\ s[e].count = Cardinality(OfSeat(L, e))
  /\ Sum(b, Teams) = TotalOf(L, Alive(L))
  /\ still => \A t \in Teams : b[t] = TotalOf(L, OfTeam(L, R, t))

\* Balanced is what the property says, before a step and after it.
LEMMA Books == LedgersAgree <=> Balanced(ledger, seat, team, teamOf, moves = 0)
<1>1. \A S : Total(S) = TotalOf(ledger, S)
  BY DEF Total, TotalOf, MapThenSumSet, MapThenFoldSet
<1>2. MapThenSumSet(LAMBDA t : team[t], Teams) = Sum(team, Teams)
  BY DEF MapThenSumSet, MapThenFoldSet, Sum, Summing, Sums, Any
<1>3. /\ \A e : Entries(e) = OfSeat(ledger, e)
      /\ {i \in DOMAIN ledger : Live(i)} = Alive(ledger)
      /\ \A t : {i \in DOMAIN ledger : Live(i) /\ teamOf[ledger[i].employee] = t}
                 = OfTeam(ledger, teamOf, t)
  BY DEF Entries, Live, OfSeat, OfTeam, Alive
<1>4. QED
  BY <1>1, <1>2, <1>3 DEF LedgersAgree, SeatLedger, TeamLedger, Balanced

LEMMA BooksAfter == LedgersAgree' <=> Balanced(ledger', seat', team', teamOf', moves' = 0)
<1>1. \A S : Total(S)' = TotalOf(ledger', S')
  BY DEF Total, TotalOf, MapThenSumSet, MapThenFoldSet
<1>2. MapThenSumSet(LAMBDA t : team[t], Teams)' = Sum(team', Teams)
  BY DEF MapThenSumSet, MapThenFoldSet, Sum, Summing, Sums, Any
<1>3. /\ \A e : Entries(e)' = OfSeat(ledger', e)
      /\ {i \in DOMAIN ledger : Live(i)}' = Alive(ledger')
      /\ \A t : {i \in DOMAIN ledger : Live(i) /\ teamOf[ledger[i].employee] = t}'
                 = OfTeam(ledger', teamOf', t)
  BY DEF Entries, Live, OfSeat, OfTeam, Alive
<1>4. QED
  BY <1>1, <1>2, <1>3 DEF LedgersAgree, SeatLedger, TeamLedger, Balanced

\* The fold over a set of entries is a sum of the entries' amounts.
LEMMA TotalIsSum ==
  ASSUME NEW L, NEW S \in SUBSET DOMAIN L
  PROVE  TotalOf(L, S) = Sum([i \in DOMAIN L |-> L[i].amount], S)
<1> DEFINE f == [i \in DOMAIN L |-> L[i].amount]
           P(g) == g = [s \in SUBSET S |-> IF s = {} THEN 0 ELSE L[Any(s)].amount + g[s \ {Any(s)}]]
<1>1. TotalOf(L, S) = (CHOOSE g : P(g))[S]
  BY DEF TotalOf, MapThenSumSet, MapThenFoldSet, Any
<1>2. \A s \in SUBSET S : s # {} => f[Any(s)] = L[Any(s)].amount
  BY DEF Any
<1> HIDE DEF f
<1>3. ASSUME NEW g
      PROVE  [s \in SUBSET S |-> IF s = {} THEN 0 ELSE L[Any(s)].amount + g[s \ {Any(s)}]]
              = [s \in SUBSET S |-> IF s = {} THEN 0 ELSE f[Any(s)] + g[s \ {Any(s)}]]
  BY <1>2
<1>4. \A g : P(g) <=> Sums(g, f, S)
  BY <1>3 DEF Sums
<1> HIDE DEF P
<1>5. (CHOOSE g : P(g)) = (CHOOSE g : Sums(g, f, S))
  BY <1>4
<1>6. QED
  BY <1>1, <1>5 DEF Sum, Summing, f

\* The entries are finitely many, and their amounts are natural numbers.
LEMMA Entered ==
  ASSUME NEW L \in Seq(Reservation)
  PROVE  /\ IsFiniteSet(DOMAIN L)
         /\ \A S \in SUBSET DOMAIN L : IsFiniteSet(S)
         /\ \A i \in DOMAIN L : L[i] \in Reservation /\ L[i].amount \in Nat
<1>1. DOMAIN L = 1..Len(L) /\ Len(L) \in Nat
  BY LenProperties
<1>2. IsFiniteSet(DOMAIN L)
  BY <1>1, FS_Interval
<1>3. \A i \in DOMAIN L : L[i] \in Reservation
  BY <1>1, ElementOfSeq
<1>4. QED
  BY <1>2, <1>3, FS_Subset, PaymentsAssumption DEF Reservation

\* The same entries, told by another ledger.
LEMMA TotalSame ==
  ASSUME NEW L \in Seq(Reservation), NEW K \in Seq(Reservation),
         NEW S, S \subseteq DOMAIN L, S \subseteq DOMAIN K,
         \A j \in S : K[j].amount = L[j].amount
  PROVE  TotalOf(K, S) = TotalOf(L, S) /\ TotalOf(L, S) \in Nat
<1> DEFINE f == [i \in DOMAIN L |-> L[i].amount]
           g == [i \in DOMAIN K |-> K[i].amount]
<1>1. \A j \in S : f[j] = g[j] /\ f[j] \in Nat
  BY Entered
<1>2. IsFiniteSet(S)
  BY Entered
<1> HIDE DEF f, g
<1>3. Sum(f, S) = Sum(g, S) /\ Sum(f, S) \in Nat
  BY <1>1, <1>2, SumSame, SumType
<1>4. QED
  BY <1>3, TotalIsSum DEF f, g

\* One entry more.
LEMMA TotalGrows ==
  ASSUME NEW K \in Seq(Reservation), NEW S, S \subseteq DOMAIN K, NEW i \in DOMAIN K, i \notin S
  PROVE  TotalOf(K, S \cup {i}) = TotalOf(K, S) + K[i].amount
<1> DEFINE g == [j \in DOMAIN K |-> K[j].amount]
<1>1. g[i] = K[i].amount /\ g[i] \in Nat /\ \A j \in S : g[j] \in Nat
  BY Entered
<1>2. IsFiniteSet(S)
  BY Entered
<1>3. TotalOf(K, S) = Sum(g, S) /\ TotalOf(K, S \cup {i}) = Sum(g, S \cup {i})
  BY TotalIsSum
<1> HIDE DEF g
<1>4. Sum(g, S \cup {i}) = g[i] + Sum(g, S) /\ Sum(g, S) \in Nat
  BY <1>1, <1>2, SumAdds
<1>5. QED
  BY <1>1, <1>3, <1>4

\* Two ledgers that differ in nothing the books count.
LEMMA SameBooks ==
  ASSUME NEW L \in Seq(Reservation), NEW K \in Seq(Reservation), DOMAIN K = DOMAIN L,
         \A j \in DOMAIN L : /\ K[j].amount = L[j].amount /\ K[j].employee = L[j].employee
                             /\ j \in Alive(K) <=> j \in Alive(L),
         NEW s, NEW b, NEW R, NEW still \in BOOLEAN, Balanced(L, s, b, R, still)
  PROVE  Balanced(K, s, b, R, still)
<1>1. /\ Alive(K) = Alive(L)
      /\ \A e : OfSeat(K, e) = OfSeat(L, e)
      /\ \A t : OfTeam(K, R, t) = OfTeam(L, R, t)
  BY DEF Alive, OfSeat, OfTeam
<1>2. \A S \in SUBSET DOMAIN L : TotalOf(K, S) = TotalOf(L, S)
  BY TotalSame
<1>3. /\ Alive(L) \in SUBSET DOMAIN L
      /\ \A e : OfSeat(L, e) \in SUBSET DOMAIN L
      /\ \A t : OfTeam(L, R, t) \in SUBSET DOMAIN L
  BY DEF Alive, OfSeat, OfTeam
<1>4. QED
  BY <1>1, <1>2, <1>3 DEF Balanced

\* K has one live entry more than L, and the buckets z and d hold its amount
\* above s and b.
OneMore(L, K, s, z, b, d, i, t) ==
  /\ i \in DOMAIN K /\ i \in Alive(K) /\ i \notin Alive(L)
  /\ DOMAIN L \subseteq DOMAIN K
  /\ \A j \in DOMAIN K : j # i =>
       /\ j \in DOMAIN L
       /\ K[j].amount = L[j].amount /\ K[j].employee = L[j].employee
       /\ j \in Alive(K) <=> j \in Alive(L)
  /\ z[K[i].employee].reserved = s[K[i].employee].reserved + K[i].amount
  /\ z[K[i].employee].count = s[K[i].employee].count + 1
  /\ \A e \in Employees : e # K[i].employee =>
       z[e].reserved = s[e].reserved /\ z[e].count = s[e].count
  /\ t \in Teams /\ d[t] = b[t] + K[i].amount
  /\ \A u \in Teams : u # t => d[u] = b[u]

\* The teams' buckets together.
LEMMA TeamsTogether ==
  ASSUME NEW b \in [Teams -> Nat], NEW d \in [Teams -> Nat], NEW t \in Teams, NEW m \in Nat,
         d[t] = b[t] + m, \A u \in Teams : u # t => d[u] = b[u]
  PROVE  Sum(d, Teams) = Sum(b, Teams) + m /\ Sum(b, Teams) \in Nat
<1>0. IsFiniteSet(Teams) /\ IsFiniteSet(Teams \ {t})
  BY PaymentsAssumption, FS_RemoveElement
<1>1. Sum(b, Teams) = b[t] + Sum(b, Teams \ {t}) /\ Sum(b, Teams \ {t}) \in Nat
  BY <1>0, SumTakesAny
<1>2. Sum(d, Teams) = d[t] + Sum(d, Teams \ {t}) /\ Sum(d, Teams \ {t}) \in Nat
  BY <1>0, SumTakesAny
<1>3. Sum(d, Teams \ {t}) = Sum(b, Teams \ {t})
  BY <1>0, SumSame
<1>4. b[t] \in Nat /\ d[t] \in Nat
  OBVIOUS
<1>5. QED
  BY <1>1, <1>2, <1>3, <1>4

LEMMA Shift == \A x, y, m \in Nat : x = y <=> x + m = y + m
OBVIOUS

LEMMA Back == \A x, m \in Nat : x = (x - m) + m /\ x = (x - 1) + 1
OBVIOUS

\* The books of the two agree or disagree alike: what a commit does and, read
\* backwards, what a release does.
LEMMA OneMoreBooks ==
  ASSUME NEW L \in Seq(Reservation), NEW K \in Seq(Reservation),
         NEW s \in [Employees -> [reserved : Nat, count : Nat]],
         NEW z \in [Employees -> [reserved : Nat, count : Nat]],
         NEW b \in [Teams -> Nat], NEW d \in [Teams -> Nat],
         NEW R \in [Employees -> Teams], NEW i, NEW t, NEW still \in BOOLEAN,
         OneMore(L, K, s, z, b, d, i, t), still => t = R[K[i].employee]
  PROVE  Balanced(L, s, b, R, still) <=> Balanced(K, z, d, R, still)
<1> DEFINE f == K[i].employee
           m == K[i].amount
<1>1. f \in Employees /\ m \in Nat /\ i \in DOMAIN K /\ t \in Teams
  <2>1. i \in DOMAIN K /\ t \in Teams
    BY DEF OneMore
  <2>2. K[i] \in Reservation /\ K[i].amount \in Nat
    BY <2>1, Entered
  <2>3. QED
    BY <2>1, <2>2 DEF Reservation
<1>2. /\ Alive(K) = Alive(L) \cup {i}
      /\ \A e : OfSeat(K, e) = IF e = f THEN OfSeat(L, e) \cup {i} ELSE OfSeat(L, e)
      /\ \A u : OfTeam(K, R, u) = IF u = R[f] THEN OfTeam(L, R, u) \cup {i} ELSE OfTeam(L, R, u)
  <2>1. Alive(K) = Alive(L) \cup {i} /\ i \notin Alive(L)
    BY DEF OneMore, Alive
  <2>2. \A j \in Alive(L) : K[j].employee = L[j].employee
    BY DEF OneMore, Alive
  <2>3. QED
    BY <2>1, <2>2 DEF OfSeat, OfTeam
<1>3. ASSUME NEW S, S \subseteq Alive(L)
      PROVE  /\ TotalOf(K, S) = TotalOf(L, S) /\ TotalOf(K, S \cup {i}) = TotalOf(L, S) + m
             /\ TotalOf(L, S) \in Nat
             /\ Cardinality(S \cup {i}) = Cardinality(S) + 1 /\ Cardinality(S) \in Nat
  <2>1. S \subseteq DOMAIN L /\ S \subseteq DOMAIN K /\ i \notin S
    BY <1>3 DEF OneMore, Alive
  <2>2. \A j \in S : K[j].amount = L[j].amount
    BY <2>1 DEF OneMore
  <2>3. IsFiniteSet(S)
    BY <2>1, Entered
  <2>4. Cardinality(S \cup {i}) = Cardinality(S) + 1 /\ Cardinality(S) \in Nat
    BY <2>1, <2>3, FS_AddElement, FS_CardinalityType
  <2>5. TotalOf(K, S) = TotalOf(L, S) /\ TotalOf(L, S) \in Nat
    BY <2>1, <2>2, TotalSame
  <2>6. TotalOf(K, S \cup {i}) = TotalOf(K, S) + K[i].amount
    <3>1. i \in DOMAIN K
      BY <1>1
    <3>2. QED
      BY <2>1, <3>1, TotalGrows
  <2>7. QED
    BY <2>4, <2>5, <2>6
<1>4. \A e : OfSeat(L, e) \subseteq Alive(L)
  BY DEF OfSeat
<1>5. \A u : OfTeam(L, R, u) \subseteq Alive(L)
  BY DEF OfTeam
<1>6. ASSUME NEW e \in Employees
      PROVE  /\ s[e].reserved = TotalOf(L, OfSeat(L, e)) <=> z[e].reserved = TotalOf(K, OfSeat(K, e))
             /\ s[e].count = Cardinality(OfSeat(L, e)) <=> z[e].count = Cardinality(OfSeat(K, e))
  <2>1. /\ s[e].reserved \in Nat /\ s[e].count \in Nat
        /\ z[e].reserved \in Nat /\ z[e].count \in Nat
    OBVIOUS
  <2> DEFINE S == OfSeat(L, e)
             x == TotalOf(L, S)
             n == Cardinality(S)
  <2>2. /\ TotalOf(K, S) = x /\ TotalOf(K, S \cup {i}) = x + m /\ x \in Nat
        /\ Cardinality(S \cup {i}) = n + 1 /\ n \in Nat
    BY <1>3, <1>4
  <2>3. CASE e = f
    <3>1. OfSeat(K, e) = S \cup {i}
      BY <1>2, <2>3
    <3>2. z[f].reserved = s[f].reserved + m /\ z[f].count = s[f].count + 1
      BY DEF OneMore
    <3>3. z[e].reserved = s[e].reserved + m /\ z[e].count = s[e].count + 1
      BY <2>3, <3>2
    <3>4. m \in Nat /\ x + m = TotalOf(K, OfSeat(K, e)) /\ n + 1 = Cardinality(OfSeat(K, e))
      BY <1>1, <2>2, <3>1
    <3> HIDE DEF x, n, m
    <3>5. s[e].reserved = x <=> s[e].reserved + m = x + m
      BY <2>1, <2>2, <3>4, Shift
    <3>6. s[e].count = n <=> s[e].count + 1 = n + 1
      BY <2>1, <2>2
    <3>7. QED
      BY <3>3, <3>4, <3>5, <3>6 DEF x, n
  <2>4. CASE e # f
    <3>1. OfSeat(K, e) = S
      BY <1>2, <2>4
    <3>2. z[e].reserved = s[e].reserved /\ z[e].count = s[e].count
      BY <2>4 DEF OneMore
    <3>3. QED
      BY <2>2, <3>1, <3>2
  <2>5. QED
    BY <2>3, <2>4
<1>7. Sum(b, Teams) = TotalOf(L, Alive(L)) <=> Sum(d, Teams) = TotalOf(K, Alive(K))
  <2>1. Sum(d, Teams) = Sum(b, Teams) + m /\ Sum(b, Teams) \in Nat
    <3>1. d[t] = b[t] + m /\ \A u \in Teams : u # t => d[u] = b[u]
      BY DEF OneMore
    <3> HIDE DEF m
    <3>2. QED
      BY <1>1, <3>1, TeamsTogether
  <2>2. TotalOf(K, Alive(K)) = TotalOf(L, Alive(L)) + m /\ TotalOf(L, Alive(L)) \in Nat
    BY <1>2, <1>3
  <2> HIDE DEF m
  <2>3. QED
    BY <1>1, <2>1, <2>2
<1>8. ASSUME still, NEW u \in Teams
      PROVE  b[u] = TotalOf(L, OfTeam(L, R, u)) <=> d[u] = TotalOf(K, OfTeam(K, R, u))
  <2> DEFINE S == OfTeam(L, R, u)
             x == TotalOf(L, S)
  <2>1. b[u] \in Nat /\ d[u] \in Nat
    OBVIOUS
  <2>2. TotalOf(K, S) = x /\ TotalOf(K, S \cup {i}) = x + m /\ x \in Nat
    BY <1>3, <1>5
  <2>3. CASE u = t
    <3>1. OfTeam(K, R, u) = S \cup {i} /\ d[u] = b[u] + m
      BY <1>2, <1>8, <2>3 DEF OneMore
    <3> HIDE DEF S, x, m
    <3>2. QED
      BY <1>1, <2>1, <2>2, <3>1 DEF S, x
  <2>4. CASE u # t
    <3>1. OfTeam(K, R, u) = S /\ d[u] = b[u]
      BY <1>2, <1>8, <2>4 DEF OneMore
    <3>2. QED
      BY <2>2, <3>1
  <2>5. QED
    BY <2>3, <2>4
<1>9. QED
  BY <1>6, <1>7, <1>8 DEF Balanced

\* What a call holds in its hands is live, and is what it is about.
HeldAt(c) ==
  call[c].stage \in OwnsEntry =>
    /\ ledger[call[c].entry].state = "reserved"
    /\ ledger[call[c].entry].employee = call[c].employee
    /\ ledger[call[c].entry].amount = call[c].amount

\* While nobody moves, the team a call charges or credits is its employee's.
AtHome(c) == moves = 0 /\ call[c].stage \in HoldsSeat => call[c].team = teamOf[call[c].employee]

Hands == \A c \in Calls : HeldAt(c) /\ AtHome(c)

LInv == PInv /\ Hands /\ LedgersAgree

\* A step of c leaves what the others hold as it was.
LEMMA HandsStep ==
  ASSUME PInv, Hands, NEW c \in Calls, NEW r, call' = [call EXCEPT ![c] = r],
         UNCHANGED <<teamOf, moves>>,
         \A j \in DOMAIN ledger :
           \/ /\ ledger'[j].state = ledger[j].state /\ ledger'[j].employee = ledger[j].employee
              /\ ledger'[j].amount = ledger[j].amount
           \/ call[c].stage \in OwnsEntry /\ j = call[c].entry,
         r.stage \in OwnsEntry =>
           /\ ledger'[r.entry].state = "reserved" /\ ledger'[r.entry].employee = r.employee
           /\ ledger'[r.entry].amount = r.amount,
         moves = 0 /\ r.stage \in HoldsSeat => r.team = teamOf[r.employee]
  PROVE  Hands'
<1>1. call'[c] = r /\ \A d \in Calls : d # c => call'[d] = call[d]
  BY DEF PInv, IInv, TypeOK
<1>2. HeldAt(c)' /\ AtHome(c)'
  BY <1>1 DEF HeldAt, AtHome
<1>3. ASSUME NEW d \in Calls, d # c PROVE HeldAt(d)' /\ AtHome(d)'
  <2>1. call'[d] = call[d] /\ HeldAt(d) /\ AtHome(d)
    BY <1>1, <1>3 DEF Hands
  <2>2. call[d].stage \in OwnsEntry => call[d].entry \in DOMAIN ledger
    BY DEF PInv, IInv, Briefed, BriefedAt, At, OwnsEntry
  <2>3. call[c].stage \in OwnsEntry /\ call[d].stage \in OwnsEntry => call[d].entry # call[c].entry
    BY <1>3 DEF PInv, Alone
  <2>4. HeldAt(d)'
    BY <2>1, <2>2, <2>3 DEF HeldAt
  <2>5. AtHome(d)'
    BY <2>1 DEF AtHome
  <2>6. QED
    BY <2>4, <2>5
<1>4. QED
  BY <1>2, <1>3 DEF Hands

\* A step that leaves the ledger alone and takes c to a stage with nothing of
\* it in hand.
LEMMA HandsEmptied ==
  ASSUME PInv, Hands, NEW c \in Calls, NEW r, call' = [call EXCEPT ![c] = r],
         UNCHANGED <<teamOf, moves, ledger>>, r.stage \notin OwnsEntry \cup HoldsSeat
  PROVE  Hands'
BY HandsStep

\* A call goes on to another stage; the entry, if it has one, is as it was.
LEMMA HandsKept ==
  ASSUME PInv, Hands, NEW c \in Calls, NEW s \in Stage, Go(c, s),
         UNCHANGED <<teamOf, moves>>,
         \A j \in DOMAIN ledger :
           /\ ledger'[j].state = ledger[j].state /\ ledger'[j].employee = ledger[j].employee
           /\ ledger'[j].amount = ledger[j].amount,
         s \in OwnsEntry => call[c].stage \in OwnsEntry,
         s \in HoldsSeat => call[c].stage \in HoldsSeat
  PROVE  Hands'
<1> DEFINE r == [call[c] EXCEPT !.stage = s]
<1>1. call[c] \in Call
  BY DEF PInv, IInv, TypeOK
<1>2. /\ r.stage = s /\ r.employee = call[c].employee /\ r.amount = call[c].amount
      /\ r.team = call[c].team /\ r.entry = call[c].entry
  BY <1>1 DEF Call
<1>3. call' = [call EXCEPT ![c] = r]
  BY DEF Go
<1> HIDE DEF r
<1>4. HeldAt(c) /\ AtHome(c)
  BY DEF Hands
<1>5. call[c].stage \in OwnsEntry => call[c].entry \in DOMAIN ledger
  BY DEF PInv, IInv, Briefed, BriefedAt, At, OwnsEntry
<1>6. r.stage \in OwnsEntry =>
           /\ ledger'[r.entry].state = "reserved" /\ ledger'[r.entry].employee = r.employee
           /\ ledger'[r.entry].amount = r.amount
  BY <1>2, <1>4, <1>5 DEF HeldAt
<1>7. moves = 0 /\ r.stage \in HoldsSeat => r.team = teamOf[r.employee]
  BY <1>2, <1>4 DEF AtHome
<1>8. QED
  BY <1>3, <1>6, <1>7, HandsStep

\* A call that ends.
LEMMA HandsEnd ==
  ASSUME PInv, Hands, NEW c \in Calls, Ends(c), UNCHANGED <<teamOf, moves>>,
         \A j \in DOMAIN ledger :
           \/ /\ ledger'[j].state = ledger[j].state /\ ledger'[j].employee = ledger[j].employee
              /\ ledger'[j].amount = ledger[j].amount
           \/ call[c].stage \in OwnsEntry /\ j = call[c].entry
  PROVE  Hands'
BY HandsStep, FreeHoldsNothing DEF Ends

-----------------------------------------------------------------------------
(* What each step does to the books.                                       *)

\* No bucket is written, and no entry in a way that counts.
LEMMA BooksKept ==
  ASSUME IInv, LedgersAgree, UNCHANGED <<seat, team>>,
         ledger' \in Seq(Reservation), DOMAIN ledger' = DOMAIN ledger,
         \A j \in DOMAIN ledger :
           /\ ledger'[j].amount = ledger[j].amount /\ ledger'[j].employee = ledger[j].employee
           /\ ledger'[j].state = ledger[j].state
                \/ {ledger[j].state, ledger'[j].state} = {"reserved", "settled"},
         moves' = 0 => moves = 0 /\ teamOf' = teamOf
  PROVE  LedgersAgree'
<1>1. Balanced(ledger, seat, team, teamOf, moves = 0)
  BY Books
<1>2. Balanced(ledger, seat, team, teamOf', moves' = 0)
  BY <1>1 DEF Balanced
<1>3. ledger \in Seq(Reservation)
  BY DEF IInv, TypeOK
<1>4. \A j \in DOMAIN ledger : j \in Alive(ledger') <=> j \in Alive(ledger)
  BY DEF Alive
<1>5. Balanced(ledger', seat, team, teamOf', moves' = 0)
  BY <1>2, <1>3, <1>4, SameBooks
<1>6. seat' = seat /\ team' = team
  OBVIOUS
<1>7. QED
  BY <1>5, <1>6, BooksAfter

\* A commit charges the seat and its team for the entry it writes.
LEMMA CommitBooks ==
  ASSUME LInv, IInv', NEW c \in Calls, Commit(c), StillWithinDay(c)
  PROVE  LedgersAgree' /\ Hands'
<1> DEFINE e == call[c].employee
           m == call[c].amount
           t == call[c].team
           n == Len(ledger) + 1
           l == [employee |-> e, amount |-> m, state |-> "reserved",
                 approval |-> call[c].approval, intent |-> "none"]
           r == Task("authorised", e, m, 0, n)
<1>1. /\ IInv /\ PInv /\ Hands /\ LedgersAgree /\ HeldAt(c) /\ AtHome(c)
  BY DEF LInv, PInv, Hands
<1>2. /\ call[c].stage = "committing" /\ e \in Employees /\ m \in Amounts /\ m \in Nat /\ t \in Teams
      /\ call[c].approval \in 0..MaxApprovals
  BY <1>1, PaymentsAssumption DEF Commit, At, IInv, TypeOK, Call, Briefed, BriefedAt, HoldsSeat
<1>3. /\ seat' = [seat EXCEPT ![e] = [reserved |-> @.reserved + m, count |-> @.count + 1]]
      /\ team' = [team EXCEPT ![t] = @ + m]
      /\ ledger' = Append(ledger, l)
      /\ call' = [call EXCEPT ![c] = r]
      /\ UNCHANGED <<teamOf, moves>>
  BY DEF Commit, roster
<1>4. l \in Reservation /\ l.employee = e /\ l.amount = m /\ l.state = "reserved"
  BY <1>2 DEF Reservation
<1>5. r.stage = "authorised" /\ r.employee = e /\ r.amount = m /\ r.entry = n
  BY DEF Task
<1> HIDE DEF l, r
<1>6. ledger \in Seq(Reservation)
  BY <1>1 DEF IInv, TypeOK
<1>7. /\ ledger' \in Seq(Reservation) /\ DOMAIN ledger' = DOMAIN ledger \cup {n}
      /\ n \notin DOMAIN ledger /\ ledger'[n] = l
      /\ \A j \in DOMAIN ledger : ledger'[j] = ledger[j]
  BY <1>3, <1>4, <1>6, LedgerAppend
<1> HIDE DEF n
<1>8. Hands'
  BY <1>1, <1>3, <1>4, <1>5, <1>7, HandsStep DEF HoldsSeat
<1>9. /\ seat \in [Employees -> [reserved : Nat, count : Nat]]
      /\ seat' \in [Employees -> [reserved : Nat, count : Nat]]
      /\ team \in [Teams -> Nat] /\ team' \in [Teams -> Nat]
      /\ teamOf \in [Employees -> Teams]
  BY <1>1, Limits DEF IInv, TypeOK
<1>10. OneMore(ledger, ledger', seat, seat', team, team', n, t)
  <2>1. n \in Alive(ledger') /\ n \notin Alive(ledger)
    BY <1>4, <1>7 DEF Alive
  <2>2. \A j \in DOMAIN ledger : j \in Alive(ledger') <=> j \in Alive(ledger)
    BY <1>7 DEF Alive
  <2>3. /\ seat'[e].reserved = seat[e].reserved + m
        /\ seat'[e].count = seat[e].count + 1
        /\ \A f \in Employees : f # e => seat'[f] = seat[f]
    BY <1>2, <1>3, <1>9
  <2>4. team'[t] = team[t] + m /\ \A u \in Teams : u # t => team'[u] = team[u]
    BY <1>2, <1>3, <1>9
  <2> HIDE DEF e, m, t
  <2>5. QED
    BY <1>2, <1>4, <1>7, <2>1, <2>2, <2>3, <2>4 DEF OneMore
<1>11. moves = 0 => t = teamOf[ledger'[n].employee]
  BY <1>1, <1>2, <1>4, <1>7 DEF AtHome, HoldsSeat
<1> HIDE DEF t
<1>12. Balanced(ledger, seat, team, teamOf, moves = 0)
  BY <1>1, Books
<1>13. Balanced(ledger', seat', team', teamOf, moves = 0)
  BY <1>6, <1>7, <1>9, <1>10, <1>11, <1>12, OneMoreBooks
<1>14. LedgersAgree'
  BY <1>3, <1>13, BooksAfter
<1>15. QED
  BY <1>8, <1>14

\* A release gives back to the seat, and to the team of the moment, what the
\* entry it closes had taken; one that fails a CHECK changes nothing.
LEMMA ReleaseBooks ==
  ASSUME LInv, IInv', NEW c \in Calls, Release(c)
  PROVE  LedgersAgree' /\ Hands'
<1> DEFINE e == call[c].employee
           m == call[c].amount
           t == call[c].team
           i == call[c].entry
           k == [ledger[i] EXCEPT !.state = "released"]
           x == IntentAfter(ledger[i], call[c].answer)
           l == [k EXCEPT !.intent = x]
<1>1. /\ IInv /\ PInv /\ Hands /\ LedgersAgree /\ HeldAt(c) /\ AtHome(c)
  BY DEF LInv, PInv, Hands
<1>2. call[c].stage = "returning" /\ call[c].stage \in OwnsEntry /\ call[c].stage \in HoldsSeat
  BY DEF Release, At, OwnsEntry, HoldsSeat
<1>3. /\ e \in Employees /\ m \in Nat /\ t \in Teams
      /\ i \in DOMAIN ledger /\ ledger[i] \in Reservation /\ ledger \in Seq(Reservation)
      /\ ledger[i].state = "reserved" /\ ledger[i].employee = e /\ ledger[i].amount = m
  BY <1>1, <1>2, Owner, PaymentsAssumption DEF IInv, Briefed, BriefedAt, At, HeldAt
<1>4. Ends(c) /\ UNCHANGED <<teamOf, moves>>
  BY DEF Release, roster
<1>5. CASE ~Covered(e, t, m)
  <2>1. seat' = seat /\ team' = team /\ ledger' = ledger
    BY <1>5 DEF Release, books
  <2>2. Hands'
    BY <1>1, <1>4, <2>1, HandsEnd
  <2>3. LedgersAgree'
    BY <1>1, <1>3, <1>4, <2>1, BooksKept
  <2>4. QED
    BY <2>2, <2>3
<1>6. CASE Covered(e, t, m)
  <2>1. /\ seat' = [seat EXCEPT ![e] = [reserved |-> @.reserved - m, count |-> @.count - 1]]
        /\ team' = [team EXCEPT ![t] = @ - m]
        /\ ledger' = [ledger EXCEPT ![i] = l]
    BY <1>6 DEF Release, Released
  <2>2. k \in Reservation /\ k.state = "released" /\ k.employee = e /\ k.amount = m
    BY <1>3 DEF Reservation
  <2>3. x \in {"none", "in_flight", "succeeded", "failed"}
    BY <1>3 DEF Reservation, IntentAfter
  <2> HIDE DEF k, x
  <2>4. l \in Reservation /\ l.state = "released" /\ l.employee = e /\ l.amount = m
    BY <2>2, <2>3 DEF Reservation
  <2> HIDE DEF l
  <2>5. /\ ledger' \in Seq(Reservation) /\ DOMAIN ledger' = DOMAIN ledger
        /\ \A j \in DOMAIN ledger : ledger'[j] = IF j = i THEN l ELSE ledger[j]
    BY <1>3, <2>1, <2>4, LedgerUpdate
  <2>6. Hands'
    BY <1>1, <1>2, <1>4, <2>5, HandsEnd
  <2>7. /\ seat \in [Employees -> [reserved : Nat, count : Nat]]
        /\ seat' \in [Employees -> [reserved : Nat, count : Nat]]
        /\ team \in [Teams -> Nat] /\ team' \in [Teams -> Nat]
        /\ teamOf \in [Employees -> Teams]
    BY <1>1, Limits DEF IInv, TypeOK
  <2>8. OneMore(ledger', ledger, seat', seat, team', team, i, t)
    <3>1. i \in Alive(ledger) /\ i \notin Alive(ledger')
      BY <1>3, <2>4, <2>5 DEF Alive
    <3>2. \A j \in DOMAIN ledger : j # i => (j \in Alive(ledger) <=> j \in Alive(ledger'))
      BY <2>5 DEF Alive
    <3>3. /\ seat'[e].reserved = seat[e].reserved - m
          /\ seat'[e].count = seat[e].count - 1
          /\ \A f \in Employees : f # e => seat'[f] = seat[f]
      BY <1>3, <2>1, <2>7
    <3>4. team'[t] = team[t] - m /\ \A u \in Teams : u # t => team'[u] = team[u]
      BY <1>3, <2>1, <2>7
    <3>5. seat[e].reserved \in Nat /\ seat[e].count \in Nat /\ team[t] \in Nat
      BY <1>3, <2>7
    <3> HIDE DEF e, m, t, i
    <3>6. /\ seat[e].reserved = seat'[e].reserved + m
          /\ seat[e].count = seat'[e].count + 1
          /\ team[t] = team'[t] + m
      <4>1. /\ seat[e].reserved = (seat[e].reserved - m) + m
            /\ seat[e].count = (seat[e].count - 1) + 1
            /\ team[t] = (team[t] - m) + m
        BY <1>3, <3>5, Back
      <4>2. QED
        BY <3>3, <3>4, <4>1
    <3>7. QED
      BY <1>3, <2>5, <3>1, <3>2, <3>3, <3>4, <3>6 DEF OneMore
  <2>9. moves = 0 => t = teamOf[ledger[i].employee]
    BY <1>1, <1>2, <1>3 DEF AtHome
  <2> HIDE DEF t, i
  <2>10. Balanced(ledger, seat, team, teamOf, moves = 0)
    BY <1>1, Books
  <2>11. Balanced(ledger', seat', team', teamOf, moves = 0)
    BY <1>3, <2>5, <2>7, <2>8, <2>9, <2>10, OneMoreBooks
  <2>12. LedgersAgree'
    BY <1>4, <2>11, BooksAfter
  <2>13. QED
    BY <2>6, <2>12
<1>7. QED
  BY <1>5, <1>6

\* The gate writes the books in a commit only.
LEMMA GateBooks ==
  ASSUME LInv, IInv', NEW c \in Calls, Reserves(c)
  PROVE  LedgersAgree' /\ Hands'
<1>1. /\ IInv /\ PInv /\ Hands /\ LedgersAgree /\ ledger \in Seq(Reservation)
      /\ call[c] \in Call /\ call \in [Calls -> Call]
  BY DEF LInv, PInv, IInv, TypeOK
<1>2. ASSUME UNCHANGED <<seat, team, ledger, teamOf, moves>> PROVE LedgersAgree'
  BY <1>1, <1>2, BooksKept
<1>3. Refuse(c) => LedgersAgree' /\ Hands'
  BY <1>1, <1>2, HandsEnd DEF Refuse, roster, books
<1>4. CASE Redeem(c)
  <2>1. UNCHANGED <<seat, team, ledger, teamOf, moves>>
    BY <1>4 DEF Redeem, roster, books
  <2>2. CASE Go(c, "reserving")
    <3>1. "reserving" \in Stage /\ "reserving" \notin OwnsEntry \cup HoldsSeat
      BY DEF Stage, OwnsEntry, HoldsSeat
    <3>2. Hands'
      BY <1>1, <2>1, <2>2, <3>1, HandsKept
    <3>3. QED
      BY <1>2, <2>1, <3>2
  <2>3. CASE call' = [call EXCEPT ![c] = Free]
    <3>1. Free.stage \notin OwnsEntry \cup HoldsSeat
      BY FreeHoldsNothing
    <3>2. Hands'
      BY <1>1, <2>1, <2>3, <3>1, HandsEmptied
    <3>3. QED
      BY <1>2, <2>1, <3>2
  <2>4. QED
    BY <1>2, <1>4, <2>1, <2>2, <2>3 DEF Redeem
<1>5. CASE TakeSeat(c)
  <2> DEFINE e == call[c].employee
             q == [call[c] EXCEPT !.stage = "charging"]
             r == [q EXCEPT !.team = teamOf[e]]
  <2>1. CASE SeatAllows(e, call[c].amount)
    <3>1. UNCHANGED <<seat, team, ledger, teamOf, moves>> /\ call' = [call EXCEPT ![c] = r]
      BY <1>5, <2>1 DEF TakeSeat, roster, books
    <3>2. q \in Call /\ q.stage = "charging" /\ q.employee = e
      BY <1>1 DEF Call, Stage
    <3> HIDE DEF q, e
    <3>3. r.stage = "charging" /\ r.employee = e /\ r.team = teamOf[e]
      BY <3>2 DEF Call
    <3> HIDE DEF r
    <3>4. Hands'
      BY <1>1, <3>1, <3>3, HandsStep DEF OwnsEntry
    <3>5. QED
      BY <1>2, <3>1, <3>4
  <2>2. QED
    BY <1>3, <1>5, <2>1 DEF TakeSeat
<1>6. CASE TakeTeam(c)
  <2>1. CASE TeamAllows(call[c].team, call[c].amount)
    <3>1. UNCHANGED <<seat, team, ledger, teamOf, moves>> /\ Go(c, "committing")
      BY <1>6, <2>1 DEF TakeTeam, roster, books
    <3>2. call[c].stage \in HoldsSeat
      BY <1>6 DEF TakeTeam, At, HoldsSeat
    <3>3. Hands'
      BY <1>1, <3>1, <3>2, HandsKept DEF Stage, OwnsEntry
    <3>4. QED
      BY <1>2, <3>1, <3>3
  <2>2. QED
    BY <1>3, <1>6, <2>1 DEF TakeTeam
<1>7. CASE Commit(c)
  BY <1>3, <1>7, CommitBooks DEF Commit
<1>8. QED
  BY <1>4, <1>5, <1>6, <1>7 DEF Reserves

\* The executor settles and marks entries, and touches no bucket before it
\* has both rows.
LEMMA ExecutorBooks ==
  ASSUME LInv, IInv', NEW c \in Calls, Pays(c) \/ CreditSeat(c) \/ CreditTeam(c)
  PROVE  LedgersAgree' /\ Hands'
<1> DEFINE i == call[c].entry
<1>1. /\ IInv /\ PInv /\ Hands /\ LedgersAgree /\ ledger \in Seq(Reservation)
      /\ call[c] \in Call /\ call \in [Calls -> Call] /\ HeldAt(c) /\ AtHome(c)
      /\ ledger' \in Seq(Reservation)
  BY DEF LInv, PInv, IInv, TypeOK, Hands
<1>2. call[c].stage \in OwnsEntry
  BY DEF Pays, BeginSend, Pay, Settle, CreditSeat, CreditTeam, At, OwnsEntry
<1>3. /\ i \in DOMAIN ledger /\ ledger[i] \in Reservation
      /\ ledger[i].state = "reserved"
  BY <1>1, <1>2, Owner DEF HeldAt
<1>4. UNCHANGED <<seat, team, teamOf, moves>>
  BY DEF Pays, BeginSend, Pay, Settle, CreditSeat, CreditTeam, roster, books
<1>5. ASSUME ledger' = ledger PROVE LedgersAgree'
  BY <1>1, <1>4, <1>5, BooksKept
<1>6. CASE BeginSend(c)
  <2> DEFINE l == [ledger[i] EXCEPT !.intent = "in_flight"]
  <2>1. /\ l \in Reservation /\ l.state = ledger[i].state
        /\ l.employee = ledger[i].employee /\ l.amount = ledger[i].amount
    BY <1>3 DEF Reservation
  <2>2. Go(c, "calling") /\ ledger' = [ledger EXCEPT ![i] = l]
    BY <1>6 DEF BeginSend
  <2> HIDE DEF l
  <2>3. /\ DOMAIN ledger' = DOMAIN ledger
        /\ \A j \in DOMAIN ledger : ledger'[j] = IF j = i THEN l ELSE ledger[j]
    BY <1>1, <1>3, <2>1, <2>2, LedgerUpdate
  <2>4. \A j \in DOMAIN ledger :
           /\ ledger'[j].state = ledger[j].state /\ ledger'[j].employee = ledger[j].employee
           /\ ledger'[j].amount = ledger[j].amount
    BY <2>1, <2>3
  <2>5. Hands'
    BY <1>1, <1>2, <1>4, <2>2, <2>4, HandsKept DEF Stage, HoldsSeat
  <2>6. QED
    BY <1>1, <1>4, <2>3, <2>4, <2>5, BooksKept
<1>7. CASE Pay(c)
  <2>1. PICK s \in {"ok", "refused", "unknown"} : Go(c, s)
    BY <1>7 DEF Pay
  <2>2. ledger' = ledger
    BY <1>7 DEF Pay, books
  <2>3. Hands'
    BY <1>1, <1>2, <1>4, <2>1, <2>2, HandsKept DEF Stage, HoldsSeat
  <2>4. QED
    BY <1>5, <2>2, <2>3
<1>8. CASE Settle(c)
  <2> DEFINE k == [ledger[i] EXCEPT !.state = "settled"]
             l == [k EXCEPT !.intent = "succeeded"]
  <2>1. /\ k \in Reservation /\ k.state = "settled"
        /\ k.employee = ledger[i].employee /\ k.amount = ledger[i].amount
    BY <1>3 DEF Reservation
  <2>2. call' = [call EXCEPT ![c] = Free] /\ ledger' = [ledger EXCEPT ![i] = l]
    BY <1>8 DEF Settle
  <2> HIDE DEF k
  <2>3. /\ l \in Reservation /\ l.state = "settled"
        /\ l.employee = ledger[i].employee /\ l.amount = ledger[i].amount
    BY <2>1 DEF Reservation
  <2> HIDE DEF l
  <2>4. /\ DOMAIN ledger' = DOMAIN ledger
        /\ \A j \in DOMAIN ledger : ledger'[j] = IF j = i THEN l ELSE ledger[j]
    BY <1>1, <1>3, <2>2, <2>3, LedgerUpdate
  <2>5. Hands'
    <3>1. Free.stage \notin OwnsEntry \cup HoldsSeat
      BY FreeHoldsNothing
    <3>2. QED
      BY <1>1, <1>2, <1>4, <2>2, <2>4, <3>1, HandsStep
  <2>6. \A j \in DOMAIN ledger :
           /\ ledger'[j].amount = ledger[j].amount /\ ledger'[j].employee = ledger[j].employee
           /\ ledger'[j].state = ledger[j].state
                \/ {ledger[j].state, ledger'[j].state} = {"reserved", "settled"}
    BY <1>3, <2>3, <2>4
  <2>7. QED
    BY <1>1, <1>4, <2>4, <2>5, <2>6, BooksKept
<1>9. CASE CreditSeat(c)
  <2> DEFINE e == call[c].employee
             q == [call[c] EXCEPT !.stage = "crediting"]
             p == [q EXCEPT !.answer = call[c].stage]
             r == [p EXCEPT !.team = teamOf[e]]
  <2>1. call' = [call EXCEPT ![c] = r] /\ ledger' = ledger
        /\ call[c].stage \in {"refused", "unknown"}
    BY <1>9 DEF CreditSeat, books
  <2>2. /\ q \in Call /\ q.stage = "crediting" /\ q.entry = i
        /\ q.employee = e /\ q.amount = call[c].amount
    BY <1>1 DEF Call, Stage
  <2> HIDE DEF q
  <2>3. /\ p \in Call /\ p.stage = "crediting" /\ p.entry = i
        /\ p.employee = e /\ p.amount = call[c].amount
    BY <2>1, <2>2 DEF Call
  <2> HIDE DEF p
  <2>4. /\ r.stage = "crediting" /\ r.entry = i
        /\ r.employee = e /\ r.amount = call[c].amount /\ r.team = teamOf[e]
    BY <2>3 DEF Call
  <2> HIDE DEF r
  <2>5. Hands'
    BY <1>1, <1>2, <1>4, <2>1, <2>4, HandsStep DEF HeldAt
  <2>6. QED
    BY <1>5, <2>1, <2>5
<1>10. CASE CreditTeam(c)
  <2>1. ledger' = ledger /\ Go(c, "returning") /\ call[c].stage = "crediting"
    BY <1>10 DEF CreditTeam, At, books
  <2>2. Hands'
    BY <1>1, <1>2, <1>4, <2>1, HandsKept DEF Stage, HoldsSeat
  <2>3. QED
    BY <1>5, <2>1, <2>2
<1>11. QED
  BY <1>6, <1>7, <1>8, <1>9, <1>10 DEF Pays

\* Every step keeps the books.
LEMMA LInvStep ==
  ASSUME LInv, [Next]_vars
  PROVE  LInv'
<1>1. /\ IInv /\ PInv /\ Hands /\ LedgersAgree /\ ledger \in Seq(Reservation)
      /\ call \in [Calls -> Call]
  BY DEF LInv, PInv, IInv, TypeOK
<1>2. IInv' /\ PInv'
  BY <1>1, PInvStep DEF PInv
<1>3. ASSUME UNCHANGED <<seat, team, ledger>>, moves' = 0 => moves = 0 /\ teamOf' = teamOf
      PROVE  LedgersAgree'
  BY <1>1, <1>3, BooksKept
<1>4. ASSUME UNCHANGED <<seat, team, ledger, teamOf, moves>>, NEW c \in Calls, NEW r,
             call' = [call EXCEPT ![c] = r], r.stage \notin OwnsEntry \cup HoldsSeat
      PROVE  LedgersAgree' /\ Hands'
  BY <1>1, <1>3, <1>4, HandsEmptied
<1>5. ASSUME NEW c \in Calls, NEW e \in Employees, NEW m \in Amounts, Rule(c, e, m)
      PROVE  LedgersAgree' /\ Hands'
  <2> DEFINE r == Task("reserving", e, m, 0, 0)
  <2>1. r.stage \notin OwnsEntry \cup HoldsSeat
    BY DEF Task, OwnsEntry, HoldsSeat
  <2>2. call' = [call EXCEPT ![c] = r] /\ UNCHANGED <<seat, team, ledger, teamOf, moves>>
    BY <1>5 DEF Rule, roster, books
  <2> HIDE DEF r
  <2>3. QED
    BY <1>4, <2>1, <2>2
<1>6. ASSUME NEW c \in Calls, NEW a \in DOMAIN approval, StartRedeem(c, a)
      PROVE  LedgersAgree' /\ Hands'
  <2> DEFINE r == Task("redeeming", approval[a].employee, approval[a].amount, a, 0)
  <2>1. r.stage \notin OwnsEntry \cup HoldsSeat
    BY DEF Task, OwnsEntry, HoldsSeat
  <2>2. call' = [call EXCEPT ![c] = r] /\ UNCHANGED <<seat, team, ledger, teamOf, moves>>
    BY <1>6 DEF StartRedeem, roster, books
  <2> HIDE DEF r
  <2>3. QED
    BY <1>4, <2>1, <2>2
<1>7. ASSUME NEW c \in Calls, Fail(c)
      PROVE  LedgersAgree' /\ Hands'
  BY <1>4, <1>7, FreeHoldsNothing DEF Fail, Ends, roster, books
<1>8. ASSUME NEW c \in Calls, Reserves(c) \/ Pays(c) \/ Returns(c)
      PROVE  LedgersAgree' /\ Hands'
  BY <1>2, <1>8, GateBooks, ExecutorBooks, ReleaseBooks DEF Returns
<1>9. ASSUME NEW e \in Employees, NEW t \in Teams, Move(e, t)
      PROVE  LedgersAgree' /\ Hands'
  <2>1. UNCHANGED <<seat, team, ledger, call>> /\ moves' = moves + 1
    BY <1>9 DEF Move, books
  <2>2. moves' # 0
    BY <1>1, <2>1, Limits DEF IInv, TypeOK
  <2>3. Hands'
    BY <1>1, <2>1, <2>2 DEF Hands, HeldAt, AtHome
  <2>4. QED
    BY <1>3, <2>1, <2>2, <2>3
<1>10. ASSUME UNCHANGED <<seat, team, ledger, call, teamOf, moves>>
      PROVE  LedgersAgree' /\ Hands'
  <2>1. Hands'
    BY <1>1, <1>10 DEF Hands, HeldAt, AtHome
  <2>2. QED
    BY <1>3, <1>10, <2>1
<1>11. CASE Next
  <2>1. \/ \E c \in Calls :
             \/ \E e \in Employees, m \in Amounts : Rule(c, e, m)
             \/ \E a \in DOMAIN approval : StartRedeem(c, a)
             \/ Reserves(c) \/ Pays(c) \/ Returns(c) \/ Fail(c)
        \/ \E e \in Employees, t \in Teams : Move(e, t)
        \/ UNCHANGED <<seat, team, ledger, call, teamOf, moves>>
    BY <1>11 DEF Next, RequestApproval, Deny, Expire, Suspend, Halt, books, roster
  <2>2. QED
    BY <1>2, <1>5, <1>6, <1>7, <1>8, <1>9, <1>10, <2>1 DEF LInv
<1>12. CASE UNCHANGED vars
  BY <1>2, <1>10, <1>12 DEF LInv, vars, books, roster
<1>13. QED
  BY <1>11, <1>12

\* Nothing is in the books at first.
LEMMA NoEntries == Init => LedgersAgree
<1> SUFFICES ASSUME Init PROVE LedgersAgree
  OBVIOUS
<1>1. ledger = << >> /\ DOMAIN ledger = {}
  BY DEF Init
<1>2. /\ Alive(ledger) = {} /\ \A e : OfSeat(ledger, e) = {}
      /\ \A t : OfTeam(ledger, teamOf, t) = {}
  BY <1>1 DEF Alive, OfSeat, OfTeam
<1>3. TotalOf(ledger, {}) = 0
  BY TotalIsSum, SumEmpty
<1>4. Cardinality({}) = 0
  BY FS_EmptySet
<1>5. Sum(team, Teams) = 0
  BY SumNone, PaymentsAssumption DEF Init
<1>6. QED
  BY <1>2, <1>3, <1>4, <1>5, Books DEF Balanced, Init

\* The buckets are the sums of what was reserved and not released: of each seat,
\* of all teams together, and of each team while nobody moves, through every
\* interleaving of commits, releases and failures (spend::reserve and release,
\* org::reserve and release).
THEOREM BooksAddUp == Spec => []LedgersAgree
<1>1. Init => LInv
  <2> SUFFICES ASSUME Init PROVE LInv
    OBVIOUS
  <2>1. paid = {} /\ \A c \in Calls : call[c].stage = "idle"
    BY FreeHoldsNothing DEF Init
  <2>2. PInv
    BY <2>1, IInvInit DEF PInv, MovedIsVisible, EntryAt, Unpaid, Alone, At, OwnsEntry
  <2>3. Hands
    BY <2>1 DEF Hands, HeldAt, AtHome, OwnsEntry, HoldsSeat
  <2>4. QED
    BY <2>2, <2>3, NoEntries DEF LInv
<1>2. LInv /\ [Next]_vars => LInv'
  BY LInvStep
<1>3. LInv => LedgersAgree
  BY DEF LInv
<1>4. QED
  BY <1>1, <1>2, <1>3, PTL DEF Spec

-----------------------------------------------------------------------------
(* What the caps bound.                                                    *)

\* Part of a set sums up to no more than the set.
LEMMA SumMonotone ==
  ASSUME NEW f, NEW S, IsFiniteSet(S), \A x \in S : f[x] \in Nat, NEW R \in SUBSET S
  PROVE  Sum(f, R) <= Sum(f, S)
<1> DEFINE B == {T \in SUBSET S : \E U \in SUBSET T : ~(Sum(f, U) <= Sum(f, T))}
<1>1. ASSUME B # {} PROVE FALSE
  <2>0. B # {} /\ B \subseteq SUBSET S
    BY <1>1
  <2> HIDE DEF B
  <2>1. PICK T \in B : \A U \in SUBSET T : U # T => U \notin B
    BY <2>0, Smallest
  <2> USE DEF B
  <2>2. PICK U \in SUBSET T : ~(Sum(f, U) <= Sum(f, T))
    OBVIOUS
  <2>3. T \in SUBSET S /\ IsFiniteSet(T) /\ \A x \in T : f[x] \in Nat
    BY FS_Subset
  <2>4. Sum(f, T) \in Nat /\ Sum(f, U) \in Nat
    BY <2>3, SumType
  <2>5. U # T
    BY <2>2, <2>4
  <2>6. PICK x \in T : x \notin U
    BY <2>5
  <2>7. Sum(f, T) = f[x] + Sum(f, T \ {x}) /\ Sum(f, T \ {x}) \in Nat /\ f[x] \in Nat
    BY <2>3, SumTakesAny
  <2>8. Sum(f, U) <= Sum(f, T \ {x})
    <3>1. T \ {x} \notin B /\ T \ {x} \in SUBSET S /\ U \in SUBSET (T \ {x})
      BY <2>1, <2>3, <2>6
    <3>2. QED
      BY <3>1
  <2>9. QED
    BY <2>2, <2>4, <2>7, <2>8
<1>2. S \notin B
  BY <1>1
<1>3. QED
  BY <1>2

\* Money that moved and whose reservation was not released.
KeptPayments(e) == {i \in paid : Live(i) /\ ledger[i].employee = e}

\* The caps bound what a seat has reserved, entry by entry, and with it the
\* money that moved on reservations still standing.
WithinDay ==
  \A e \in Employees :
    /\ Total(Entries(e)) <= DailyTotal[e] /\ Cardinality(Entries(e)) <= DailyCount
    /\ Total(KeptPayments(e)) <= DailyTotal[e]

\* Books that add up bring the bound on the bucket to the entries.
LEMMA BooksBound == TypeOK /\ LedgersAgree => WithinDay
<1> SUFFICES ASSUME TypeOK, LedgersAgree, NEW e \in Employees
             PROVE  /\ Total(Entries(e)) <= DailyTotal[e]
                    /\ Cardinality(Entries(e)) <= DailyCount
                    /\ Total(KeptPayments(e)) <= DailyTotal[e]
  BY DEF WithinDay
<1>1. /\ seat[e].reserved = Total(Entries(e)) /\ seat[e].count = Cardinality(Entries(e))
      /\ seat[e].reserved <= DailyTotal[e] /\ seat[e].reserved \in Nat
      /\ seat[e].count \in 0..DailyCount
  BY DEF LedgersAgree, SeatLedger, TypeOK
<1>2. DailyTotal[e] \in Nat /\ DailyCount \in Nat
  BY PaymentsAssumption
<1> DEFINE f == [i \in DOMAIN ledger |-> ledger[i].amount]
<1>3. ledger \in Seq(Reservation) /\ paid \subseteq DOMAIN ledger
  BY DEF TypeOK
<1>4. /\ IsFiniteSet(Entries(e)) /\ Entries(e) \in SUBSET DOMAIN ledger
      /\ \A i \in Entries(e) : f[i] \in Nat
  BY <1>3, Entered DEF Entries
<1>5. KeptPayments(e) \in SUBSET Entries(e)
  BY <1>3 DEF KeptPayments, Entries
<1>6. /\ Total(Entries(e)) = Sum(f, Entries(e))
      /\ Total(KeptPayments(e)) = Sum(f, KeptPayments(e))
  <2>1. \A S : Total(S) = TotalOf(ledger, S)
    BY DEF Total, TotalOf, MapThenSumSet, MapThenFoldSet
  <2>2. KeptPayments(e) \in SUBSET DOMAIN ledger
    BY <1>4, <1>5
  <2>3. QED
    BY <1>4, <2>1, <2>2, TotalIsSum
<1> HIDE DEF f
<1>7. Sum(f, KeptPayments(e)) <= Sum(f, Entries(e))
  BY <1>4, <1>5, SumMonotone
<1>8. Sum(f, KeptPayments(e)) \in Nat /\ Sum(f, Entries(e)) \in Nat
  BY <1>4, <1>5, SumType
<1>9. QED
  BY <1>1, <1>2, <1>6, <1>7, <1>8

\* The caps bound the ledger's entries and not only the buckets: what an employee
\* has reserved and not released stays within the day's total and count, and so
\* does the money that moved on those entries (spend::reserve, release).
THEOREM LedgerWithinDay == Spec => []WithinDay
<1>1. TypeOK /\ LedgersAgree => WithinDay
  BY BooksBound
<1>2. QED
  BY <1>1, WithinCaps, BooksAddUp, PTL

\* What the comments say of a release: only money that did not move is released.
PaidIsLive == \A i \in paid : Live(i)

\* The comments' premise is all the daily cap lacks: in a day in which no
\* reservation whose money moved is released, what an employee has moved stays
\* within its cap (gate.rs:222, effects.rs:42). The run payments_timed_out shows a
\* day in which one is.
THEOREM CapHoldsOfWhatIsKept == Spec /\ []PaidIsLive => []MovedWithinDay
<1>1. WithinDay /\ PaidIsLive => MovedWithinDay
  <2> SUFFICES ASSUME WithinDay, PaidIsLive, NEW e \in Employees
               PROVE  Total({i \in paid : ledger[i].employee = e}) <= DailyTotal[e]
    BY DEF MovedWithinDay
  <2>1. {i \in paid : ledger[i].employee = e} = KeptPayments(e)
    BY DEF KeptPayments, PaidIsLive
  <2>2. QED
    BY <2>1 DEF WithinDay
<1>2. QED
  BY <1>1, LedgerWithinDay, PTL
=============================================================================
