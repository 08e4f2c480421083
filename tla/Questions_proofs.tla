-------------------------- MODULE Questions_proofs --------------------------
(***************************************************************************)
(* Proofs about Questions, for any seats, decisions, processes and hours:  *)
(* every message that wakes its reader is a turn taken from the reader's   *)
(* day, and one question a day is open between two colleagues, because the *)
(* budget row's lock orders the transactions that write to one seat.       *)
(***************************************************************************)
EXTENDS Questions, TLAPS, FiniteSetTheorems

-----------------------------------------------------------------------------
(* Hours and days *)

Hours == 0 .. MaxTime
Days == 0 .. MaxTime \div Day

\* An hour of the model falls on one of its days.
LEMMA DayOfHour == ASSUME NEW t \in Hours PROVE DayOf(t) \in Days
<1>. DEFINE d == t \div Day
            m == MaxTime \div Day
<1>1. Day \in Nat \ {0} /\ MaxTime \in Nat /\ t \in Nat /\ t <= MaxTime
  BY QuestionsConstants DEF Hours
<1>2. /\ d \in Nat /\ Day * d <= t /\ t < Day * (d + 1)
      /\ m \in Nat /\ Day * m <= MaxTime /\ MaxTime < Day * (m + 1)
  BY <1>1
<1>. HIDE DEF d, m
<1>3. ASSUME d > m PROVE FALSE
  <2>1. d - (m + 1) \in Nat /\ Day \in Nat
    BY <1>1, <1>2, <1>3
  <2>2. Day * (d - (m + 1)) \in Nat /\ Day * d = Day * (m + 1) + Day * (d - (m + 1))
    BY <1>1, <1>2, <2>1
  <2>3. QED
    BY <1>1, <1>2, <2>2
<1>4. d \in 0 .. m
  BY <1>2, <1>3
<1>5. QED
  BY <1>4 DEF d, m, DayOf, Days

\* Two hours of one day are less than a day apart.
LEMMA SameDay ==
  ASSUME NEW t \in Hours, NEW u \in Hours, DayOf(t) = DayOf(u)
  PROVE  t + Day > u
<1>. DEFINE d == t \div Day
<1>1. Day \in Nat \ {0} /\ t \in Nat /\ u \in Nat
  BY QuestionsConstants DEF Hours
<1>2. d = u \div Day
  BY DEF DayOf
<1>3. d \in Nat /\ Day * d <= t
  BY <1>1
<1>4. u < Day * (d + 1)
  BY <1>1, <1>2
<1>. HIDE DEF d
<1>5. Day * (d + 1) = Day * d + Day /\ Day * d \in Nat
  BY <1>1, <1>3
<1>6. QED
  BY <1>1, <1>3, <1>4, <1>5

-----------------------------------------------------------------------------
(* The invariant *)

Phase == {"none", "called", "reserved", "clear"}
Transaction == [phase : Phase, key : Keys \cup {None}, at : Hours, count : Nat]

Types ==
  /\ now \in Hours
  /\ sent \in [Keys -> Hours \cup {None}]
  /\ taken \in [Seats -> [Days -> Nat]]
  /\ tx \in [Procs -> Transaction]
  /\ \A p \in Procs : tx[p].phase # "none" => tx[p].key \in Keys
  /\ listed \in [Clocks -> SUBSET Questions]

\* The transaction has reserved a turn and holds the budget row's lock.
Holds(p) == tx[p].phase \in {"reserved", "clear"} /\ Wakes(To(tx[p].key))

\* One holder of a budget row, and what it read under the lock still stands.
RowHeld ==
  /\ \A p, q \in Procs : p # q /\ Holds(p) /\ Holds(q) => BudgetRow(p) # BudgetRow(q)
  /\ \A p \in Procs : Holds(p) =>
       LET s == To(tx[p].key)
           d == DayOf(tx[p].at)
       IN tx[p].count = taken[s][d] + 1 /\ tx[p].count <= Cap[s]

\* The messages that woke a seat on a day.
Woken(s, d) == {k \in Keys : To(k) = s /\ Sent(k) /\ DayOf(sent[k]) = d}

Paid ==
  \A s \in Seats, d \in Days :
    /\ Wakes(s) => IsFiniteSet(Woken(s, d)) /\ Cardinality(Woken(s, d)) <= taken[s][d]
    /\ taken[s][d] <= Cap[s]

SamePair(q, r) == Sender[q] = Sender[r] /\ Recipient[q] = Recipient[r]

\* A question that has passed its check, to a colleague who is woken.
Cleared(p) ==
  tx[p].phase = "clear" /\ tx[p].key \in Questions /\ Wakes(Recipient[tx[p].key])

\* An open question is the only one of its pair and day, and a question whose
\* check has passed under the lock would be.
Alone ==
  /\ \A q, r \in Questions :
       q # r /\ SamePair(q, r) /\ Wakes(Recipient[q]) /\ Open(q) /\ Open(r)
         => DayOf(sent[q]) # DayOf(sent[r])
  /\ \A p \in Procs, q \in Questions : Cleared(p) /\ q # tx[p].key /\ SamePair(q, tx[p].key)
       /\ Open(q) => DayOf(sent[q]) # DayOf(tx[p].at)

Inv == Types /\ RowHeld /\ Paid /\ Alone

LEMMA Constants == /\ None \notin Keys
                   /\ Cap \in [Seats -> Nat]
                   /\ \A k \in Keys : To(k) \in Seats
                   /\ \A k \in Questions : To(k) = Recipient[k]
                   /\ Questions \subseteq Decisions
                   /\ Decisions \subseteq Keys /\ Silences \subseteq Keys
<1>1. \A q \in Questions : Silence(q)[2] = q
  BY DEF Silence
<1>2. Questions \subseteq Decisions
  BY DEF Questions
<1>3. \A k \in Keys : To(k) \in Seats
  BY <1>1, <1>2, QuestionsConstants DEF To, Keys, Silences
<1>4. \A k \in Questions : To(k) = Recipient[k]
  BY <1>2, QuestionsConstants DEF To
<1>5. QED
  BY <1>2, <1>3, <1>4, QuestionsConstants DEF Keys

LEMMA ClosedType == Closed \in Transaction /\ Closed.phase = "none"
BY QuestionsConstants DEF Closed, Transaction, Phase, Hours

LEMMA InvInit == Init => Inv
<1>. SUFFICES ASSUME Init PROVE Inv
  OBVIOUS
<1>1. 0 \in Hours
  BY QuestionsConstants DEF Hours
<1>2. Types
  BY <1>1, ClosedType DEF Init, Types, Days
<1>3. RowHeld
  BY ClosedType DEF Init, RowHeld, Holds
<1>4. Paid
  <2>1. \A s \in Seats, d \in Days : Woken(s, d) = {} /\ taken[s][d] = 0
    BY DEF Init, Woken, Sent, Days
  <2>2. SUFFICES ASSUME NEW s \in Seats, NEW d \in Days
                 PROVE  /\ IsFiniteSet(Woken(s, d)) /\ Cardinality(Woken(s, d)) <= taken[s][d]
                        /\ taken[s][d] <= Cap[s]
    BY DEF Paid
  <2>3. Woken(s, d) = {} /\ taken[s][d] = 0 /\ Cap[s] \in Nat
    BY <2>1, Constants
  <2>4. IsFiniteSet(Woken(s, d)) /\ Cardinality(Woken(s, d)) = 0
    BY <2>3, FS_EmptySet
  <2>5. QED
    BY <2>3, <2>4
<1>5. Alone
  <2>1. \A q \in Questions : ~Open(q)
    BY Constants DEF Init, Open, Sent
  <2>2. \A p \in Procs : tx[p].phase = "none"
    BY ClosedType DEF Init
  <2>3. QED
    BY <2>1, <2>2 DEF Alone, Cleared
<1>6. QED
  BY <1>2, <1>3, <1>4, <1>5 DEF Inv

\* A transaction moves and writes nothing: what is to be shown of it.
LEMMA TxStep ==
  ASSUME Inv, NEW p \in Procs, NEW t \in Transaction,
         tx' = [tx EXCEPT ![p] = t],
         UNCHANGED <<now, sent, taken>>,
         listed' \in [Clocks -> SUBSET Questions],
         t.phase # "none" => t.key \in Keys,
         t.phase \in {"reserved", "clear"} /\ Wakes(To(t.key)) =>
           /\ \A q \in Procs \ {p} : Holds(q) => BudgetRow(q) # <<To(t.key), DayOf(t.at)>>
           /\ t.count = taken[To(t.key)][DayOf(t.at)] + 1 /\ t.count <= Cap[To(t.key)],
         t.phase = "clear" /\ t.key \in Questions /\ Wakes(Recipient[t.key]) =>
           \A q \in Questions : q # t.key /\ SamePair(q, t.key) /\ Open(q)
             => DayOf(sent[q]) # DayOf(t.at)
  PROVE  Inv'
<1>1. tx'[p] = t /\ \A q \in Procs \ {p} : tx'[q] = tx[q]
  BY DEF Inv, Types
<1>2. Types'
  BY <1>1 DEF Inv, Types
<1>3. RowHeld'
  BY <1>1 DEF Inv, RowHeld, Holds, BudgetRow
<1>4. Paid'
  BY DEF Inv, Paid, Woken, Sent
<1>5. Alone'
  <2>1. \A q \in Questions : Open(q)' <=> Open(q)
    BY DEF Open, Answers, Sent
  <2>2. ASSUME NEW r \in Procs, NEW q \in Questions, tx'[r].phase = "clear",
               tx'[r].key \in Questions, Wakes(Recipient[tx'[r].key]),
               q # tx'[r].key, SamePair(q, tx'[r].key), Open(q)
        PROVE  DayOf(sent[q]) # DayOf(tx'[r].at)
    <3>1. CASE r = p
      BY <1>1, <2>2, <3>1
    <3>2. CASE r # p
      BY <1>1, <2>2, <3>2 DEF Inv, Alone, Cleared
    <3>3. QED
      BY <3>1, <3>2
  <2>3. \A q, r \in Questions :
          q # r /\ SamePair(q, r) /\ Wakes(Recipient[q]) /\ Open(q) /\ Open(r)
            => DayOf(sent[q]) # DayOf(sent[r])
    BY DEF Inv, Alone, Cleared
  <2>4. QED
    BY <2>1, <2>2, <2>3 DEF Alone, Cleared
<1>6. QED
  BY <1>2, <1>3, <1>4, <1>5 DEF Inv

\* A call of send, by a turn or by the clock.
LEMMA CallStep ==
  ASSUME Inv, NEW p \in Procs, NEW k \in Keys, Call(p, k),
         UNCHANGED <<now, sent, taken>>, listed' \in [Clocks -> SUBSET Questions]
  PROVE  Inv'
<1>. DEFINE t == [phase |-> "called", key |-> k, at |-> now, count |-> 0]
<1>1. t \in Transaction /\ t.phase = "called" /\ t.key = k
  BY DEF Inv, Types, Transaction, Phase
<1>2. tx' = [tx EXCEPT ![p] = t]
  BY DEF Call
<1>. HIDE DEF t
<1>3. QED
  BY <1>1, <1>2, TxStep

\* Nothing of it is left when a transaction rolls back.
LEMMA CloseStep ==
  ASSUME Inv, NEW p \in Procs, tx' = [tx EXCEPT ![p] = Closed],
         UNCHANGED <<now, sent, taken>>, listed' \in [Clocks -> SUBSET Questions]
  PROVE  Inv'
BY ClosedType, TxStep

\* The turn is taken under the lock of the recipient's day.
LEMMA ReserveStep ==
  ASSUME Inv, NEW p \in Procs, Reserve(p)
  PROVE  Inv'
<1>. DEFINE s == To(tx[p].key)
            d == DayOf(tx[p].at)
            n == taken[s][d]
<1>1. /\ tx[p] \in Transaction /\ tx[p].phase = "called" /\ tx[p].key \in Keys
      /\ UNCHANGED <<now, sent, taken>> /\ listed' \in [Clocks -> SUBSET Questions]
  BY DEF Reserve, Inv, Types
<1>2. s \in Seats /\ d \in Days /\ n \in Nat /\ Cap[s] \in Nat
  BY <1>1, Constants, DayOfHour DEF Transaction, Inv, Types
<1>3. CASE ~Wakes(s)
  <2>. DEFINE t == [tx[p] EXCEPT !.phase = "reserved"]
  <2>1. t \in Transaction /\ t.phase = "reserved" /\ t.key = tx[p].key
    BY <1>1 DEF Transaction, Phase
  <2>2. tx' = [tx EXCEPT ![p] = t]
    BY <1>3 DEF Reserve, Inv, Types
  <2>. HIDE DEF t
  <2>3. QED
    BY <1>1, <1>3, <2>1, <2>2, TxStep
<1>4. CASE Wakes(s) /\ n >= Cap[s]
  <2>1. tx' = [tx EXCEPT ![p] = Closed]
    BY <1>4 DEF Reserve
  <2>2. QED
    BY <1>1, <2>1, CloseStep
<1>5. CASE Wakes(s) /\ ~(n >= Cap[s])
  <2>. DEFINE t == [tx[p] EXCEPT !.phase = "reserved", !.count = n + 1]
  <2>1. t \in Transaction /\ t.phase = "reserved" /\ t.key = tx[p].key
        /\ t.at = tx[p].at /\ t.count = n + 1
    <3>1. n + 1 \in Nat
      <4>. HIDE DEF n
      <4>1. QED
        BY <1>2
    <3>. DEFINE m == n + 1
    <3>2. m \in Nat /\ t = [tx[p] EXCEPT !.phase = "reserved", !.count = m]
      BY <3>1
    <3>. HIDE DEF m
    <3>3. t \in Transaction /\ t.phase = "reserved" /\ t.key = tx[p].key
          /\ t.at = tx[p].at /\ t.count = m
      BY <1>1, <3>2 DEF Transaction, Phase
    <3>4. QED
      BY <3>3 DEF m
  <2>2. tx' = [tx EXCEPT ![p] = t] /\ ~RowLocked(BudgetRow(p))
    BY <1>5 DEF Reserve, Inv, Types
  <2>3. \A q \in Procs \ {p} : Holds(q) => BudgetRow(q) # <<s, d>>
    BY <2>2 DEF RowLocked, Holds, BudgetRow
  <2>4. n + 1 <= Cap[s]
    <3>. HIDE DEF n, s
    <3>1. QED
      BY <1>2, <1>5
  <2>. HIDE DEF t
  <2>5. QED
    BY <1>1, <2>1, <2>2, <2>3, <2>4, TxStep
<1>6. QED
  BY <1>3, <1>4, <1>5

\* The check reads, under the lock, every question of the pair and the day.
LEMMA CheckStep ==
  ASSUME Inv, NEW p \in Procs, CheckPending(p)
  PROVE  Inv'
<1>. DEFINE k == tx[p].key
            t == [tx[p] EXCEPT !.phase = "clear"]
<1>1. /\ tx[p] \in Transaction /\ tx[p].phase = "reserved" /\ k \in Keys
      /\ UNCHANGED <<now, sent, taken>> /\ listed' \in [Clocks -> SUBSET Questions]
  BY DEF CheckPending, Inv, Types
<1>2. CASE k \in Questions /\ StillPending(k, tx[p].at)
  <2>1. tx' = [tx EXCEPT ![p] = Closed]
    BY <1>2 DEF CheckPending
  <2>2. QED
    BY <1>1, <2>1, CloseStep
<1>3. CASE ~(k \in Questions /\ StillPending(k, tx[p].at))
  <2>1. /\ t \in Transaction /\ t.phase = "clear" /\ t.key = k
        /\ t.at = tx[p].at /\ t.count = tx[p].count
    BY <1>1 DEF Transaction, Phase
  <2>2. tx' = [tx EXCEPT ![p] = t]
    BY <1>3 DEF CheckPending, Inv, Types
  <2>3. Wakes(To(k)) =>
          /\ \A q \in Procs \ {p} : Holds(q) => BudgetRow(q) # <<To(k), DayOf(tx[p].at)>>
          /\ tx[p].count = taken[To(k)][DayOf(tx[p].at)] + 1 /\ tx[p].count <= Cap[To(k)]
    BY <1>1 DEF Inv, RowHeld, Holds, BudgetRow
  <2>4. ASSUME k \in Questions, NEW q \in Questions, SamePair(q, k), Open(q)
        PROVE  DayOf(sent[q]) # DayOf(tx[p].at)
    <3>1. ~(sent[q] + Day > tx[p].at)
      BY <1>3, <2>4 DEF StillPending, SamePair
    <3>2. sent[q] \in Hours /\ tx[p].at \in Hours
      BY <1>1, <2>4, Constants DEF Inv, Types, Open, Sent, Transaction
    <3>3. QED
      BY <3>1, <3>2, SameDay
  <2>. HIDE DEF t, k
  <2>5. QED
    BY <1>1, <2>1, <2>2, <2>3, <2>4, TxStep
<1>4. QED
  BY <1>2, <1>3

\* The commit of a message: the slot it holds is its own, and an open question
\* of the pair and the day would have been seen by the check.
LEMMA CommitStep ==
  ASSUME Inv, NEW p \in Procs, Commit(p)
  PROVE  Inv'
<1>. DEFINE k == tx[p].key
            s == To(tx[p].key)
            d == DayOf(tx[p].at)
<1>1. /\ tx[p] \in Transaction /\ tx[p].phase = "clear" /\ k \in Keys
      /\ tx' = [tx EXCEPT ![p] = Closed] /\ UNCHANGED <<now, listed>>
      /\ sent' = IF Sent(k) THEN sent ELSE [sent EXCEPT ![k] = tx[p].at]
      /\ taken' = IF Wakes(s) THEN [taken EXCEPT ![s][d] = tx[p].count] ELSE taken
  BY DEF Commit, Inv, Types
<1>2. s \in Seats /\ d \in Days /\ tx[p].at \in Hours /\ tx[p].count \in Nat
  BY <1>1, Constants, DayOfHour DEF Transaction
<1>3. tx'[p] = Closed /\ \A q \in Procs \ {p} : tx'[q] = tx[q]
  BY <1>1 DEF Inv, Types
<1>4. \A j \in Keys \ {k} : sent'[j] = sent[j]
  BY <1>1 DEF Inv, Types
<1>5. Sent(k) \/ sent'[k] = tx[p].at
  BY <1>1 DEF Inv, Types
<1>6. Sent(k) => sent' = sent
  BY <1>1
<1>7. Wakes(s) => /\ Holds(p) /\ tx[p].count = taken[s][d] + 1 /\ tx[p].count <= Cap[s]
                  /\ taken'[s][d] = tx[p].count
  BY <1>1, <1>2 DEF Inv, Types, RowHeld, Holds
<1>8. \A e \in Seats, c \in Days : <<e, c>> # <<s, d>> => taken'[e][c] = taken[e][c]
  BY <1>1 DEF Inv, Types
<1>9. ~Wakes(s) => taken' = taken
  BY <1>1
<1>10. Types'
  <2>1. sent' \in [Keys -> Hours \cup {None}]
    BY <1>1, <1>2 DEF Inv, Types
  <2>2. taken' \in [Seats -> [Days -> Nat]]
    BY <1>1, <1>2 DEF Inv, Types
  <2>3. tx' \in [Procs -> Transaction]
    BY <1>1, ClosedType DEF Inv, Types
  <2>4. \A q \in Procs : tx'[q].phase # "none" => tx'[q].key \in Keys
    BY <1>3, ClosedType DEF Inv, Types
  <2>5. QED
    BY <1>1, <2>1, <2>2, <2>3, <2>4 DEF Inv, Types
<1>. HIDE DEF s, d, k
<1>11. RowHeld'
  <2>1. SUFFICES ASSUME NEW q \in Procs \ {p}, Holds(q)
                 PROVE  /\ \A r \in Procs \ {p, q} : Holds(r) => BudgetRow(q) # BudgetRow(r)
                        /\ taken'[To(tx[q].key)][DayOf(tx[q].at)]
                             = taken[To(tx[q].key)][DayOf(tx[q].at)]
    BY <1>3, ClosedType DEF Inv, RowHeld, Holds, BudgetRow
  <2>2. To(tx[q].key) \in Seats /\ DayOf(tx[q].at) \in Days
    BY <2>1, Constants, DayOfHour DEF Inv, Types, Holds, Transaction
  <2>3. Wakes(s) => <<To(tx[q].key), DayOf(tx[q].at)>> # <<s, d>>
    BY <1>7, <2>1 DEF Inv, RowHeld, BudgetRow, s, d
  <2>4. taken'[To(tx[q].key)][DayOf(tx[q].at)] = taken[To(tx[q].key)][DayOf(tx[q].at)]
    BY <1>8, <1>9, <2>2, <2>3
  <2>5. QED
    BY <2>1, <2>4 DEF Inv, RowHeld
<1>12. Paid'
  <2>1. SUFFICES ASSUME NEW e \in Seats, NEW c \in Days
                 PROVE  /\ Wakes(e) => /\ IsFiniteSet(Woken(e, c)')
                                       /\ Cardinality(Woken(e, c)') <= taken'[e][c]
                        /\ taken'[e][c] <= Cap[e]
    BY DEF Paid
  <2>2. Woken(e, c)' = {j \in Keys : To(j) = e /\ sent'[j] # None /\ DayOf(sent'[j]) = c}
    BY DEF Woken, Sent
  <2>3. /\ Wakes(e) => IsFiniteSet(Woken(e, c)) /\ Cardinality(Woken(e, c)) <= taken[e][c]
        /\ taken[e][c] <= Cap[e] /\ taken[e][c] \in Nat /\ Cap[e] \in Nat
    BY Constants DEF Inv, Paid, Types
  <2>4. CASE <<e, c>> # <<s, d>>
    <3>1. Woken(e, c)' \in SUBSET Woken(e, c)
      <4>1. ASSUME NEW j \in Keys, To(j) = e, sent'[j] # None, DayOf(sent'[j]) = c
            PROVE  j \in Woken(e, c)
        <5>1. CASE j # k
          BY <1>4, <4>1, <5>1 DEF Woken, Sent
        <5>2. CASE j = k /\ Sent(k)
          BY <1>6, <4>1, <5>2 DEF Woken, Sent
        <5>3. CASE j = k /\ ~Sent(k)
          BY <1>5, <2>4, <4>1, <5>3 DEF s, d, k
        <5>4. QED
          BY <5>1, <5>2, <5>3
      <4>2. QED
        BY <2>2, <4>1
    <3>2. taken'[e][c] = taken[e][c]
      BY <1>8, <2>4
    <3>3. ASSUME Wakes(e)
          PROVE  IsFiniteSet(Woken(e, c)') /\ Cardinality(Woken(e, c)') <= taken[e][c]
      <4>1. IsFiniteSet(Woken(e, c)') /\ Cardinality(Woken(e, c)') <= Cardinality(Woken(e, c))
        BY <2>3, <3>1, <3>3, FS_Subset
      <4>2. Cardinality(Woken(e, c)') \in Nat /\ Cardinality(Woken(e, c)) \in Nat
        BY <2>3, <3>3, <4>1, FS_CardinalityType
      <4>3. QED
        BY <2>3, <3>3, <4>1, <4>2
    <3>4. QED
      BY <2>3, <3>2, <3>3
  <2>5. CASE e = s /\ c = d /\ ~Wakes(s)
    BY <1>9, <2>3, <2>5
  <2>6. CASE e = s /\ c = d /\ Wakes(s)
    <3>1. Woken(e, c)' \in SUBSET (Woken(e, c) \cup {k})
      BY <1>4, <2>2 DEF Woken, Sent
    <3>2. /\ IsFiniteSet(Woken(e, c) \cup {k})
          /\ Cardinality(Woken(e, c) \cup {k})
               = IF k \in Woken(e, c) THEN Cardinality(Woken(e, c)) ELSE Cardinality(Woken(e, c)) + 1
      BY <2>3, <2>6, FS_AddElement
    <3>3. IsFiniteSet(Woken(e, c)') /\ Cardinality(Woken(e, c)') <= Cardinality(Woken(e, c) \cup {k})
      BY <3>1, <3>2, FS_Subset
    <3>4. /\ Cardinality(Woken(e, c)') \in Nat /\ Cardinality(Woken(e, c)) \in Nat
          /\ Cardinality(Woken(e, c) \cup {k}) \in Nat
      BY <2>3, <2>6, <3>2, <3>3, FS_CardinalityType
    <3>5. taken'[e][c] = taken[e][c] + 1 /\ taken'[e][c] <= Cap[e]
      BY <1>7, <2>6
    <3>6. QED
      BY <2>3, <2>6, <3>2, <3>3, <3>4, <3>5
  <2>7. QED
    BY <2>4, <2>5, <2>6
<1>13. Alone'
  <2>1. \A q \in Questions : Open(q)' =>
          \/ Open(q) /\ sent'[q] = sent[q]
          \/ q = k /\ ~Sent(k) /\ sent'[q] = tx[p].at
    BY <1>4, <1>5, <1>6, Constants DEF Open, Answers, Sent
  <2>2. ASSUME NEW q \in Questions, Open(q)', sent'[q] = sent[q], Open(q), q # k,
               k \in Questions, SamePair(q, k), Wakes(Recipient[k])
        PROVE  DayOf(sent'[q]) # d
    BY <1>1, <2>2 DEF Inv, Alone, Cleared, d, k
  <2>3. ASSUME NEW q \in Questions, NEW r \in Questions, q # r, SamePair(q, r),
               Wakes(Recipient[q]), Open(q)', Open(r)'
        PROVE  DayOf(sent'[q]) # DayOf(sent'[r])
    <3>1. CASE q = k /\ sent'[q] = tx[p].at
      BY <2>1, <2>2, <2>3, <3>1 DEF SamePair, d
    <3>2. CASE r = k /\ sent'[r] = tx[p].at
      BY <2>1, <2>2, <2>3, <3>2 DEF SamePair, d
    <3>3. CASE Open(q) /\ sent'[q] = sent[q] /\ Open(r) /\ sent'[r] = sent[r]
      BY <2>3, <3>3 DEF Inv, Alone, Cleared
    <3>4. QED
      BY <2>1, <2>3, <3>1, <3>2, <3>3
  <2>4. ASSUME NEW r \in Procs, NEW q \in Questions, tx'[r].phase = "clear",
               tx'[r].key \in Questions, Wakes(Recipient[tx'[r].key]),
               q # tx'[r].key, SamePair(q, tx'[r].key), Open(q)'
        PROVE  DayOf(sent'[q]) # DayOf(tx'[r].at)
    <3>1. r # p /\ tx'[r] = tx[r]
      BY <1>3, <2>4, ClosedType
    <3>2. CASE Open(q) /\ sent'[q] = sent[q]
      BY <2>4, <3>1, <3>2 DEF Inv, Alone, Cleared
    <3>3. CASE q = k /\ sent'[q] = tx[p].at
      <4>1. To(k) = Recipient[k] /\ To(tx[r].key) = Recipient[tx[r].key]
        BY <2>4, <3>1, <3>3, Constants
      <4>2. To(k) = To(tx[r].key) /\ Wakes(To(k))
        BY <2>4, <3>1, <3>3, <4>1 DEF SamePair
      <4>3. Holds(p) /\ Holds(r)
        BY <1>1, <2>4, <3>1, <4>2 DEF Holds, k
      <4>4. BudgetRow(p) # BudgetRow(r)
        BY <3>1, <4>3 DEF Inv, RowHeld
      <4>5. QED
        BY <3>1, <3>3, <4>2, <4>4 DEF BudgetRow, k
    <3>4. QED
      BY <2>1, <2>4, <3>2, <3>3
  <2>5. QED
    BY <2>3, <2>4 DEF Alone, Cleared
<1>14. QED
  BY <1>10, <1>11, <1>12, <1>13 DEF Inv

\* Another taker of a turn waits for the row like everybody else.
LEMMA SpendStep ==
  ASSUME Inv, NEW s \in Seats, SpendElsewhere(s)
  PROVE  Inv'
<1>. DEFINE d == DayOf(now)
<1>1. /\ taken[s][d] < Cap[s] /\ ~RowLocked(<<s, d>>)
      /\ taken' = [taken EXCEPT ![s][d] = @ + 1]
      /\ UNCHANGED <<now, sent, tx, listed>>
  BY DEF SpendElsewhere
<1>2. d \in Days /\ Cap[s] \in Nat /\ taken \in [Seats -> [Days -> Nat]]
  BY DayOfHour, Constants DEF Inv, Types
<1>. HIDE DEF d
<1>3. taken[s][d] + 1 \in Nat /\ taken[s][d] + 1 <= Cap[s]
  BY <1>1, <1>2
<1>4. taken' \in [Seats -> [Days -> Nat]] /\ taken'[s][d] = taken[s][d] + 1
  BY <1>1, <1>2, <1>3
<1>5. \A e \in Seats, c \in Days : <<e, c>> # <<s, d>> => taken'[e][c] = taken[e][c]
  BY <1>1, <1>2
<1>6. Types'
  BY <1>1, <1>4 DEF Inv, Types
<1>7. RowHeld'
  <2>1. SUFFICES ASSUME NEW p \in Procs, Holds(p)
                 PROVE  taken'[To(tx[p].key)][DayOf(tx[p].at)]
                          = taken[To(tx[p].key)][DayOf(tx[p].at)]
    BY <1>1 DEF Inv, RowHeld, Holds, BudgetRow
  <2>2. To(tx[p].key) \in Seats /\ DayOf(tx[p].at) \in Days
    BY <2>1, Constants, DayOfHour DEF Inv, Types, Holds, Transaction
  <2>3. <<To(tx[p].key), DayOf(tx[p].at)>> # <<s, d>>
    BY <1>1, <2>1 DEF RowLocked, Holds, BudgetRow
  <2>4. QED
    BY <1>5, <2>2, <2>3
<1>8. Paid'
  <2>1. SUFFICES ASSUME NEW e \in Seats, NEW c \in Days
                 PROVE  /\ Wakes(e) => /\ IsFiniteSet(Woken(e, c))
                                       /\ Cardinality(Woken(e, c)) <= taken'[e][c]
                        /\ taken'[e][c] <= Cap[e]
    BY <1>1 DEF Paid, Woken, Sent
  <2>2. /\ Wakes(e) => IsFiniteSet(Woken(e, c)) /\ Cardinality(Woken(e, c)) <= taken[e][c]
        /\ taken[e][c] <= Cap[e] /\ taken[e][c] \in Nat
    BY <1>2 DEF Inv, Paid
  <2>3. Wakes(e) => Cardinality(Woken(e, c)) \in Nat
    BY <2>2, FS_CardinalityType
  <2>4. CASE e = s /\ c = d
    BY <1>3, <1>4, <2>2, <2>3, <2>4
  <2>5. CASE ~(e = s /\ c = d)
    BY <1>5, <2>2, <2>5
  <2>6. QED
    BY <2>4, <2>5
<1>9. Alone'
  BY <1>1 DEF Inv, Alone, Cleared, Open, Answers, Sent
<1>10. QED
  BY <1>6, <1>7, <1>8, <1>9 DEF Inv

\* The hour, a listing and the acts of operators touch no message and no slot.
LEMMA ElseStep ==
  ASSUME Inv, now' \in Hours, listed' \in [Clocks -> SUBSET Questions],
         UNCHANGED <<sent, taken, tx>>
  PROVE  Inv'
<1>1. Types' /\ RowHeld'
  BY DEF Inv, Types, RowHeld, Holds, BudgetRow
<1>2. Paid'
  BY DEF Inv, Paid, Woken, Sent
<1>3. Alone'
  BY DEF Inv, Alone, Cleared, Open, Answers, Sent
<1>4. QED
  BY <1>1, <1>2, <1>3 DEF Inv

LEMMA InvNext == Inv /\ [Next]_vars => Inv'
<1>. SUFFICES ASSUME Inv, [Next]_vars PROVE Inv'
  OBVIOUS
<1>1. now \in Hours /\ listed \in [Clocks -> SUBSET Questions]
  BY DEF Inv, Types
<1>2. CASE UNCHANGED vars
  BY <1>1, <1>2, ElseStep DEF vars
<1>3. ASSUME NEW p \in Turns, NEW k \in Decisions, Execute(p, k) PROVE Inv'
  BY <1>1, <1>3, Constants, CallStep DEF Execute, Procs
<1>4. ASSUME NEW p \in Procs, Send(p) PROVE Inv'
  BY <1>4, ReserveStep, CheckStep, CommitStep DEF Send
<1>5. ASSUME NEW p \in Procs, Crash(p) PROVE Inv'
  <2>1. listed' \in [Clocks -> SUBSET Questions]
    BY <1>1, <1>5 DEF Crash
  <2>2. tx' = [tx EXCEPT ![p] = Closed] /\ UNCHANGED <<now, sent, taken>>
    BY <1>5 DEF Crash
  <2>3. QED
    BY <2>1, <2>2, CloseStep
<1>6. ASSUME NEW c \in Clocks, Tick(c) PROVE Inv'
  <2>1. PICK B \in SUBSET Questions : listed' = [listed EXCEPT ![c] = B]
    BY <1>6 DEF Tick
  <2>2. listed' \in [Clocks -> SUBSET Questions]
    BY <1>1, <2>1
  <2>3. QED
    BY <1>1, <1>6, <2>2, ElseStep DEF Tick
<1>7. ASSUME NEW c \in Clocks, AnswerForSilence(c) PROVE Inv'
  <2>1. PICK q \in listed[c] :
          /\ listed' = [listed EXCEPT ![c] = @ \ {q}]
          /\ Call(c, Silence(q)) \/ UNCHANGED tx
    BY <1>7 DEF AnswerForSilence
  <2>2. q \in Questions /\ listed' \in [Clocks -> SUBSET Questions]
    BY <1>1, <2>1
  <2>3. Silence(q) \in Keys /\ c \in Procs
    BY <2>2, Constants DEF Silences, Procs
  <2>4. UNCHANGED <<now, sent, taken>>
    BY <1>7 DEF AnswerForSilence
  <2>5. CASE Call(c, Silence(q))
    BY <2>2, <2>3, <2>4, <2>5, CallStep
  <2>6. CASE UNCHANGED tx
    BY <1>1, <2>2, <2>4, <2>6, ElseStep
  <2>7. QED
    BY <2>1, <2>5, <2>6
<1>8. ASSUME NEW s \in Seats, SpendElsewhere(s) PROVE Inv'
  BY <1>8, SpendStep
<1>9. ASSUME NEW s \in Seats, SetLifecycle(s) PROVE Inv'
  BY <1>1, <1>9, ElseStep DEF SetLifecycle
<1>10. CASE SetStop
  BY <1>1, <1>10, ElseStep DEF SetStop
<1>12. ASSUME NEW s \in Seats, SetPolicy(s) PROVE Inv'
  BY <1>1, <1>12, ElseStep DEF SetPolicy
<1>11. CASE Advance
  <2>1. now' \in Hours
    BY <1>1, <1>11, QuestionsConstants DEF Advance, Hours
  <2>2. QED
    BY <1>1, <1>11, <2>1, ElseStep DEF Advance
<1>13. QED
  BY <1>2, <1>3, <1>4, <1>5, <1>6, <1>7, <1>8, <1>9, <1>10, <1>11, <1>12 DEF Next

\* The inductive invariant holds throughout.
LEMMA Invariant == Spec => []Inv
BY InvInit, InvNext, PTL DEF Spec

-----------------------------------------------------------------------------
(* Theorems *)

\* However many senders, clocks and retries write at once, every message that
\* woke a seat is one of the turns taken from its day, and the day's ceiling
\* holds (turns::reserve under send).
THEOREM WakesArePaid == Spec => []EveryWakeIsPaid
<1>1. Inv => EveryWakeIsPaid
  BY DEF Inv, Paid, Woken, EveryWakeIsPaid, Days
<1>2. QED
  BY <1>1, Invariant, PTL

\* Two questions of one day between one asker and a colleague who is woken are
\* never open together (send's still_pending behind the budget row's lock).
THEOREM OneQuestionOpen == Spec => []OneOpenQuestionADay
<1>1. Inv => OneOpenQuestionADay
  <2>1. SUFFICES ASSUME Inv, NEW q \in Questions, NEW r \in Questions, Crowded(q, r),
                        DayOf(sent[q]) = DayOf(sent[r]), Wakes(Recipient[q])
                 PROVE  FALSE
    BY DEF OneOpenQuestionADay
  <2>2. q # r /\ SamePair(q, r) /\ Open(q) /\ Open(r)
    BY <2>1 DEF Crowded, SamePair
  <2>3. QED
    BY <2>1, <2>2 DEF Inv, Alone
<1>2. QED
  BY <1>1, Invariant, PTL
=============================================================================
