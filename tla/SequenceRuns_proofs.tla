------------------------- MODULE SequenceRuns_proofs -------------------------
(***************************************************************************)
(* Proofs about SequenceRuns, for any runs, loops and program: a step is   *)
(* written by one turn while nothing is lost, held or booked behind        *)
(* another, a contact taken out of a sequence is not woken, and what has   *)
(* ended stays ended.                                                      *)
(***************************************************************************)
EXTENDS SequenceRuns, TLAPS, WellFoundedInduction, SequenceTheorems

-----------------------------------------------------------------------------
(* The last of a step's promises and the first that rang                   *)

Less == {ss \in Nat \X Nat : ss[1] < ss[2]}

\* The order of the natural numbers, for the choices below.
LEMMA LessIsWellFounded == IsWellFoundedOn(Less, Nat)
BY NatLessThanWellFounded DEF OpToRel, Less

\* A set of naturals that is not empty has a least one.
LEMMA LeastOne ==
  ASSUME NEW T \in SUBSET Nat, T # {}
  PROVE  \E x \in T : \A y \in T : x <= y
<1>1. PICK x \in T : \A y \in T : ~(<<y, x>> \in Less)
  BY LessIsWellFounded, WFMin
<1>2. ASSUME NEW y \in T PROVE x <= y
  <2>1. ~(y < x)
    BY <1>1 DEF Less
  <2>2. QED
    BY <2>1
<1>3. QED
  BY <1>2

\* Never is after every instant of the clock.
LEMMA NeverIsLate ==
  ASSUME clock \in 0..MaxTime
  PROVE  /\ Never \in Nat /\ clock \in Nat /\ clock # Never /\ clock \in Instants
         /\ \A t \in 0..MaxTime : t < Never /\ t \in Instants
<1>1. /\ MaxTime \in Nat /\ SendDeadline \in Nat /\ Overnight \in Nat
      /\ Ceiling \in Nat /\ WakePoll \in Nat
  BY SequenceRunsAssumption
<1>2. Never \in Nat /\ MaxTime < Never
  BY <1>1 DEF Never
<1>. QED
  BY <1>1, <1>2 DEF Instants

IsLast(r, S, i)  == i \in S /\ \A j \in S \ {i} : Earlier(r, j, i)
IsFirst(r, S, i) == i \in S /\ \A j \in S \ {i} : Earlier(r, i, j)

\* Any promises of a run have a last one and a first one.
LEMMA EndsExist ==
  ASSUME TypeOK, NEW r \in Runs, NEW S \in SUBSET (DOMAIN promises[r]), S # {}
  PROVE  (\E i \in S : IsLast(r, S, i)) /\ (\E i \in S : IsFirst(r, S, i))
<1>. DEFINE Good(Q) == (\E i \in Q : IsLast(r, Q, i)) /\ (\E i \in Q : IsFirst(r, Q, i))
            Bad == {n \in Nat : \E Q \in SUBSET (DOMAIN promises[r]) :
                                  Q # {} /\ Q \subseteq 1..n /\ ~Good(Q)}
<1>1. /\ promises[r] \in Seq(Promise) /\ DOMAIN promises[r] = 1..Len(promises[r])
      /\ Len(promises[r]) \in Nat
  BY DEF TypeOK
<1>2. ASSUME NEW i \in DOMAIN promises[r]
      PROVE  i \in Nat /\ promises[r][i].at \in Nat
  <2>1. promises[r][i] \in Promise
    BY <1>1
  <2>2. QED
    BY <1>1, <2>1 DEF Promise
<1>3. SUFFICES ASSUME ~Good(S) PROVE FALSE
  OBVIOUS
<1>4. Len(promises[r]) \in Bad
  BY <1>1, <1>3
<1>5. PICK n \in Bad : \A m \in Bad : n <= m
  <2>1. Bad \in SUBSET Nat /\ Bad # {}
    BY <1>4
  <2>. HIDE DEF Bad
  <2>2. QED
    BY <2>1, LeastOne
<1>6. PICK Q \in SUBSET (DOMAIN promises[r]) : Q # {} /\ Q \subseteq 1..n /\ ~Good(Q)
  BY <1>5
<1>7. n \in Nat
  BY <1>5
<1>. DEFINE P == Q \ {n}
<1>8. n \in Q
  <2>1. CASE n \notin Q
    <3>1. Q \subseteq 1..(n-1) /\ n # 0
      BY <2>1, <1>6, <1>7
    <3>2. n - 1 \in Nat
      BY <3>1, <1>7
    <3>3. n - 1 \in Bad
      BY <3>1, <3>2, <1>6
    <3>. HIDE DEF Bad
    <3>4. QED
      BY <3>3, <1>5, <1>7
  <2>2. QED
    BY <2>1
<1>9. P # {}
  <2>1. CASE P = {}
    <3>1. Q = {n}
      BY <2>1, <1>8
    <3>2. Good(Q)
      BY <3>1 DEF IsLast, IsFirst
    <3>3. QED
      BY <3>2, <1>6
  <2>2. QED
    BY <2>1
<1>10. Good(P)
  <2>20. n # 0 /\ n \in 1..n
    BY <1>6, <1>7, <1>8
  <2>21. P \subseteq 1..(n-1)
    BY <1>6, <1>7
  <2>1. n # 0 /\ P \subseteq 1..(n-1) /\ n - 1 \in Nat /\ P \in SUBSET (DOMAIN promises[r])
    BY <2>20, <2>21, <1>6, <1>7
  <2>2. CASE ~Good(P)
    <3>1. n - 1 \in Bad
      BY <2>1, <2>2, <1>9
    <3>. HIDE DEF Bad
    <3>2. QED
      BY <3>1, <1>5, <1>7
  <2>3. QED
    BY <2>2
<1>11. PICK i \in P : IsLast(r, P, i)
  BY <1>10
<1>12. PICK f \in P : IsFirst(r, P, f)
  BY <1>10
<1>13. P \subseteq DOMAIN promises[r] /\ n \in DOMAIN promises[r] /\ Q = P \cup {n} /\ n \notin P
  BY <1>6, <1>8
<1>14. \A j \in P : j < n
  BY <1>6, <1>7
<1>. HIDE DEF P, Bad
<1>15. \E k \in Q : IsLast(r, Q, k)
  <2>1. CASE promises[r][n].at < promises[r][i].at
    <3>1. IsLast(r, Q, i)
      BY <2>1, <1>11, <1>13, <1>2 DEF IsLast, Earlier
    <3>2. QED
      BY <3>1, <1>11, <1>13
  <2>2. CASE ~(promises[r][n].at < promises[r][i].at)
    <3>1. \A j \in P : Earlier(r, j, n)
      BY <2>2, <1>2, <1>11, <1>13, <1>14 DEF IsLast, Earlier
    <3>2. IsLast(r, Q, n)
      BY <3>1, <1>13 DEF IsLast
    <3>3. QED
      BY <3>2, <1>13
  <2>3. QED
    BY <2>1, <2>2
<1>16. \E k \in Q : IsFirst(r, Q, k)
  <2>1. CASE promises[r][n].at < promises[r][f].at
    <3>1. \A j \in P : Earlier(r, n, j)
      BY <2>1, <1>2, <1>12, <1>13 DEF IsFirst, Earlier
    <3>2. IsFirst(r, Q, n)
      BY <3>1, <1>13 DEF IsFirst
    <3>3. QED
      BY <3>2, <1>13
  <2>2. CASE ~(promises[r][n].at < promises[r][f].at)
    <3>1. Earlier(r, f, n)
      BY <2>2, <1>2, <1>13, <1>14, <1>12 DEF Earlier
    <3>2. IsFirst(r, Q, f)
      BY <3>1, <1>12, <1>13 DEF IsFirst
    <3>3. QED
      BY <3>2, <1>12, <1>13
  <2>3. QED
    BY <2>1, <2>2
<1>17. QED
  BY <1>6, <1>15, <1>16

\* What a run that has promises of its step reads in advance.
LEMMA LastIsCurrent ==
  ASSUME TypeOK, NEW r \in Runs, Current(r) # {}
  PROVE  /\ Latest(r) \in Current(r) /\ Latest(r) \in DOMAIN promises[r]
         /\ Last(r) \in Promise
<1>1. Current(r) \in SUBSET (DOMAIN promises[r])
  BY DEF Current
<1>2. \E i \in Current(r) : IsLast(r, Current(r), i)
  BY <1>1, EndsExist
<1>3. Latest(r) \in Current(r)
  BY <1>2 DEF IsLast, Latest
<1>4. Latest(r) \in DOMAIN promises[r] /\ promises[r] \in Seq(Promise)
  BY <1>1, <1>3 DEF TypeOK
<1>5. QED
  BY <1>3, <1>4 DEF Last

\* What the first wake that rang leaves until SEND_DEADLINE is a number.
LEMMA DeadlineIsAnInstant ==
  ASSUME TypeOK, NEW r \in Runs, Current(r) # {}, ~Unrung(r)
  PROVE  Deadline(r) \in Nat
<1>1. Latest(r) \in Current(r) /\ Last(r).rang # Never
  BY LastIsCurrent DEF Unrung
<1>2. Rung(r) # {} /\ Rung(r) \in SUBSET (DOMAIN promises[r])
  BY <1>1 DEF Rung, Last, Current
<1>3. \E i \in Rung(r) : IsFirst(r, Rung(r), i)
  BY <1>2, EndsExist
<1>. DEFINE f == CHOOSE i \in Rung(r) : \A j \in Rung(r) \ {i} : Earlier(r, i, j)
<1>4. f \in Rung(r)
  BY <1>3 DEF IsFirst
<1>5. f \in DOMAIN promises[r] /\ promises[r] \in Seq(Promise)
  BY <1>2, <1>4 DEF TypeOK
<1>6. promises[r][f] \in Promise
  BY <1>5
<1>7. FirstWake(r) = promises[r][f].rang
  BY DEF FirstWake
<1>8. FirstWake(r) \in Nat
  BY <1>6, <1>7, NeverIsLate DEF Promise, Instants, TypeOK
<1>9. QED
  BY <1>8, SequenceRunsAssumption DEF Deadline

-----------------------------------------------------------------------------
(* Types                                                                   *)

\* now + anything is an instant.
LEMMA Constants ==
  /\ MaxReplays \in Nat /\ MaxTouches \in Nat /\ SendDeadline \in Nat /\ WakePoll \in Nat
  /\ Overnight \in Nat /\ Ceiling \in Nat /\ MaxTime \in Nat /\ MaxMishaps \in Nat
  /\ MaxActs \in Nat /\ Len(Program) \in Nat /\ Len(Program) >= 1
<1>. DEFINE S == [kind : {"email", "wait", "branch"}, hours : Nat, then : Nat, otherwise : Nat]
<1>1. Program \in Seq(S) /\ Program # <<>>
  BY SequenceRunsAssumption
<1>. HIDE DEF S
<1>2. Len(Program) \in Nat /\ Len(Program) # 0
  BY <1>1, EmptySeq
<1>3. QED
  BY <1>2, SequenceRunsAssumption

\* A step of the program leads to a step or to its end.
LEMMA StepsAreTyped ==
  ASSUME NEW i \in DOMAIN Program
  PROVE  /\ i \in 1..Len(Program) /\ Program[i].hours \in Nat
         /\ Program[i].then \in 1..(Len(Program) + 1)
         /\ Program[i].otherwise \in 1..(Len(Program) + 1)
<1>. DEFINE S == [kind : {"email", "wait", "branch"}, hours : Nat, then : Nat, otherwise : Nat]
<1>11. Program \in Seq(S)
  BY SequenceRunsAssumption
<1>. HIDE DEF S
<1>2. i \in 1..Len(Program)
  BY <1>11
<1>12. Program[i] \in S
  BY <1>11, <1>2
<1>1. Program[i] \in [kind : {"email", "wait", "branch"}, hours : Nat, then : Nat, otherwise : Nat]
  BY <1>12 DEF S
<1>3. {Program[i].then, Program[i].otherwise} \subseteq 1..(Len(Program) + 1)
  BY SequenceRunsAssumption
<1>4. QED
  BY <1>1, <1>2, <1>3

\* Stop, Goto and Book write rows of the right shape.
LEMMA StopIsTyped ==
  ASSUME run \in [Runs -> Position], NEW r \in Runs, NEW s \in States, NEW why \in Reasons,
         clock \in 0..MaxTime, Stop(r, s, why)
  PROVE  run' \in [Runs -> Position]
<1>1. Never \in Nat
  BY NeverIsLate
<1>2. QED
  BY <1>1 DEF Stop, Position

\* Goto, for a step of the program.
LEMMA GotoIsTyped ==
  ASSUME run \in [Runs -> Position], NEW r \in Runs, NEW s \in 1..(Len(Program) + 1),
         NEW at \in Nat, Goto(r, s, at)
  PROVE  run' \in [Runs -> Position]
BY DEF Goto, Position

\* Book, for a natural instant.
LEMMA BookIsTyped ==
  ASSUME TypeOK, NEW r \in Runs, NEW at \in Nat, Book(r, at)
  PROVE  /\ promises' \in [Runs -> Seq(Promise)]
         /\ writers' \in [Runs -> Nat] /\ held' \subseteq Runs /\ behind' \subseteq Runs
<1>. DEFINE p == [at |-> at, rang |-> Never, threaded |-> run[r].threaded,
                  outcome |-> "null", heard |-> "nothing"]
<1>1. Never \in Instants
  BY NeverIsLate DEF TypeOK, Instants
<1>2. run[r].threaded \in BOOLEAN
  BY DEF TypeOK, Position
<1>3. p \in Promise
  BY <1>1, <1>2 DEF Promise
<1>4. promises' = [promises EXCEPT ![r] = Append(promises[r], p)]
  BY DEF Book
<1>5. promises[r] \in Seq(Promise) /\ promises \in [Runs -> Seq(Promise)]
  BY DEF TypeOK
<1>. HIDE DEF p
<1>6. Append(promises[r], p) \in Seq(Promise)
  BY <1>3, <1>5
<1>7. promises' \in [Runs -> Seq(Promise)]
  BY <1>4, <1>5, <1>6
<1>8. QED
  BY <1>7 DEF Book, TypeOK

\* The instant of a replay.
LEMMA AgainIsAnInstant ==
  ASSUME TypeOK, NEW l \in Loops, NEW r \in Runs, Settles(l, r)
  PROVE  Again(l, r) \in Nat
<1>1. Current(r) # {}
  BY DEF Settles, Open, Judges
<1>2. Last(r).rang \in Nat
  <2>1. Last(r).rang \in Instants
    BY <1>1, LastIsCurrent DEF Promise
  <2>2. QED
    BY <2>1, NeverIsLate DEF TypeOK, Instants
<1>3. now[l] \in Nat /\ Never \in Nat
  BY NeverIsLate, Constants DEF TypeOK
<1>4. now[l] + Overnight \in Nat /\ Last(r).rang + Ceiling \in Nat
  BY <1>2, <1>3, Constants
<1>5. Again(l, r) \in {now[l] + Overnight, now[l], Last(r).rang + Ceiling, Never}
  BY DEF Again
<1>6. QED
  BY <1>3, <1>4, <1>5

\* Every advance strikes its run off a list.
LEMMA TakesIsTyped ==
  ASSUME TypeOK, NEW l \in Loops, NEW r \in Runs, Takes(l, r)
  PROVE  /\ listed' \in [Loops -> SUBSET Runs] /\ now' \in [Loops -> 0..MaxTime]
         /\ now[l] \in 0..MaxTime /\ now[l] \in Nat
<1>1. 0 \in 0..MaxTime
  BY Constants
<1>2. QED
  BY <1>1, Constants DEF Takes, TypeOK

\* advance keeps the types, in each of its branches.
LEMMA AdvanceIsTyped ==
  ASSUME TypeOK, NEW l \in Loops, NEW r \in Runs, Advance(l, r)
  PROVE  TypeOK'
<1>1. Takes(l, r)
  BY DEF Advance, LeftAsItIs, Moves, Leave, FirstPromise, StillToRing, Overdue, TurnGoesOn,
         Declined, LetterIsHeld, NoCharter, Replay, GiveUp, Settles, Open, Judges, Writes
<1>2. /\ listed' \in [Loops -> SUBSET Runs] /\ now' \in [Loops -> 0..MaxTime]
      /\ now[l] \in 0..MaxTime /\ now[l] \in Nat
  BY <1>1, TakesIsTyped
<1>3. run[r] \in Position /\ run[r].step \in 1..(Len(Program) + 1) /\ run \in [Runs -> Position]
  BY DEF TypeOK, Position
<1>4. clock \in 0..MaxTime /\ writers \in [Runs -> Nat] /\ held \subseteq Runs /\ behind \subseteq Runs
      /\ promises \in [Runs -> Seq(Promise)]
  BY DEF TypeOK
<1>5. now[l] + WakePoll \in Nat
  BY <1>2, Constants
<1>. SUFFICES /\ run' \in [Runs -> Position] /\ promises' \in [Runs -> Seq(Promise)]
              /\ writers' \in [Runs -> Nat] /\ held' \subseteq Runs /\ behind' \subseteq Runs
  BY <1>1, <1>2 DEF Takes, TypeOK, world, hands, bounds
<1>6. CASE LeftAsItIs(l, r)
  BY <1>3, <1>4, <1>6 DEF LeftAsItIs, rows, history
<1>7. CASE Moves(l, r)
  <2>1. Kind(r) # "end" => run[r].step \in DOMAIN Program
    BY DEF Kind
  <2>2. CASE Kind(r) = "end" /\ Stop(r, "done", "none")
    BY <2>2, <1>3, <1>4, StopIsTyped, <1>7 DEF Moves, Afresh, States, Reasons
  <2>3. CASE Kind(r) = "wait" /\ Goto(r, run[r].step + 1, now[l] + Step(r).hours)
    <3>1. run[r].step \in 1..Len(Program) /\ Step(r).hours \in Nat
      BY <2>1, <2>3, StepsAreTyped DEF Step
    <3>2. run[r].step + 1 \in 1..(Len(Program) + 1) /\ now[l] + Step(r).hours \in Nat
      BY <3>1, <1>2, Constants
    <3>3. run' \in [Runs -> Position]
      BY <3>2, <2>3, <1>3, GotoIsTyped
    <3>4. QED
      BY <3>3, <1>4, <1>7 DEF Moves, Afresh
  <2>4. CASE Kind(r) = "branch" /\ Goto(r, Target(r), now[l])
    <3>1. Target(r) \in 1..(Len(Program) + 1)
      BY <2>1, <2>4, StepsAreTyped DEF Target, Step
    <3>2. run' \in [Runs -> Position]
      BY <3>1, <2>4, <1>2, <1>3, GotoIsTyped
    <3>3. QED
      BY <3>2, <1>4, <1>7 DEF Moves, Afresh
  <2>5. QED
    BY <2>2, <2>3, <2>4, <1>7 DEF Moves
<1>8. CASE \/ Leave(l, r) \/ Overdue(l, r) \/ Declined(l, r) \/ GiveUp(l, r)
  <2>1. \E why \in Reasons : Stop(r, "stopped", why)
    BY <1>8 DEF Leave, Overdue, Declined, GiveUp, Reasons
  <2>2. run' \in [Runs -> Position]
    BY <2>1, <1>3, <1>4, StopIsTyped DEF States
  <2>3. QED
    BY <2>2, <1>4, <1>8 DEF Leave, Overdue, Declined, GiveUp, BooksNothing, history
<1>9. CASE FirstPromise(l, r)
  <2>1. Book(r, now[l]) /\ Goto(r, run[r].step, now[l] + WakePoll)
    BY <1>9 DEF FirstPromise
  <2>2. QED
    BY <2>1, <1>2, <1>3, <1>5, BookIsTyped, GotoIsTyped
<1>10. CASE StillToRing(l, r)
  <2>1. Goto(r, run[r].step, now[l] + WakePoll)
    BY <1>10 DEF StillToRing
  <2>2. QED
    BY <2>1, <1>3, <1>4, <1>5, <1>10, GotoIsTyped DEF StillToRing, BooksNothing, history
<1>11. CASE TurnGoesOn(l, r) \/ LetterIsHeld(l, r) \/ NoCharter(l, r)
  <2>1. PollAgain(l, r) /\ Current(r) # {} /\ ~Unrung(r)
    BY <1>11 DEF TurnGoesOn, LetterIsHeld, NoCharter, Settles, Open, Judges
  <2>2. Earliest(now[l] + WakePoll, Deadline(r)) \in Nat
    BY <2>1, <1>5, DeadlineIsAnInstant DEF Earliest
  <2>3. run' \in [Runs -> Position]
    BY <2>1, <2>2, <1>3, GotoIsTyped DEF PollAgain
  <2>4. QED
    BY <2>3, <1>4, <1>11 DEF TurnGoesOn, LetterIsHeld, NoCharter, BooksNothing, history
<1>12. CASE Replay(l, r)
  <2>1. Settles(l, r) /\ Book(r, Again(l, r)) /\ Goto(r, run[r].step, Again(l, r) + WakePoll)
    BY <1>12 DEF Replay
  <2>2. Again(l, r) \in Nat
    BY <2>1, AgainIsAnInstant
  <2>3. Again(l, r) + WakePoll \in Nat
    BY <2>2, Constants
  <2>4. QED
    BY <2>1, <2>2, <2>3, <1>3, BookIsTyped, GotoIsTyped
<1>13. QED
  BY <1>6, <1>7, <1>8, <1>9, <1>10, <1>11, <1>12 DEF Advance

\* A row of promises[r] that is written keeps its shape.
LEMMA PromiseIsTyped ==
  ASSUME TypeOK, NEW r \in Runs, NEW i \in DOMAIN promises[r]
  PROVE  /\ promises[r][i] \in Promise /\ promises[r] \in Seq(Promise)
         /\ i \in Nat /\ Len(promises[r]) \in Nat /\ DOMAIN promises[r] = 1..Len(promises[r])
BY DEF TypeOK

\* Rewriting the rows of a run one by one.
LEMMA RowsAreTyped ==
  ASSUME TypeOK, NEW r \in Runs, NEW s,
         s \in [DOMAIN promises[r] -> Promise],
         promises' = [promises EXCEPT ![r] = s]
  PROVE  promises' \in [Runs -> Seq(Promise)]
<1>1. promises[r] \in Seq(Promise) /\ promises \in [Runs -> Seq(Promise)]
  BY DEF TypeOK
<1>2. DOMAIN promises[r] = 1..Len(promises[r]) /\ Len(promises[r]) \in Nat
  BY <1>1
<1>3. s \in Seq(Promise)
  BY <1>2, IsASeq
<1>4. QED
  BY <1>1, <1>3

\* sent keeps the types, of the run and of its history.
LEMMA SentIsTyped ==
  ASSUME TypeOK, NEW r \in Runs, Sent(r)
  PROVE  /\ run' \in [Runs -> Position] /\ opened' \subseteq Runs /\ clock' \in 0..MaxTime
         /\ writers' \in [Runs -> Nat] /\ held' \subseteq Runs /\ behind' \subseteq Runs
<1>1. run[r] \in Position /\ run \in [Runs -> Position] /\ clock \in 0..MaxTime
  BY DEF TypeOK
<1>2. run[r].step \in 1..(Len(Program) + 1) /\ run[r].touches \in Nat
  BY <1>1 DEF Position
<1>3. Earliest(run[r].step + 1, Len(Program) + 1) \in 1..(Len(Program) + 1)
  BY <1>2, Constants DEF Earliest
<1>4. run[r].touches + 1 \in Nat /\ clock \in Nat /\ clock + 1 \in Nat
  BY <1>1, <1>2, Constants
<1>. DEFINE moved == [run[r] EXCEPT !.step = Earliest(run[r].step + 1, Len(Program) + 1),
                        !.sentAt = clock, !.nextAt = clock, !.threaded = TRUE,
                        !.touches = run[r].touches + 1]
            stays == [run[r] EXCEPT !.touches = run[r].touches + 1]
<1>5. moved \in Position /\ stays \in Position
  BY <1>1, <1>3, <1>4 DEF Position
<1>6. run' = [run EXCEPT ![r] = IF Awaited(r) THEN moved ELSE stays]
  BY DEF Sent
<1>. HIDE DEF moved, stays
<1>7. run' \in [Runs -> Position]
  BY <1>1, <1>5, <1>6
<1>8. clock' \in 0..MaxTime
  BY <1>1, Constants DEF Sent
<1>9. writers' \in [Runs -> Nat] /\ held' = held /\ behind' = behind
  <2>1. CASE Awaited(r)
    <3>1. writers' = [writers EXCEPT ![r] = 0] /\ UNCHANGED <<held, behind>>
      BY <2>1 DEF Sent, Afresh
    <3>2. writers \in [Runs -> Nat] /\ 0 \in Nat
      BY DEF TypeOK
    <3>3. QED
      BY <3>1, <3>2
  <2>2. CASE ~Awaited(r)
    BY <2>2 DEF Sent, TypeOK, history
  <2>3. QED
    BY <2>1, <2>2
<1>10. opened' \subseteq Runs
  BY DEF Sent, TypeOK
<1>11. QED
  BY <1>7, <1>8, <1>9, <1>10 DEF TypeOK

\* A turn that goes on keeps its promise.
LEMMA StageIsTyped ==
  ASSUME TypeOK, NEW r \in Runs, NEW to \in Stages, Stage(r, to)
  PROVE  turn' \in [Runs -> [i : Nat, stage : Stages]]
<1>1. turn[r] \in [i : Nat, stage : Stages]
  BY DEF TypeOK
<1>2. [turn[r] EXCEPT !.stage = to] \in [i : Nat, stage : Stages]
  BY <1>1
<1>3. turn' = [turn EXCEPT ![r] = [turn[r] EXCEPT !.stage = to]]
  BY DEF Stage
<1>4. QED
  BY <1>2, <1>3 DEF TypeOK

\* Every step keeps the types.
LEMMA TypesStep ==
  ASSUME TypeOK, [Next]_vars
  PROVE  TypeOK'
<1>. USE DEF rows, world, hands, loops, history, bounds
<1>1. CASE UNCHANGED vars
  BY <1>1 DEF vars, TypeOK
<1>2. ASSUME NEW l \in Loops, Tick(l) PROVE TypeOK'
  BY <1>2 DEF Tick, TypeOK
<1>3. ASSUME NEW l \in Loops, NEW r \in Runs, Advance(l, r) PROVE TypeOK'
  BY <1>3, AdvanceIsTyped
<1>4. ASSUME NEW r \in Runs, NEW i \in DOMAIN promises[r], Ring(r, i) PROVE TypeOK'
  <2>1. promises[r][i] \in Promise /\ clock \in Instants /\ i \in Nat
    BY <1>4, PromiseIsTyped, NeverIsLate DEF TypeOK
  <2>. DEFINE s == [promises[r] EXCEPT ![i].rang = clock]
  <2>2. s \in [DOMAIN promises[r] -> Promise]
    <3>1. [promises[r][i] EXCEPT !.rang = clock] \in Promise
      BY <2>1 DEF Promise
    <3>2. promises[r] \in [DOMAIN promises[r] -> Promise]
      BY PromiseIsTyped DEF TypeOK
    <3>3. QED
      BY <3>1, <3>2
  <2>3. promises' = [promises EXCEPT ![r] = s]
    BY <1>4 DEF Ring, TypeOK
  <2>. HIDE DEF s
  <2>4. promises' \in [Runs -> Seq(Promise)]
    BY <2>2, <2>3, RowsAreTyped
  <2>5. turn' \in [Runs -> [i : Nat, stage : Stages]]
    BY <2>1, <1>4 DEF Ring, TypeOK, Stages
  <2>6. QED
    BY <2>4, <2>5, <1>4 DEF Ring, TypeOK
<1>5. ASSUME NEW r \in Runs, Send(r) PROVE TypeOK'
  <2>1. turn' \in [Runs -> [i : Nat, stage : Stages]]
    BY <1>5, StageIsTyped DEF Send, Stages
  <2>11. writers' \in [Runs -> Nat]
    <3>1. writers' = [writers EXCEPT ![r] = writers[r] + 1] \/ UNCHANGED writers
      BY <1>5 DEF Send
    <3>2. writers \in [Runs -> Nat] /\ writers[r] + 1 \in Nat
      BY DEF TypeOK
    <3>3. QED
      BY <3>1, <3>2
  <2>2. QED
    BY <2>1, <2>11, <1>5 DEF Send, TypeOK
<1>6. ASSUME NEW r \in Runs, HoldsBack(r) PROVE TypeOK'
  <2>1. turn' \in [Runs -> [i : Nat, stage : Stages]]
    BY <1>6, StageIsTyped DEF HoldsBack, Stages
  <2>2. CASE /\ review' = [review EXCEPT ![r] = [state |-> "pending", wake |-> turn[r].i]]
             /\ held' = held \cup {r}
             /\ UNCHANGED promises
    <3>1. [state |-> "pending", wake |-> turn[r].i] \in Letter
      BY DEF TypeOK, Letter
    <3>2. review' \in [Runs -> Letter]
      BY <3>1, <2>2 DEF TypeOK
    <3>3. QED
      BY <2>1, <2>2, <3>2, <1>6 DEF HoldsBack, TypeOK
  <2>3. CASE /\ \E what \in {"question", "refusal"} :
                  promises' = [promises EXCEPT ![r][turn[r].i].heard = Hears(r, what)]
             /\ UNCHANGED <<review, held>>
    <3>1. PICK what \in {"question", "refusal"} :
             promises' = [promises EXCEPT ![r][turn[r].i].heard = what]
      BY <2>3 DEF Hears
    <3>. DEFINE s == [promises[r] EXCEPT ![turn[r].i].heard = what]
    <3>2. s \in [DOMAIN promises[r] -> Promise]
      <4>1. ASSUME NEW j \in DOMAIN promises[r] PROVE s[j] \in Promise
        <5>1. promises[r][j] \in Promise
          BY PromiseIsTyped
        <5>2. [promises[r][j] EXCEPT !.heard = what] \in Promise
          BY <5>1 DEF Promise, Outcomes
        <5>3. s[j] = IF j = turn[r].i THEN [promises[r][j] EXCEPT !.heard = what]
                     ELSE promises[r][j]
          OBVIOUS
        <5>4. QED
          BY <5>1, <5>2, <5>3
      <4>2. QED
        BY <4>1
    <3>3. promises' = [promises EXCEPT ![r] = s]
      BY <3>1 DEF TypeOK
    <3>. HIDE DEF s
    <3>4. promises' \in [Runs -> Seq(Promise)]
      BY <3>2, <3>3, RowsAreTyped
    <3>5. QED
      BY <2>1, <2>3, <3>4, <1>6 DEF HoldsBack, TypeOK
  <2>4. QED
    BY <2>2, <2>3, <1>6 DEF HoldsBack
<1>7. ASSUME NEW r \in Runs, Chase(r) PROVE TypeOK'
  <2>1. turn' \in [Runs -> [i : Nat, stage : Stages]]
    BY <1>7, StageIsTyped DEF Chase, Stages
  <2>2. CASE Sent(r) /\ UNCHANGED bounds
    BY <2>1, <2>2, <1>7, SentIsTyped DEF Chase, Sent, TypeOK
  <2>3. CASE Mishap /\ UNCHANGED <<clock, rows, world, leaving, loops, history>>
    <3>1. mishaps' \in 0..MaxMishaps
      BY <2>3, Constants DEF Mishap, TypeOK
    <3>2. QED
      BY <2>1, <2>3, <3>1, <1>7 DEF Chase, Mishap, TypeOK
  <2>4. QED
    BY <2>2, <2>3, <1>7 DEF Chase
<1>8. ASSUME NEW r \in Runs, Ends(r) PROVE TypeOK'
  <2>1. turn' \in [Runs -> [i : Nat, stage : Stages]]
    BY <1>8 DEF Ends, Asleep, TypeOK, Stages
  <2>2. CASE /\ \E o \in Outcomes : promises' = [promises EXCEPT ![r][turn[r].i].outcome = o]
             /\ UNCHANGED bounds
    <3>1. PICK o \in Outcomes : promises' = [promises EXCEPT ![r][turn[r].i].outcome = o]
      BY <2>2
    <3>. DEFINE s == [promises[r] EXCEPT ![turn[r].i].outcome = o]
    <3>2. s \in [DOMAIN promises[r] -> Promise]
      <4>1. ASSUME NEW j \in DOMAIN promises[r] PROVE s[j] \in Promise
        <5>1. promises[r][j] \in Promise
          BY PromiseIsTyped
        <5>2. [promises[r][j] EXCEPT !.outcome = o] \in Promise
          BY <5>1 DEF Promise, Outcomes
        <5>3. s[j] = IF j = turn[r].i THEN [promises[r][j] EXCEPT !.outcome = o]
                     ELSE promises[r][j]
          OBVIOUS
        <5>4. QED
          BY <5>1, <5>2, <5>3
      <4>2. QED
        BY <4>1
    <3>3. promises' = [promises EXCEPT ![r] = s]
      BY <3>1 DEF TypeOK
    <3>. HIDE DEF s
    <3>4. promises' \in [Runs -> Seq(Promise)]
      BY <3>2, <3>3, RowsAreTyped
    <3>5. QED
      BY <2>1, <2>2, <3>4, <1>8 DEF Ends, TypeOK
  <2>3. CASE Mishap /\ UNCHANGED promises
    <3>1. mishaps' \in 0..MaxMishaps
      BY <2>3, Constants DEF Mishap, TypeOK
    <3>2. QED
      BY <2>1, <2>3, <3>1, <1>8 DEF Ends, Mishap, TypeOK
  <2>4. QED
    BY <2>2, <2>3, <1>8 DEF Ends
<1>9. ASSUME Act PROVE acts' \in 0..MaxActs /\ mishaps' \in 0..MaxMishaps
  BY <1>9, Constants DEF Act, TypeOK
<1>10. ASSUME NEW r \in Runs, Decide(r, "redeemed") \/ Decide(r, "denied") PROVE TypeOK'
  <2>1. review' \in [Runs -> Letter]
    <3>1. review[r] \in Letter
      BY DEF TypeOK
    <3>2. [review[r] EXCEPT !.state = "redeemed"] \in Letter
          /\ [review[r] EXCEPT !.state = "denied"] \in Letter
      BY <3>1 DEF Letter
    <3>3. review' = [review EXCEPT ![r] = [review[r] EXCEPT !.state = "redeemed"]]
          \/ review' = [review EXCEPT ![r] = [review[r] EXCEPT !.state = "denied"]]
      BY <1>10 DEF Decide
    <3>4. QED
      BY <3>2, <3>3 DEF TypeOK
  <2>2. QED
    BY <2>1, <1>9, <1>10 DEF Decide, TypeOK
<1>11. ASSUME NEW r \in Runs, Deliver(r) PROVE TypeOK'
  <2>1. review' \in [Runs -> Letter] /\ writers' \in [Runs -> Nat]
    <3>1. review[r] \in Letter
      BY DEF TypeOK
    <3>2. [review[r] EXCEPT !.state = "left"] \in Letter /\ NoLetter \in Letter
      BY <3>1 DEF Letter, NoLetter
    <3>3. review' = [review EXCEPT ![r] = [review[r] EXCEPT !.state = "left"]]
          \/ review' = [review EXCEPT ![r] = NoLetter]
      BY <1>11 DEF Deliver
    <3>4. review' \in [Runs -> Letter]
      BY <3>2, <3>3 DEF TypeOK
    <3>5. QED
      <4>1. writers' = [writers EXCEPT ![r] = writers[r] + 1] \/ UNCHANGED writers
        BY <1>11 DEF Deliver
      <4>2. writers \in [Runs -> Nat] /\ writers[r] + 1 \in Nat
        BY DEF TypeOK
      <4>3. QED
        BY <3>4, <4>1, <4>2
  <2>2. mishaps' \in 0..MaxMishaps /\ acts' \in 0..MaxActs
    BY <1>11, Constants DEF Deliver, Mishap, TypeOK
  <2>3. QED
    BY <2>1, <2>2, <1>11 DEF Deliver, TypeOK
<1>12. ASSUME NEW r \in Runs, ChaseApproved(r) PROVE TypeOK'
  <2>1. review' \in [Runs -> Letter]
    BY <1>12 DEF ChaseApproved, TypeOK, Letter, NoLetter
  <2>2. CASE Sent(r) /\ UNCHANGED bounds
    BY <2>1, <2>2, <1>12, SentIsTyped DEF ChaseApproved, Sent, TypeOK
  <2>3. CASE Mishap /\ UNCHANGED <<clock, rows, world, leaving, loops, history>>
    <3>1. mishaps' \in 0..MaxMishaps
      BY <2>3, Constants DEF Mishap, TypeOK
    <3>2. QED
      BY <2>1, <2>3, <3>1, <1>12 DEF ChaseApproved, Mishap, TypeOK
  <2>4. QED
    BY <2>2, <2>3, <1>12 DEF ChaseApproved
<1>13. ASSUME NEW r \in Runs, Replied(r) PROVE TypeOK'
  <2>1. run' \in [Runs -> Position]
    BY <1>13, StopIsTyped DEF Replied, TypeOK, States, Reasons
  <2>. DEFINE s == [i \in DOMAIN promises[r] |->
                     IF ToCome(r, i) /\ promises[r][i].threaded
                     THEN [promises[r][i] EXCEPT !.rang = clock, !.outcome = "cancelled"]
                     ELSE promises[r][i]]
  <2>2. clock \in Instants
    BY NeverIsLate DEF TypeOK
  <2>3. s \in [DOMAIN promises[r] -> Promise]
    <3>1. ASSUME NEW j \in DOMAIN promises[r] PROVE s[j] \in Promise
      <4>1. promises[r][j] \in Promise
        BY PromiseIsTyped
      <4>2. [promises[r][j] EXCEPT !.rang = clock, !.outcome = "cancelled"] \in Promise
        BY <2>2, <4>1 DEF Promise, Outcomes
      <4>3. QED
        BY <4>1, <4>2
    <3>2. QED
      BY <3>1
  <2>4. promises' = [promises EXCEPT ![r] = s]
    BY <1>13 DEF Replied
  <2>. HIDE DEF s
  <2>5. promises' \in [Runs -> Seq(Promise)]
    BY <2>3, <2>4, RowsAreTyped
  <2>6. QED
    BY <2>1, <2>5, <1>9, <1>13 DEF Replied, TypeOK
<1>14. ASSUME NEW r \in Runs, UnenrollReads(r) PROVE TypeOK'
  BY <1>9, <1>14 DEF UnenrollReads, TypeOK
<1>15. ASSUME NEW r \in Runs, Unenroll(r) PROVE TypeOK'
  <2>1. run' \in [Runs -> Position]
    BY <1>15, StopIsTyped DEF Unenroll, TypeOK, States, Reasons
  <2>. DEFINE s == [i \in DOMAIN promises[r] |->
                     IF promises[r][i].rang = Never
                     THEN [promises[r][i] EXCEPT !.rang = clock,
                             !.outcome = IF ToCome(r, i) THEN "cancelled" ELSE "no_work"]
                     ELSE promises[r][i]]
  <2>2. clock \in Instants
    BY NeverIsLate DEF TypeOK
  <2>3. s \in [DOMAIN promises[r] -> Promise]
    <3>1. ASSUME NEW j \in DOMAIN promises[r] PROVE s[j] \in Promise
      <4>1. promises[r][j] \in Promise
        BY PromiseIsTyped
      <4>2. [promises[r][j] EXCEPT !.rang = clock, !.outcome = IF ToCome(r, j) THEN "cancelled" ELSE "no_work"] \in Promise
        BY <2>2, <4>1 DEF Promise, Outcomes
      <4>3. QED
        BY <4>1, <4>2
    <3>2. QED
      BY <3>1
  <2>4. promises' = [promises EXCEPT ![r] = s]
    BY <1>15 DEF Unenroll
  <2>. HIDE DEF s
  <2>5. promises' \in [Runs -> Seq(Promise)]
    BY <2>3, <2>4, RowsAreTyped
  <2>6. QED
    BY <2>1, <2>5, <1>15 DEF Unenroll, TypeOK
<1>16. ASSUME NEW r \in Runs, Suppress(r) \/ Seen(r) PROVE TypeOK'
  BY <1>9, <1>16 DEF Suppress, Seen, TypeOK
<1>17. CASE PutCharter
  BY <1>9, <1>17 DEF PutCharter, TypeOK
<1>18. CASE Elapse
  BY <1>18, Constants DEF Elapse, TypeOK
<1>19. QED
  BY <1>1, <1>2, <1>3, <1>4, <1>5, <1>6, <1>7, <1>8, <1>10, <1>11, <1>12, <1>13, <1>14,
     <1>15, <1>16, <1>17, <1>18 DEF Next

-----------------------------------------------------------------------------
(* A step is a step of one run                                             *)

RunStep(r) ==
  \/ \E l \in Loops : Advance(l, r)
  \/ \E i \in DOMAIN promises[r] : Ring(r, i)
  \/ Send(r) \/ HoldsBack(r) \/ Chase(r) \/ Ends(r)
  \/ Decide(r, "redeemed") \/ Decide(r, "denied") \/ Deliver(r) \/ ChaseApproved(r)
  \/ Replied(r) \/ UnenrollReads(r) \/ Unenroll(r)
  \/ Suppress(r) \/ Seen(r)

\* What the invariants read of a run is as it was.
Same(q) ==
  /\ run'[q] = run[q] /\ promises'[q] = promises[q]
  /\ turn'[q] = turn[q] /\ review'[q] = review[q] /\ writers'[q] = writers[q]
  /\ q \in held' <=> q \in held
  /\ q \in behind' <=> q \in behind

\* advance leaves alone every other run, and one that has ended.
LEMMA AdvanceOfOther ==
  ASSUME TypeOK, NEW l \in Loops, NEW r \in Runs, Advance(l, r),
         NEW q \in Runs, q # r \/ ~Active(r)
  PROVE  Same(q)
<1>. USE DEF rows, world, hands, loops, history, bounds, Same
<1>1. run \in [Runs -> Position] /\ promises \in [Runs -> Seq(Promise)] /\ writers \in [Runs -> Nat]
  BY DEF TypeOK
<1>2. CASE LeftAsItIs(l, r)
  BY <1>2 DEF LeftAsItIs, Takes
<1>3. CASE ~LeftAsItIs(l, r)
  <2>1. Takes(l, r) /\ Active(r)
    BY <1>3 DEF Advance, Moves, Leave, FirstPromise, StillToRing, Overdue, TurnGoesOn,
           Declined, LetterIsHeld, NoCharter, Replay, GiveUp, Settles, Open, Judges, Writes
  <2>2. q # r /\ turn' = turn /\ review' = review
    BY <2>1 DEF Takes
  <2>3. CASE Moves(l, r)
    <3>1. run'[q] = run[q]
      BY <2>2, <2>3, <1>1 DEF Moves, Stop, Goto
    <3>2. QED
      BY <2>2, <2>3, <3>1, <1>1 DEF Moves, Afresh
  <2>4. CASE Leave(l, r) \/ Overdue(l, r) \/ Declined(l, r) \/ GiveUp(l, r)
    BY <2>2, <2>4, <1>1 DEF Leave, Overdue, Declined, GiveUp, Stop, BooksNothing
  <2>5. CASE StillToRing(l, r) \/ TurnGoesOn(l, r) \/ LetterIsHeld(l, r) \/ NoCharter(l, r)
    BY <2>2, <2>5, <1>1 DEF StillToRing, TurnGoesOn, LetterIsHeld, NoCharter, PollAgain, Goto,
           BooksNothing
  <2>6. CASE FirstPromise(l, r) \/ Replay(l, r)
    <3>1. PICK at : Book(r, at)
      BY <2>6 DEF FirstPromise, Replay
    <3>2. run'[q] = run[q]
      BY <2>2, <2>6, <1>1 DEF FirstPromise, Replay, Goto
    <3>3. promises'[q] = promises[q] /\ writers' = writers /\ held' = held
          /\ (q \in behind' <=> q \in behind)
      BY <2>2, <3>1, <1>1 DEF Book
    <3>4. QED
      BY <2>2, <3>2, <3>3
  <2>7. QED
    BY <1>3, <2>3, <2>4, <2>5, <2>6 DEF Advance
<1>4. QED
  BY <1>2, <1>3

\* sent leaves alone every other run.
LEMMA SentOfOther ==
  ASSUME TypeOK, NEW r \in Runs, Sent(r), NEW q \in Runs \ {r}
  PROVE  /\ run'[q] = run[q] /\ promises'[q] = promises[q] /\ writers'[q] = writers[q]
         /\ held' = held /\ behind' = behind
<1>1. run \in [Runs -> Position] /\ writers \in [Runs -> Nat]
  BY DEF TypeOK
<1>2. writers'[q] = writers[q] /\ held' = held /\ behind' = behind
  <2>1. CASE Awaited(r)
    BY <2>1, <1>1 DEF Sent, Afresh
  <2>2. CASE ~Awaited(r)
    BY <2>2 DEF Sent, history
  <2>3. QED
    BY <2>1, <2>2
<1>. DEFINE new == IF Awaited(r)
       THEN [run[r] EXCEPT !.step = Earliest(run[r].step + 1, Len(Program) + 1),
                           !.sentAt = clock, !.nextAt = clock, !.threaded = TRUE,
                           !.touches = run[r].touches + 1]
       ELSE [run[r] EXCEPT !.touches = run[r].touches + 1]
<1>3. run' = [run EXCEPT ![r] = new]
  BY DEF Sent
<1>. HIDE DEF new
<1>4. run'[q] = run[q]
  BY <1>1, <1>3
<1>5. QED
  BY <1>2, <1>4 DEF Sent

\* Every step is of one run at most, and no mishap is undone.
LEMMA StepsOfOne ==
  ASSUME TypeOK, [Next]_vars
  PROVE  /\ mishaps' >= mishaps
         /\ \/ \A q \in Runs : Same(q)
            \/ \E r \in Runs : RunStep(r) /\ \A q \in Runs \ {r} : Same(q)
<1>. USE DEF rows, world, hands, loops, history, bounds
<1>1. mishaps \in Nat
  BY DEF TypeOK
<1>2. CASE UNCHANGED vars \/ (\E l \in Loops : Tick(l)) \/ PutCharter \/ Elapse
  BY <1>1, <1>2 DEF vars, Tick, PutCharter, Elapse, Act, Same
<1>3. ASSUME NEW r \in Runs, RunStep(r)
      PROVE  mishaps' >= mishaps /\ \A q \in Runs \ {r} : Same(q)
  <2>1. ASSUME NEW l \in Loops, Advance(l, r)
        PROVE  mishaps' >= mishaps /\ \A q \in Runs \ {r} : Same(q)
    <3>1. Takes(l, r)
      BY <2>1 DEF Advance, LeftAsItIs, Moves, Leave, FirstPromise, StillToRing, Overdue,
             TurnGoesOn, Declined, LetterIsHeld, NoCharter, Replay, GiveUp, Settles, Open,
             Judges, Writes
    <3>2. QED
      BY <2>1, <3>1, <1>1, AdvanceOfOther DEF Takes
  <2>2. ASSUME NEW i \in DOMAIN promises[r], Ring(r, i)
        PROVE  mishaps' >= mishaps /\ \A q \in Runs \ {r} : Same(q)
    BY <2>2, <1>1 DEF Ring, Same, TypeOK
  <2>3. CASE Send(r) \/ HoldsBack(r)
    BY <2>3, <1>1 DEF Send, HoldsBack, Stage, Same, TypeOK
  <2>4. CASE Chase(r) \/ ChaseApproved(r)
    <3>1. \A q \in Runs \ {r} : turn'[q] = turn[q] /\ review'[q] = review[q]
      BY <2>4 DEF Chase, ChaseApproved, Stage, TypeOK
    <3>2. CASE Sent(r) /\ UNCHANGED bounds
      BY <3>1, <3>2, <1>1, SentOfOther DEF Same
    <3>3. CASE Mishap /\ UNCHANGED <<clock, rows, world, leaving, loops, history>>
      BY <3>1, <3>3, <1>1 DEF Same, Mishap
    <3>4. QED
      BY <2>4, <3>2, <3>3 DEF Chase, ChaseApproved
  <2>5. CASE Ends(r)
    <3>1. mishaps' >= mishaps
      BY <2>5, <1>1 DEF Ends, Mishap
    <3>2. \A q \in Runs \ {r} : promises'[q] = promises[q] /\ turn'[q] = turn[q]
      <4>1. CASE \E o \in Outcomes : promises' = [promises EXCEPT ![r][turn[r].i].outcome = o]
        BY <2>5, <4>1 DEF Ends, TypeOK
      <4>2. CASE UNCHANGED promises
        BY <2>5, <4>2 DEF Ends, TypeOK
      <4>3. QED
        BY <2>5, <4>1, <4>2 DEF Ends
    <3>3. run' = run /\ review' = review /\ writers' = writers /\ held' = held /\ behind' = behind
      BY <2>5 DEF Ends
    <3>4. QED
      BY <3>1, <3>2, <3>3 DEF Same
  <2>6. CASE Decide(r, "redeemed") \/ Decide(r, "denied")
    BY <2>6, <1>1 DEF Decide, Act, Same, TypeOK
  <2>7. CASE Deliver(r)
    BY <2>7, <1>1 DEF Deliver, Mishap, Same, TypeOK
  <2>8. CASE Replied(r) \/ Unenroll(r)
    <3>1. mishaps' = mishaps
      <4>1. CASE Replied(r)
        BY <4>1 DEF Replied, Act
      <4>2. CASE Unenroll(r)
        BY <4>2 DEF Unenroll
      <4>3. QED
        BY <1>1, <2>8, <4>1, <4>2
    <3>2. \A q \in Runs \ {r} : run'[q] = run[q]
      BY <2>8 DEF Replied, Unenroll, Stop, TypeOK
    <3>3. \A q \in Runs \ {r} : promises'[q] = promises[q]
      BY <2>8 DEF Replied, Unenroll, TypeOK
    <3>4. turn' = turn /\ review' = review /\ writers' = writers /\ held' = held /\ behind' = behind
      BY <2>8 DEF Replied, Unenroll
    <3>5. QED
      BY <1>1, <3>1, <3>2, <3>3, <3>4 DEF Same
  <2>9. CASE UnenrollReads(r) \/ Suppress(r) \/ Seen(r)
    BY <2>9, <1>1 DEF UnenrollReads, Suppress, Seen, Act, Same
  <2>10. QED
    BY <1>3, <2>1, <2>2, <2>3, <2>4, <2>5, <2>6, <2>7, <2>8, <2>9 DEF RunStep
<1>4. QED
  <2>1. CASE \E r \in Runs : RunStep(r)
    BY <1>3, <2>1
  <2>2. CASE ~\E r \in Runs : RunStep(r)
    BY <1>2, <2>2 DEF Next, RunStep
  <2>3. QED
    BY <2>1, <2>2

-----------------------------------------------------------------------------
(* What has ended, and who was taken out                                   *)

\* A promise the turn holds has rung.
InHand(q) ==
  turn[q].stage # "asleep" =>
    turn[q].i \in DOMAIN promises[q] /\ promises[q][turn[q].i].rang # Never

Quiet(q) ==
  run[q].reason = "unenrolled" =>
    ~Active(q) /\ \A i \in DOMAIN promises[q] : promises[q][i].rang # Never

\* Rows are rewritten in place: what has rung stays so, hours stay.
Rewritten(r) ==
  /\ DOMAIN promises'[r] = DOMAIN promises[r] /\ Len(promises'[r]) = Len(promises[r])
  /\ \A i \in DOMAIN promises[r] :
       /\ promises'[r][i].at = promises[r][i].at
       /\ promises[r][i].rang # Never => promises'[r][i].rang # Never

\* Rewriting the rows of a run one for one.
LEMMA RewrittenBy ==
  ASSUME TypeOK, NEW r \in Runs, NEW s, DOMAIN s = DOMAIN promises[r],
         s \in [DOMAIN promises[r] -> Promise],
         promises' = [promises EXCEPT ![r] = s],
         \A i \in DOMAIN promises[r] :
           s[i].at = promises[r][i].at /\ (promises[r][i].rang # Never => s[i].rang # Never)
  PROVE  Rewritten(r) /\ promises'[r] = s
<1>1. promises \in [Runs -> Seq(Promise)] /\ promises[r] \in Seq(Promise)
  BY DEF TypeOK
<1>2. promises'[r] = s
  BY <1>1
<1>3. DOMAIN promises[r] = 1..Len(promises[r]) /\ Len(promises[r]) \in Nat
  BY <1>1
<1>4. s \in Seq(Promise)
  BY <1>3, IsASeq
<1>5. Len(s) = Len(promises[r])
  BY <1>3, <1>4, LenProperties
<1>6. QED
  BY <1>2, <1>5 DEF Rewritten

\* Ring: one promise rings.
LEMMA RingRewrites ==
  ASSUME TypeOK, NEW r \in Runs, NEW i \in DOMAIN promises[r], Ring(r, i)
  PROVE  /\ Rewritten(r) /\ promises'[r][i].rang # Never
         /\ \A j \in DOMAIN promises[r] \ {i} : promises'[r][j] = promises[r][j]
         /\ promises'[r][i].outcome = promises[r][i].outcome
<1>. DEFINE p == [promises[r][i] EXCEPT !.rang = clock]
            s == [promises[r] EXCEPT ![i] = p]
<1>1. promises[r] \in [DOMAIN promises[r] -> Promise] /\ promises[r][i] \in Promise
  BY PromiseIsTyped
<1>2. clock \in Instants /\ clock # Never
  BY NeverIsLate DEF TypeOK
<1>3. /\ p \in Promise /\ p.at = promises[r][i].at /\ p.rang = clock
      /\ p.outcome = promises[r][i].outcome
  BY <1>1, <1>2 DEF Promise
<1>4. promises' = [promises EXCEPT ![r] = s]
  BY <1>1 DEF Ring, TypeOK
<1>. HIDE DEF p
<1>5. /\ s \in [DOMAIN promises[r] -> Promise] /\ DOMAIN s = DOMAIN promises[r]
      /\ s[i] = p /\ \A j \in DOMAIN promises[r] \ {i} : s[j] = promises[r][j]
  BY <1>1, <1>3
<1>. HIDE DEF s
<1>11. \A j \in DOMAIN promises[r] :
        s[j].at = promises[r][j].at /\ (promises[r][j].rang # Never => s[j].rang # Never)
  BY <1>2, <1>3, <1>5
<1>6. Rewritten(r) /\ promises'[r] = s
  BY <1>11, <1>4, <1>5, RewrittenBy
<1>7. QED
  BY <1>2, <1>3, <1>5, <1>6

\* HoldsBack and Ends write one field of one row.
LEMMA NoteRewrites ==
  ASSUME TypeOK, NEW r \in Runs, NEW k \in Nat, NEW v, NEW f \in {"heard", "outcome"},
         f = "heard" => v \in {"question", "refusal"}, f = "outcome" => v \in Outcomes,
         promises' = [promises EXCEPT ![r][k][f] = v]
  PROVE  /\ Rewritten(r)
         /\ \A j \in DOMAIN promises[r] :
              /\ promises'[r][j].rang = promises[r][j].rang
              /\ (j # k \/ f = "heard") => promises'[r][j].outcome = promises[r][j].outcome
<1>. DEFINE s == [promises[r] EXCEPT ![k][f] = v]
<1>11. promises[r] \in Seq(Promise)
  BY DEF TypeOK
<1>1. promises[r] \in [DOMAIN promises[r] -> Promise]
  BY <1>11
<1>2. promises' = [promises EXCEPT ![r] = s]
  BY DEF TypeOK
<1>3. ASSUME NEW j \in DOMAIN promises[r]
      PROVE  /\ s[j] \in Promise /\ s[j].at = promises[r][j].at /\ s[j].rang = promises[r][j].rang
             /\ (j # k \/ f = "heard") => s[j].outcome = promises[r][j].outcome
  <2>1. promises[r][j] \in Promise
    BY <1>1
  <2>2. CASE j # k
    BY <2>1, <2>2
  <2>3. CASE j = k
    <3>1. s[j] = [promises[r][j] EXCEPT ![f] = v]
      BY <2>3
    <3>2. CASE f = "heard"
      <4>1. [promises[r][j] EXCEPT !.heard = v] \in Promise
        BY <2>1, <3>2 DEF Promise
      <4>2. QED
        BY <2>1, <3>1, <3>2, <4>1 DEF Promise
    <3>3. CASE f = "outcome"
      <4>1. [promises[r][j] EXCEPT !.outcome = v] \in Promise
        BY <2>1, <3>3 DEF Promise
      <4>2. QED
        BY <2>1, <3>1, <3>3, <4>1, <2>3 DEF Promise
    <3>4. QED
      BY <3>2, <3>3
  <2>4. QED
    BY <2>2, <2>3
<1>4. DOMAIN s = DOMAIN promises[r] /\ s \in [DOMAIN promises[r] -> Promise]
  <2>1. DOMAIN s = DOMAIN promises[r] /\ s = [j \in DOMAIN promises[r] |-> s[j]]
    OBVIOUS
  <2>. HIDE DEF s
  <2>2. QED
    BY <2>1, <1>3
<1>. HIDE DEF s
<1>5. Rewritten(r) /\ promises'[r] = s
  <2>1. \A i \in DOMAIN promises[r] :
          s[i].at = promises[r][i].at /\ (promises[r][i].rang # Never => s[i].rang # Never)
    BY <1>3
  <2>2. QED
    BY <2>1, <1>2, <1>4, RewrittenBy
<1>6. QED
  BY <1>3, <1>5

\* Replied and Unenroll settle rows that have not rung.
LEMMA SettlingRewrites ==
  ASSUME TypeOK, NEW r \in Runs, Replied(r) \/ Unenroll(r)
  PROVE  /\ Rewritten(r)
         /\ Unenroll(r) => \A i \in DOMAIN promises[r] : promises'[r][i].rang # Never
<1>1. promises[r] \in Seq(Promise)
  BY DEF TypeOK
<1>2. clock \in Instants /\ clock # Never
  BY NeverIsLate DEF TypeOK
<1>3. CASE Replied(r) /\ ~Unenroll(r)
  <2>. DEFINE s == [i \in DOMAIN promises[r] |->
                     IF ToCome(r, i) /\ promises[r][i].threaded
                     THEN [promises[r][i] EXCEPT !.rang = clock, !.outcome = "cancelled"]
                     ELSE promises[r][i]]
  <2>1. ASSUME NEW j \in DOMAIN promises[r]
        PROVE  /\ s[j] \in Promise /\ s[j].at = promises[r][j].at
               /\ promises[r][j].rang # Never => s[j].rang # Never
    <3>1. promises[r][j] \in Promise
      BY <1>1
    <3>. DEFINE p == [promises[r][j] EXCEPT !.rang = clock, !.outcome = "cancelled"]
    <3>2. p \in Promise /\ p.at = promises[r][j].at /\ p.rang # Never
      BY <3>1, <1>2 DEF Promise
    <3>3. s[j] = p \/ s[j] = promises[r][j]
      OBVIOUS
    <3>. HIDE DEF p, s
    <3>4. QED
      BY <3>1, <3>2, <3>3
  <2>2. promises' = [promises EXCEPT ![r] = s]
    BY <1>3 DEF Replied
  <2>3. DOMAIN s = DOMAIN promises[r] /\ s = [j \in DOMAIN promises[r] |-> s[j]]
    OBVIOUS
  <2>. HIDE DEF s
  <2>4. s \in [DOMAIN promises[r] -> Promise]
    BY <2>1, <2>3
  <2>5. Rewritten(r)
    BY <2>1, <2>2, <2>3, <2>4, RewrittenBy
  <2>6. QED
    BY <1>3, <2>5
<1>4. CASE Unenroll(r)
  <2>. DEFINE s == [i \in DOMAIN promises[r] |->
                     IF promises[r][i].rang = Never
                     THEN [promises[r][i] EXCEPT !.rang = clock,
                             !.outcome = IF ToCome(r, i) THEN "cancelled" ELSE "no_work"]
                     ELSE promises[r][i]]
  <2>1. ASSUME NEW j \in DOMAIN promises[r]
        PROVE  s[j] \in Promise /\ s[j].at = promises[r][j].at /\ s[j].rang # Never
    <3>1. promises[r][j] \in Promise
      BY <1>1
    <3>. DEFINE p == [promises[r][j] EXCEPT !.rang = clock,
                        !.outcome = IF ToCome(r, j) THEN "cancelled" ELSE "no_work"]
    <3>2. p \in Promise /\ p.at = promises[r][j].at /\ p.rang # Never
      BY <3>1, <1>2 DEF Promise, Outcomes
    <3>3. s[j] = p \/ (s[j] = promises[r][j] /\ promises[r][j].rang # Never)
      OBVIOUS
    <3>. HIDE DEF p, s
    <3>4. QED
      BY <3>1, <3>2, <3>3
  <2>2. promises' = [promises EXCEPT ![r] = s]
    BY <1>4 DEF Unenroll
  <2>3. DOMAIN s = DOMAIN promises[r] /\ s = [j \in DOMAIN promises[r] |-> s[j]]
    OBVIOUS
  <2>. HIDE DEF s
  <2>4. s \in [DOMAIN promises[r] -> Promise]
    BY <2>1, <2>3
  <2>5. Rewritten(r) /\ promises'[r] = s
    BY <2>1, <2>2, <2>3, <2>4, RewrittenBy
  <2>6. QED
    BY <2>1, <2>5
<1>5. QED
  BY <1>3, <1>4

\* A booking adds one row, unrung, after the others.
LEMMA BookAppends ==
  ASSUME TypeOK, NEW r \in Runs, NEW at, Book(r, at)
  PROVE  LET n == Len(promises[r]) + 1 IN
         /\ DOMAIN promises'[r] = 1..n /\ Len(promises'[r]) = n
         /\ DOMAIN promises[r] = 1..Len(promises[r]) /\ Len(promises[r]) \in Nat
         /\ \A i \in DOMAIN promises[r] : promises'[r][i] = promises[r][i]
         /\ promises'[r][n].at = at /\ promises'[r][n].rang = Never
         /\ promises'[r][n].outcome = "null"
<1>. DEFINE p == [at |-> at, rang |-> Never, threaded |-> run[r].threaded,
                  outcome |-> "null", heard |-> "nothing"]
<1>1. promises' = [promises EXCEPT ![r] = Append(promises[r], p)]
  BY DEF Book
<1>2. p.at = at /\ p.rang = Never /\ p.outcome = "null"
  OBVIOUS
<1>3. promises \in [Runs -> Seq(Promise)] /\ promises[r] \in Seq(Promise)
  BY DEF TypeOK
<1>. HIDE DEF p
<1>4. promises'[r] = Append(promises[r], p)
  BY <1>1, <1>3
<1>5. promises[r] \in Seq(Promise \cup {p}) /\ p \in Promise \cup {p}
  BY <1>3, SeqMonotonic
<1>6. /\ Len(promises'[r]) = Len(promises[r]) + 1
      /\ \A i \in 1..Len(promises[r]) : promises'[r][i] = promises[r][i]
      /\ promises'[r][Len(promises[r]) + 1] = p /\ promises'[r] \in Seq(Promise \cup {p})
  BY <1>4, <1>5, AppendProperties
<1>7. /\ DOMAIN promises'[r] = 1..Len(promises'[r]) /\ DOMAIN promises[r] = 1..Len(promises[r])
      /\ Len(promises[r]) \in Nat
  BY <1>3, <1>6
<1>8. QED
  BY <1>2, <1>6, <1>7

\* An advance that does not book leaves the promises alone.
LEMMA AdvanceBooks ==
  ASSUME NEW l \in Loops, NEW r \in Runs, Advance(l, r)
  PROVE  /\ turn' = turn /\ review' = review /\ mishaps' = mishaps
         /\ promises' = promises \/ (Active(r) /\ \E at : Book(r, at))
<1>. USE DEF rows, world, hands, loops, history, bounds
<1>1. Takes(l, r)
  BY DEF Advance, LeftAsItIs, Moves, Leave, FirstPromise, StillToRing, Overdue, TurnGoesOn,
         Declined, LetterIsHeld, NoCharter, Replay, GiveUp, Settles, Open, Judges, Writes
<1>2. turn' = turn /\ review' = review /\ mishaps' = mishaps
  BY <1>1 DEF Takes
<1>3. CASE FirstPromise(l, r) \/ Replay(l, r)
  BY <1>2, <1>3 DEF FirstPromise, Replay, Settles, Open, Judges, Writes
<1>4. CASE ~(FirstPromise(l, r) \/ Replay(l, r))
  BY <1>2, <1>4 DEF Advance, LeftAsItIs, Moves, Leave, StillToRing, Overdue, TurnGoesOn,
         Declined, LetterIsHeld, NoCharter, GiveUp, BooksNothing
<1>5. QED
  BY <1>3, <1>4

Kept(r) ==
  /\ DOMAIN promises[r] \subseteq DOMAIN promises'[r]
  /\ \A i \in DOMAIN promises[r] : promises[r][i].rang # Never => promises'[r][i].rang # Never

\* No row disappears and what has rung stays so.
LEMMA RowsAreKept ==
  ASSUME TypeOK, NEW r \in Runs, RunStep(r)
  PROVE  Kept(r)
<1>. USE DEF rows, world, hands, loops, history, bounds
<1>1. ASSUME UNCHANGED promises PROVE Kept(r)
  BY <1>1 DEF Kept
<1>2. ASSUME NEW l \in Loops, Advance(l, r) PROVE Kept(r)
  <2>1. ASSUME NEW at, Book(r, at) PROVE Kept(r)
    <3>1. DOMAIN promises[r] \subseteq DOMAIN promises'[r]
      BY <2>1, BookAppends
    <3>2. QED
      BY <2>1, <3>1, BookAppends DEF Kept
  <2>2. QED
    BY <1>1, <1>2, <2>1, AdvanceBooks
<1>3. ASSUME NEW i \in DOMAIN promises[r], Ring(r, i) PROVE Kept(r)
  BY <1>3, RingRewrites DEF Kept, Rewritten
<1>4. CASE Send(r) \/ Decide(r, "redeemed") \/ Decide(r, "denied") \/ Deliver(r)
           \/ UnenrollReads(r) \/ Suppress(r) \/ Seen(r)
  BY <1>1, <1>4 DEF Send, Decide, Deliver, UnenrollReads, Suppress, Seen
<1>5. CASE Chase(r) \/ ChaseApproved(r)
  BY <1>1, <1>5 DEF Chase, ChaseApproved, Sent
<1>6. turn[r].i \in Nat
  BY DEF TypeOK
<1>7. CASE HoldsBack(r)
  <2>1. CASE UNCHANGED promises
    BY <1>1, <2>1
  <2>2. ASSUME NEW what \in {"question", "refusal"},
               promises' = [promises EXCEPT ![r][turn[r].i].heard = what]
        PROVE  Kept(r)
    BY <1>6, <2>2, NoteRewrites DEF Kept, Rewritten
  <2>3. QED
    BY <1>7, <2>1, <2>2 DEF HoldsBack, Hears
<1>8. CASE Ends(r)
  <2>1. CASE UNCHANGED promises
    BY <1>1, <2>1
  <2>2. ASSUME NEW o \in Outcomes, promises' = [promises EXCEPT ![r][turn[r].i].outcome = o]
        PROVE  Kept(r)
    BY <1>6, <2>2, NoteRewrites DEF Kept, Rewritten
  <2>3. QED
    BY <1>8, <2>1, <2>2 DEF Ends
<1>9. CASE Replied(r) \/ Unenroll(r)
  BY <1>9, SettlingRewrites DEF Kept, Rewritten
<1>10. QED
  BY <1>2, <1>3, <1>4, <1>5, <1>7, <1>8, <1>9 DEF RunStep

\* The promise of a turn has rung and stays.
LEMMA InHandStep ==
  ASSUME TypeOK, [Next]_vars, \A q \in Runs : InHand(q)
  PROVE  \A q \in Runs : InHand(q)'
<1>. USE DEF rows, world, hands, loops, history, bounds
<1>1. ASSUME NEW q \in Runs, Same(q) PROVE InHand(q)'
  BY <1>1 DEF Same, InHand
<1>2. ASSUME NEW r \in Runs, RunStep(r) PROVE InHand(r)'
  <2>1. Kept(r) /\ InHand(r)
    BY <1>2, RowsAreKept
  <2>2. ASSUME turn'[r].stage # "asleep" => turn[r].stage # "asleep" /\ turn'[r].i = turn[r].i
        PROVE  InHand(r)'
    BY <2>1, <2>2 DEF Kept, InHand
  <2>3. turn \in [Runs -> [i : Nat, stage : Stages]]
    BY DEF TypeOK
  <2>4. ASSUME NEW to, Stage(r, to) PROVE turn'[r].i = turn[r].i
    BY <2>3, <2>4 DEF Stage
  <2>5. ASSUME NEW l \in Loops, Advance(l, r) PROVE InHand(r)'
    BY <2>2, <2>5, AdvanceBooks
  <2>6. ASSUME NEW i \in DOMAIN promises[r], Ring(r, i) PROVE InHand(r)'
    <3>1. turn'[r].i = i
      BY <2>3, <2>6 DEF Ring
    <3>2. promises'[r][i].rang # Never /\ DOMAIN promises[r] \subseteq DOMAIN promises'[r]
      BY <2>1, <2>6, RingRewrites DEF Kept
    <3>3. QED
      BY <3>1, <3>2 DEF InHand
  <2>7. CASE Send(r) \/ HoldsBack(r) \/ Chase(r)
    <3>1. turn'[r].i = turn[r].i
      BY <2>4, <2>7 DEF Send, HoldsBack, Chase
    <3>2. turn[r].stage # "asleep"
      BY <2>7 DEF Send, HoldsBack, Chase, Acting
    <3>3. QED
      BY <2>2, <3>1, <3>2
  <2>8. CASE Ends(r)
    BY <2>3, <2>2, <2>8 DEF Ends, Asleep
  <2>9. CASE \/ Decide(r, "redeemed") \/ Decide(r, "denied") \/ Deliver(r) \/ ChaseApproved(r)
             \/ Replied(r) \/ UnenrollReads(r) \/ Unenroll(r) \/ Suppress(r) \/ Seen(r)
    <3>1. turn' = turn
      BY <2>9 DEF Decide, Deliver, ChaseApproved, Replied, UnenrollReads, Unenroll, Suppress, Seen
    <3>2. QED
      BY <2>2, <3>1
  <2>10. QED
    BY <1>2, <2>5, <2>6, <2>7, <2>8, <2>9 DEF RunStep
<1>3. QED
  BY <1>1, <1>2, StepsOfOne

\* What becomes of a run that has ended.
LEMMA EndedKeeps ==
  ASSUME TypeOK, NEW r \in Runs, RunStep(r), ~Active(r)
  PROVE  /\ run'[r].state # "active" /\ run'[r].step = run[r].step
         /\ Len(promises'[r]) = Len(promises[r])
         /\ run'[r].reason = run[r].reason \/ Unenroll(r)
<1>. USE DEF rows, world, hands, loops, history, bounds
<1>1. run \in [Runs -> Position] /\ run[r] \in Position
  BY DEF TypeOK
<1>2. ASSUME run'[r] = run[r], Len(promises'[r]) = Len(promises[r])
      PROVE  /\ run'[r].state # "active" /\ run'[r].step = run[r].step
             /\ Len(promises'[r]) = Len(promises[r])
             /\ run'[r].reason = run[r].reason \/ Unenroll(r)
  BY <1>2 DEF Active
<1>3. ASSUME NEW l \in Loops, Advance(l, r)
      PROVE  run'[r] = run[r] /\ Len(promises'[r]) = Len(promises[r])
  BY <1>3, AdvanceOfOther DEF Same
<1>4. ASSUME NEW i \in DOMAIN promises[r], Ring(r, i)
      PROVE  run'[r] = run[r] /\ Len(promises'[r]) = Len(promises[r])
  <2>1. Len(promises'[r]) = Len(promises[r])
    BY <1>4, RingRewrites DEF Rewritten
  <2>2. QED
    BY <1>4, <2>1 DEF Ring
<1>5. CASE \/ Send(r) \/ Decide(r, "redeemed") \/ Decide(r, "denied") \/ Deliver(r)
           \/ UnenrollReads(r) \/ Suppress(r) \/ Seen(r)
  BY <1>2, <1>5 DEF Send, Decide, Deliver, UnenrollReads, Suppress, Seen
<1>6. CASE HoldsBack(r) \/ Ends(r)
  <2>1. turn[r].i \in Nat /\ run' = run
    BY <1>6 DEF HoldsBack, Ends, TypeOK
  <2>2. CASE UNCHANGED promises
    BY <1>2, <2>1, <2>2
  <2>3. ASSUME NEW what \in {"question", "refusal"},
               promises' = [promises EXCEPT ![r][turn[r].i].heard = what]
        PROVE  Len(promises'[r]) = Len(promises[r])
    BY <2>1, <2>3, NoteRewrites DEF Rewritten
  <2>4. ASSUME NEW o \in Outcomes, promises' = [promises EXCEPT ![r][turn[r].i].outcome = o]
        PROVE  Len(promises'[r]) = Len(promises[r])
    BY <2>1, <2>4, NoteRewrites DEF Rewritten
  <2>5. Len(promises'[r]) = Len(promises[r])
    <3>1. CASE HoldsBack(r)
      BY <2>3, <3>1 DEF HoldsBack, Hears
    <3>2. CASE Ends(r)
      BY <2>4, <3>2 DEF Ends
    <3>3. QED
      BY <1>6, <3>1, <3>2
  <2>6. QED
    BY <1>2, <2>1, <2>5
<1>7. CASE Chase(r) \/ ChaseApproved(r)
  <2>1. CASE Sent(r)
    <3>1. run' = [run EXCEPT ![r] = [run[r] EXCEPT !.touches = run[r].touches + 1]]
      BY <2>1 DEF Sent, Awaited
    <3>2. run'[r] = [run[r] EXCEPT !.touches = run[r].touches + 1]
      BY <1>1, <3>1
    <3>3. /\ run'[r].state = run[r].state /\ run'[r].step = run[r].step
          /\ run'[r].reason = run[r].reason
      BY <1>1, <3>2 DEF Position
    <3>4. promises' = promises
      BY <2>1 DEF Sent
    <3>5. QED
      BY <3>3, <3>4 DEF Active
  <2>2. CASE UNCHANGED rows
    BY <1>2, <2>2
  <2>3. QED
    BY <1>7, <2>1, <2>2 DEF Chase, ChaseApproved
<1>8. CASE Replied(r)
  <2>1. Len(promises'[r]) = Len(promises[r])
    BY <1>8, SettlingRewrites DEF Rewritten
  <2>2. run' = run
    BY <1>8 DEF Replied
  <2>3. QED
    BY <1>2, <2>1, <2>2
<1>9. CASE Unenroll(r)
  <2>1. Len(promises'[r]) = Len(promises[r])
    BY <1>9, SettlingRewrites DEF Rewritten
  <2>2. run'[r] = [run[r] EXCEPT !.state = "stopped", !.reason = "unenrolled", !.nextAt = Never]
    BY <1>1, <1>9 DEF Unenroll, Stop
  <2>3. run'[r].state = "stopped" /\ run'[r].step = run[r].step
    BY <1>1, <2>2 DEF Position
  <2>4. QED
    BY <1>9, <2>1, <2>3
<1>10. QED
  BY <1>2, <1>3, <1>4, <1>5, <1>6, <1>7, <1>8, <1>9 DEF RunStep

\* EndedIsOver, of one step.
LEMMA EndedStep ==
  ASSUME TypeOK, [Next]_vars
  PROVE  \A r \in Runs : ~Active(r) =>
           /\ run'[r].state # "active" /\ run'[r].step = run[r].step
           /\ Len(promises'[r]) = Len(promises[r])
<1>1. SUFFICES ASSUME NEW r \in Runs, ~Active(r)
      PROVE  /\ run'[r].state # "active" /\ run'[r].step = run[r].step
             /\ Len(promises'[r]) = Len(promises[r])
  OBVIOUS
<1>2. CASE Same(r)
  BY <1>1, <1>2 DEF Same, Active
<1>3. CASE RunStep(r)
  BY <1>1, <1>3, EndedKeeps
<1>4. QED
  BY <1>2, <1>3, StepsOfOne

\* Only unenroll gives its reason.
LEMMA ReasonIsKept ==
  ASSUME TypeOK, NEW r \in Runs, RunStep(r), ~Unenroll(r), run'[r].reason = "unenrolled"
  PROVE  run[r].reason = "unenrolled"
<1>. USE DEF rows, world, hands, loops, history, bounds
<1>1. run \in [Runs -> Position] /\ run[r] \in Position
  BY DEF TypeOK
<1>2. ASSUME NEW s, NEW why, Stop(r, s, why) PROVE run'[r].reason = why
  <2>1. run'[r] = [run[r] EXCEPT !.state = s, !.reason = why, !.nextAt = Never]
    BY <1>1, <1>2 DEF Stop
  <2>2. QED
    BY <1>1, <2>1 DEF Position
<1>3. ASSUME NEW s, NEW at, Goto(r, s, at) PROVE run'[r].reason = run[r].reason
  <2>1. run'[r] = [run[r] EXCEPT !.step = s, !.nextAt = at]
    BY <1>1, <1>3 DEF Goto
  <2>2. QED
    BY <1>1, <2>1 DEF Position
<1>4. ASSUME NEW l \in Loops, Advance(l, r) PROVE run[r].reason = "unenrolled"
  <2>1. CASE LeftAsItIs(l, r)
    BY <2>1 DEF LeftAsItIs
  <2>2. CASE Moves(l, r)
    BY <1>2, <1>3, <2>2 DEF Moves
  <2>3. CASE Leave(l, r) \/ Overdue(l, r) \/ Declined(l, r) \/ GiveUp(l, r)
    BY <1>2, <2>3 DEF Leave, Overdue, Declined, GiveUp
  <2>4. CASE \/ FirstPromise(l, r) \/ StillToRing(l, r) \/ TurnGoesOn(l, r) \/ LetterIsHeld(l, r)
             \/ NoCharter(l, r) \/ Replay(l, r)
    BY <1>3, <2>4 DEF FirstPromise, StillToRing, TurnGoesOn, LetterIsHeld, NoCharter, Replay,
           PollAgain
  <2>5. QED
    BY <1>4, <2>1, <2>2, <2>3, <2>4 DEF Advance
<1>5. CASE \/ (\E i \in DOMAIN promises[r] : Ring(r, i)) \/ Send(r) \/ HoldsBack(r) \/ Ends(r)
           \/ Decide(r, "redeemed") \/ Decide(r, "denied") \/ Deliver(r)
           \/ UnenrollReads(r) \/ Suppress(r) \/ Seen(r)
  <2>1. run' = run
    BY <1>5 DEF Ring, Send, HoldsBack, Ends, Decide, Deliver, UnenrollReads, Suppress, Seen
  <2>2. QED
    BY <2>1
<1>6. CASE Chase(r) \/ ChaseApproved(r)
  <2>1. CASE Sent(r)
    <3>1. CASE Awaited(r)
      <4>1. run'[r] = [run[r] EXCEPT !.step = Earliest(run[r].step + 1, Len(Program) + 1),
                           !.sentAt = clock, !.nextAt = clock, !.threaded = TRUE,
                           !.touches = run[r].touches + 1]
        BY <1>1, <2>1, <3>1 DEF Sent
      <4>2. QED
        BY <1>1, <4>1 DEF Position
    <3>2. CASE ~Awaited(r)
      <4>1. run'[r] = [run[r] EXCEPT !.touches = run[r].touches + 1]
        BY <1>1, <2>1, <3>2 DEF Sent
      <4>2. QED
        BY <1>1, <4>1 DEF Position
    <3>3. QED
      BY <3>1, <3>2
  <2>2. CASE UNCHANGED rows
    BY <2>2
  <2>3. QED
    BY <1>6, <2>1, <2>2 DEF Chase, ChaseApproved
<1>7. CASE Replied(r)
  BY <1>2, <1>7 DEF Replied
<1>8. QED
  BY <1>4, <1>5, <1>6, <1>7 DEF RunStep

\* Whoever was taken out has ended and waits for nothing.
LEMMA QuietStep ==
  ASSUME TypeOK, TypeOK', [Next]_vars, \A q \in Runs : Quiet(q)
  PROVE  \A q \in Runs : Quiet(q)'
<1>1. ASSUME NEW q \in Runs, Same(q) PROVE Quiet(q)'
  BY <1>1 DEF Same, Quiet, Active
<1>2. ASSUME NEW r \in Runs, RunStep(r) PROVE Quiet(r)'
  <2>1. DOMAIN promises[r] = 1..Len(promises[r]) /\ DOMAIN promises'[r] = 1..Len(promises'[r])
    <3>1. promises[r] \in Seq(Promise) /\ promises'[r] \in Seq(Promise)
      BY DEF TypeOK
    <3>2. QED
      BY <3>1
  <2>2. Quiet(r)
    OBVIOUS
  <2>3. CASE Unenroll(r)
    <3>1. DOMAIN promises'[r] = DOMAIN promises[r]
          /\ \A i \in DOMAIN promises[r] : promises'[r][i].rang # Never
      BY <2>3, SettlingRewrites DEF Rewritten
    <3>2. run'[r].state = "stopped"
      <4>1. run'[r] = [run[r] EXCEPT !.state = "stopped", !.reason = "unenrolled", !.nextAt = Never]
        BY <2>3 DEF Unenroll, Stop, TypeOK
      <4>2. run[r] \in Position
        BY DEF TypeOK
      <4>3. QED
        BY <4>1, <4>2 DEF Position
    <3>3. QED
      BY <3>1, <3>2 DEF Quiet, Active
  <2>4. CASE ~Unenroll(r)
    <3>1. SUFFICES ASSUME run'[r].reason = "unenrolled"
          PROVE  run'[r].state # "active" /\ \A i \in DOMAIN promises'[r] : promises'[r][i].rang # Never
      BY DEF Quiet, Active
    <3>2. run[r].reason = "unenrolled"
      BY <1>2, <2>4, <3>1, ReasonIsKept
    <3>3. ~Active(r) /\ \A i \in DOMAIN promises[r] : promises[r][i].rang # Never
      BY <2>2, <3>2 DEF Quiet
    <3>4. run'[r].state # "active" /\ Len(promises'[r]) = Len(promises[r])
      BY <1>2, <3>3, EndedKeeps
    <3>5. \A i \in DOMAIN promises[r] : promises'[r][i].rang # Never
      BY <1>2, <3>3, RowsAreKept DEF Kept
    <3>6. QED
      BY <2>1, <3>4, <3>5
  <2>5. QED
    BY <2>3, <2>4
<1>3. QED
  BY <1>1, <1>2, StepsOfOne

-----------------------------------------------------------------------------
(* A step is written by one turn                                           *)

Clean(q) == mishaps = 0 /\ q \notin held \cup behind

\* No letter of the run was ever held.
NotHeld(q) == q \notin held => review[q] = NoLetter

\* The promises of a clean run come in the order of their hours; while it is
\* active only the last has still to ring, and a turn that may write is the
\* last promise's, whose outcome is not known.
Orderly(q) ==
  Clean(q) =>
    /\ \A i, j \in DOMAIN promises[q] : i <= j => promises[q][i].at <= promises[q][j].at
    /\ Active(q) =>
         /\ \A i \in DOMAIN promises[q] : promises[q][i].rang = Never =>
              /\ i = Len(promises[q]) /\ promises[q][i].at > run[q].sentAt
              /\ promises[q][i].outcome = "null"
         /\ turn[q].stage \in {"briefed", "acting", "left"} =>
              /\ turn[q].i = Len(promises[q]) /\ promises[q][turn[q].i].at > run[q].sentAt
              /\ promises[q][turn[q].i].outcome = "null"

\* What has rung of an active run was due, and nothing has rung since the
\* letter a turn has written.
Past(q) ==
  Clean(q) /\ Active(q) =>
    /\ \A i \in DOMAIN promises[q] : promises[q][i].rang # Never => promises[q][i].at <= clock
    /\ turn[q].stage \in {"wrote", "further"} =>
         \A i \in DOMAIN promises[q] :
           promises[q][i].rang # Never => promises[q][i].at <= run[q].sentAt

Told(q) ==
  Clean(q) =>
    /\ writers[q] <= 1
    /\ turn[q].stage # "left" /\ (Active(q) \/ turn[q].stage \in {"briefed", "acting"}) =>
         writers[q] = 0

\* A further letter of a turn answers no promise.
LEMMA FurtherMovesNothing ==
  ASSUME TypeOK, NEW r \in Runs, Clean(r), Past(r), turn[r].stage \in {"wrote", "further"}
  PROVE  ~Awaited(r)
<1>1. SUFFICES ASSUME Active(r), NEW i \in Rung(r) PROVE FALSE
  BY DEF Awaited
<1>2. i \in DOMAIN promises[r] /\ promises[r][i].rang # Never
      /\ promises[r][i].at > run[r].sentAt
  BY DEF Rung, Current
<1>3. promises[r][i].at <= run[r].sentAt
  BY <1>1, <1>2 DEF Past
<1>4. promises[r][i] \in Promise /\ run[r] \in Position
  BY <1>2, PromiseIsTyped DEF TypeOK
<1>5. promises[r][i].at \in Nat /\ run[r].sentAt \in Nat
  BY <1>4 DEF Promise, Position
<1>6. QED
  BY <1>2, <1>3, <1>5

\* What advance reads of a clean run is its last promise.
LEMMA LatestIsTheLast ==
  ASSUME TypeOK, NEW r \in Runs, Orderly(r), Clean(r), Current(r) # {}
  PROVE  /\ Len(promises[r]) \in Current(r) /\ Latest(r) = Len(promises[r])
         /\ Last(r) = promises[r][Len(promises[r])]
<1>. DEFINE n == Len(promises[r])
<1>1. promises[r] \in Seq(Promise) /\ DOMAIN promises[r] = 1..n /\ n \in Nat
  BY DEF TypeOK
<1>2. ASSUME NEW i \in DOMAIN promises[r] PROVE promises[r][i].at \in Nat /\ i \in Nat
  <2>1. promises[r][i] \in Promise
    BY <1>1
  <2>2. QED
    BY <1>1, <2>1 DEF Promise
<1>3. \A i, j \in DOMAIN promises[r] : i <= j => promises[r][i].at <= promises[r][j].at
  BY DEF Orderly
<1>4. run[r].sentAt \in Nat
  BY DEF TypeOK, Position
<1>5. PICK c \in DOMAIN promises[r] : promises[r][c].at > run[r].sentAt
  BY DEF Current
<1>6. n \in DOMAIN promises[r] /\ \A i \in DOMAIN promises[r] : i <= n
  BY <1>1, <1>5
<1>. HIDE DEF n
<1>7. n \in Current(r)
  BY <1>2, <1>3, <1>4, <1>5, <1>6 DEF Current
<1>8. \A j \in Current(r) \ {n} : Earlier(r, j, n)
  BY <1>2, <1>3, <1>6 DEF Current, Earlier
<1>9. ASSUME NEW x \in Current(r), \A j \in Current(r) \ {x} : Earlier(r, j, x) PROVE x = n
  <2>1. CASE x # n
    <3>1. Earlier(r, n, x) /\ Earlier(r, x, n)
      BY <1>7, <1>8, <1>9, <2>1
    <3>2. x \in DOMAIN promises[r]
      BY DEF Current
    <3>3. QED
      BY <1>2, <1>6, <3>1, <3>2 DEF Earlier
  <2>2. QED
    BY <2>1
<1>10. Latest(r) = n
  BY <1>7, <1>8, <1>9 DEF Latest
<1>11. QED
  BY <1>7, <1>10 DEF n, Last

\* What was lost, held or booked behind stays so.
LEMMA CleanBefore ==
  ASSUME TypeOK, [Next]_vars, NEW r \in Runs, Clean(r)'
  PROVE  Clean(r)
<1>. USE DEF rows, world, hands, loops, history, bounds
<1>1. mishaps = 0 /\ mishaps' = 0
  <2>1. mishaps' >= mishaps /\ mishaps \in Nat /\ mishaps' = 0
    BY StepsOfOne DEF TypeOK, Clean
  <2>2. QED
    BY <2>1
<1>2. ASSUME NEW at, Book(r, at) PROVE held' = held /\ (r \in behind => r \in behind')
  BY <1>2 DEF Book
<1>3. CASE Same(r)
  BY <1>1, <1>3 DEF Same, Clean
<1>4. CASE RunStep(r)
  <2>1. ASSUME NEW l \in Loops, Advance(l, r)
        PROVE  r \in held \cup behind => r \in held' \cup behind'
    <3>1. CASE LeftAsItIs(l, r) \/ Moves(l, r)
      BY <3>1 DEF LeftAsItIs, Moves, Afresh
    <3>2. CASE FirstPromise(l, r) \/ Replay(l, r)
      BY <1>2, <3>2 DEF FirstPromise, Replay
    <3>3. CASE ~(LeftAsItIs(l, r) \/ Moves(l, r) \/ FirstPromise(l, r) \/ Replay(l, r))
      BY <2>1, <3>3 DEF Advance, Leave, StillToRing, Overdue, TurnGoesOn, Declined,
             LetterIsHeld, NoCharter, GiveUp, BooksNothing
    <3>4. QED
      BY <3>1, <3>2, <3>3
  <2>2. ASSUME Chase(r) \/ ChaseApproved(r)
        PROVE  r \in held \cup behind => r \in held' \cup behind'
    <3>1. CASE Sent(r)
      BY <3>1 DEF Sent, Afresh
    <3>2. CASE UNCHANGED history
      BY <3>2
    <3>3. QED
      BY <2>2, <3>1, <3>2 DEF Chase, ChaseApproved
  <2>3. ASSUME HoldsBack(r)
        PROVE  r \in held \cup behind => r \in held' \cup behind'
    BY <2>3 DEF HoldsBack
  <2>4. ASSUME \/ (\E i \in DOMAIN promises[r] : Ring(r, i)) \/ Send(r) \/ Ends(r)
               \/ Decide(r, "redeemed") \/ Decide(r, "denied") \/ Deliver(r)
               \/ Replied(r) \/ UnenrollReads(r) \/ Unenroll(r) \/ Suppress(r) \/ Seen(r)
        PROVE  r \in held \cup behind => r \in held' \cup behind'
    BY <2>4 DEF Ring, Send, Ends, Decide, Deliver, Replied, UnenrollReads, Unenroll, Suppress, Seen
  <2>5. r \in held \cup behind => r \in held' \cup behind'
    BY <1>4, <2>1, <2>2, <2>3, <2>4 DEF RunStep
  <2>6. QED
    BY <1>1, <2>5 DEF Clean
<1>5. QED
  BY <1>3, <1>4, StepsOfOne

\* A letter under review was held.
LEMMA NotHeldStep ==
  ASSUME TypeOK, [Next]_vars, \A q \in Runs : NotHeld(q)
  PROVE  \A q \in Runs : NotHeld(q)'
<1>. USE DEF rows, world, hands, loops, history, bounds
<1>1. ASSUME NEW q \in Runs, Same(q) PROVE NotHeld(q)'
  BY <1>1 DEF Same, NotHeld
<1>2. ASSUME NEW r \in Runs, RunStep(r) PROVE NotHeld(r)'
  <2>1. review \in [Runs -> Letter] /\ NotHeld(r)
    BY DEF TypeOK
  <2>2. ASSUME review' = review, r \in held => r \in held' PROVE NotHeld(r)'
    BY <2>1, <2>2 DEF NotHeld
  <2>3. ASSUME NEW l \in Loops, Advance(l, r) PROVE NotHeld(r)'
    <3>1. review' = review
      BY <2>3, AdvanceBooks
    <3>2. held' = held
      <4>1. CASE FirstPromise(l, r) \/ Replay(l, r)
        BY <4>1 DEF FirstPromise, Replay, Book
      <4>2. CASE LeftAsItIs(l, r) \/ Moves(l, r)
        BY <4>2 DEF LeftAsItIs, Moves, Afresh
      <4>3. CASE ~(LeftAsItIs(l, r) \/ Moves(l, r) \/ FirstPromise(l, r) \/ Replay(l, r))
        BY <2>3, <4>3 DEF Advance, Leave, StillToRing, Overdue, TurnGoesOn, Declined,
               LetterIsHeld, NoCharter, GiveUp, BooksNothing
      <4>4. QED
        BY <4>1, <4>2, <4>3
    <3>3. QED
      BY <2>2, <3>1, <3>2
  <2>4. CASE Chase(r)
    <3>1. CASE Sent(r)
      BY <2>2, <2>4, <3>1 DEF Chase, Sent, Afresh
    <3>2. CASE UNCHANGED history
      BY <2>2, <2>4, <3>2 DEF Chase
    <3>3. QED
      BY <2>4, <3>1, <3>2 DEF Chase
  <2>5. CASE HoldsBack(r)
    BY <2>2, <2>5 DEF HoldsBack, NotHeld
  <2>6. CASE Decide(r, "redeemed") \/ Decide(r, "denied") \/ Deliver(r) \/ ChaseApproved(r)
    <3>1. r \in held
      BY <2>1, <2>6 DEF Decide, Deliver, ChaseApproved, NotHeld, NoLetter
    <3>2. held' = held
      <4>1. CASE Sent(r)
        BY <4>1 DEF Sent, Afresh
      <4>2. CASE ~Sent(r)
        BY <2>6, <4>2 DEF Decide, Deliver, ChaseApproved
      <4>3. QED
        BY <4>1, <4>2
    <3>3. QED
      BY <3>1, <3>2 DEF NotHeld
  <2>7. CASE \/ (\E i \in DOMAIN promises[r] : Ring(r, i)) \/ Send(r) \/ Ends(r)
             \/ Replied(r) \/ UnenrollReads(r) \/ Unenroll(r) \/ Suppress(r) \/ Seen(r)
    BY <2>2, <2>7 DEF Ring, Send, Ends, Replied, UnenrollReads, Unenroll, Suppress, Seen
  <2>8. QED
    BY <1>2, <2>3, <2>4, <2>5, <2>6, <2>7 DEF RunStep
<1>3. QED
  BY <1>1, <1>2, StepsOfOne

\* An advance does not touch the last letter's instant.
LEMMA AdvanceKeepsSent ==
  ASSUME TypeOK, NEW l \in Loops, NEW r \in Runs, Advance(l, r)
  PROVE  /\ Active(r)' => Active(r)
         /\ run'[r].sentAt = run[r].sentAt
<1>1. run \in [Runs -> Position] /\ run[r] \in Position
  BY DEF TypeOK
<1>2. ASSUME NEW s, NEW why, s # "active", Stop(r, s, why)
      PROVE  run'[r].state # "active" /\ run'[r].sentAt = run[r].sentAt
  <2>1. run'[r] = [run[r] EXCEPT !.state = s, !.reason = why, !.nextAt = Never]
    BY <1>1, <1>2 DEF Stop
  <2>2. QED
    BY <1>1, <1>2, <2>1 DEF Position
<1>3. ASSUME NEW s, NEW at, Goto(r, s, at)
      PROVE  run'[r].state = run[r].state /\ run'[r].sentAt = run[r].sentAt
  <2>1. run'[r] = [run[r] EXCEPT !.step = s, !.nextAt = at]
    BY <1>1, <1>3 DEF Goto
  <2>2. QED
    BY <1>1, <2>1 DEF Position
<1>4. CASE LeftAsItIs(l, r)
  BY <1>4 DEF LeftAsItIs, rows, Active
<1>5. CASE Moves(l, r)
  BY <1>2, <1>3, <1>5 DEF Moves, Active
<1>6. CASE Leave(l, r) \/ Overdue(l, r) \/ Declined(l, r) \/ GiveUp(l, r)
  BY <1>2, <1>6 DEF Leave, Overdue, Declined, GiveUp, Active
<1>7. CASE \/ FirstPromise(l, r) \/ StillToRing(l, r) \/ TurnGoesOn(l, r) \/ LetterIsHeld(l, r)
           \/ NoCharter(l, r) \/ Replay(l, r)
  BY <1>3, <1>7 DEF FirstPromise, StillToRing, TurnGoesOn, LetterIsHeld, NoCharter, Replay,
         PollAgain, Active
<1>8. QED
  BY <1>4, <1>5, <1>6, <1>7 DEF Advance
\* Rows rewritten in place stay in order.
LEMMA OrderlyKept ==
  ASSUME TypeOK, NEW r \in Runs, Orderly(r), Clean(r), InHand(r), Rewritten(r),
         Active(r)' =>
           /\ Active(r) /\ run'[r].sentAt = run[r].sentAt
           /\ \A i \in DOMAIN promises[r] : promises'[r][i].rang = Never =>
                promises'[r][i].outcome = promises[r][i].outcome
           /\ turn'[r].stage \in {"briefed", "acting", "left"} =>
                /\ turn[r].stage \in {"briefed", "acting", "left"} /\ turn'[r].i = turn[r].i
                /\ promises'[r][turn[r].i].outcome = promises[r][turn[r].i].outcome
  PROVE  Orderly(r)'
<1>1. \A i, j \in DOMAIN promises[r] : i <= j => promises[r][i].at <= promises[r][j].at
  BY DEF Orderly
<1>2. \A i, j \in DOMAIN promises'[r] : i <= j => promises'[r][i].at <= promises'[r][j].at
  BY <1>1 DEF Rewritten
<1>3. ASSUME Active(r)', NEW i \in DOMAIN promises'[r], promises'[r][i].rang = Never
      PROVE  /\ i = Len(promises'[r]) /\ promises'[r][i].at > run'[r].sentAt
             /\ promises'[r][i].outcome = "null"
  <2>1. i \in DOMAIN promises[r] /\ promises[r][i].rang = Never
    BY <1>3 DEF Rewritten
  <2>2. i = Len(promises[r]) /\ promises[r][i].at > run[r].sentAt /\ promises[r][i].outcome = "null"
    BY <1>3, <2>1 DEF Orderly
  <2>3. QED
    BY <1>3, <2>1, <2>2 DEF Rewritten
<1>4. ASSUME Active(r)', turn'[r].stage \in {"briefed", "acting", "left"}
      PROVE  /\ turn'[r].i = Len(promises'[r]) /\ promises'[r][turn'[r].i].at > run'[r].sentAt
             /\ promises'[r][turn'[r].i].outcome = "null"
  <2>1. turn[r].i \in DOMAIN promises[r]
    BY <1>4 DEF InHand
  <2>2. turn[r].i = Len(promises[r]) /\ promises[r][turn[r].i].at > run[r].sentAt
        /\ promises[r][turn[r].i].outcome = "null"
    BY <1>4 DEF Orderly
  <2>3. QED
    BY <1>4, <2>1, <2>2 DEF Rewritten
<1>5. QED
  BY <1>2, <1>3, <1>4 DEF Orderly

\* What is booked finds every promise rung and no turn that may still write.
LEMMA BookedWhenSettled ==
  ASSUME TypeOK, NEW l \in Loops, NEW r \in Runs, FirstPromise(l, r) \/ Replay(l, r),
         Orderly(r), Clean(r), InHand(r)
  PROVE  /\ \A i \in DOMAIN promises[r] : promises[r][i].rang # Never
         /\ turn[r].stage \notin {"briefed", "acting", "left"}
         /\ \E at \in Nat : Book(r, at)
<1>1. Active(r) /\ l \in Loops
  BY DEF FirstPromise, Replay, Settles, Open, Judges, Writes
<1>2. now[l] \in Nat
  BY DEF TypeOK
<1>3. CASE FirstPromise(l, r)
  <2>1. Current(r) = {} /\ Book(r, now[l])
    BY <1>3 DEF FirstPromise
  <2>2. ASSUME NEW i \in DOMAIN promises[r], promises[r][i].rang = Never PROVE FALSE
    BY <1>1, <2>1, <2>2 DEF Orderly, Current
  <2>3. ASSUME turn[r].stage \in {"briefed", "acting", "left"} PROVE FALSE
    BY <1>1, <2>1, <2>3 DEF Orderly, Current, InHand
  <2>4. QED
    BY <1>2, <2>1, <2>2, <2>3
<1>4. CASE Replay(l, r)
  <2>1. /\ Current(r) # {} /\ ~Unrung(r) /\ Last(r).outcome # "null"
        /\ MayReplay(l, r) /\ Book(r, Again(l, r)) /\ now[l] < Deadline(r) /\ Judges(l, r)
    BY <1>4 DEF Replay, Settles, Open, Judges
  <2>2. Last(r) = promises[r][Len(promises[r])] /\ Last(r).rang # Never
    BY <2>1, LatestIsTheLast DEF Unrung
  <2>3. ASSUME NEW i \in DOMAIN promises[r], promises[r][i].rang = Never PROVE FALSE
    BY <1>1, <2>2, <2>3 DEF Orderly
  <2>4. ASSUME turn[r].stage \in {"briefed", "acting", "left"} PROVE FALSE
    BY <1>1, <2>1, <2>2, <2>4 DEF Orderly
  <2>5. Again(l, r) \in Nat
    BY <1>4, AgainIsAnInstant DEF Replay
  <2>6. QED
    BY <2>1, <2>3, <2>4, <2>5
<1>5. QED
  BY <1>3, <1>4
\* Every step of a run.
LEMMA OrderlyByStep ==
  ASSUME TypeOK, TypeOK', [Next]_vars, NEW r \in Runs, RunStep(r), Clean(r), Clean(r)',
         InHand(r), NotHeld(r), Past(r), Orderly(r)
  PROVE  Orderly(r)'
<1>. USE DEF rows, world, hands, loops, history, bounds
<1>1. /\ run \in [Runs -> Position] /\ run[r] \in Position
      /\ turn \in [Runs -> [i : Nat, stage : Stages]] /\ turn[r].i \in Nat
  BY DEF TypeOK
<1>2. ASSUME UNCHANGED promises PROVE Rewritten(r)
  BY <1>2 DEF Rewritten
<1>3. ASSUME NEW to, Stage(r, to) PROVE turn'[r].stage = to
  BY <1>1, <1>3 DEF Stage
<1>4. ASSUME NEW l \in Loops, Advance(l, r) PROVE Orderly(r)'
  <2>1. /\ turn' = turn /\ (Active(r)' => Active(r)) /\ run'[r].sentAt = run[r].sentAt
    BY <1>4, AdvanceBooks, AdvanceKeepsSent
  <2>2. CASE UNCHANGED promises
    BY <2>1, <2>2, <1>2, OrderlyKept
  <2>3. CASE FirstPromise(l, r) \/ Replay(l, r)
    <3>1. /\ \A i \in DOMAIN promises[r] : promises[r][i].rang # Never
          /\ turn[r].stage \notin {"briefed", "acting", "left"}
      BY <2>3, BookedWhenSettled
    <3>2. PICK at \in Nat : Book(r, at)
      BY <2>3, BookedWhenSettled
    <3>3. at > run[r].sentAt /\ \A i \in DOMAIN promises[r] : promises[r][i].at <= at
      BY <3>2 DEF Book, Clean
    <3>. DEFINE n == Len(promises[r]) + 1
    <3>4. /\ DOMAIN promises'[r] = 1..n /\ Len(promises'[r]) = n
          /\ DOMAIN promises[r] = 1..Len(promises[r]) /\ Len(promises[r]) \in Nat
          /\ \A i \in DOMAIN promises[r] : promises'[r][i] = promises[r][i]
          /\ promises'[r][n].at = at /\ promises'[r][n].rang = Never
          /\ promises'[r][n].outcome = "null"
      BY <3>2, BookAppends
    <3>5. \A i \in 1..n : i = n \/ i \in DOMAIN promises[r]
      BY <3>4
    <3>6. \A i \in 1..n : i <= n /\ (n <= i => i = n)
      BY <3>4
    <3>7. \A i, j \in DOMAIN promises[r] : i <= j => promises[r][i].at <= promises[r][j].at
      BY DEF Orderly
    <3>. HIDE DEF n
    <3>8. ASSUME NEW i \in DOMAIN promises'[r], NEW j \in DOMAIN promises'[r], i <= j
          PROVE  promises'[r][i].at <= promises'[r][j].at
      <4>1. CASE j = n
        BY <3>2, <3>3, <3>4, <3>5, <4>1
      <4>2. CASE j # n
        <5>1. i # n /\ j \in DOMAIN promises[r]
          BY <3>4, <3>5, <3>6, <3>8, <4>2
        <5>2. QED
          BY <3>4, <3>5, <3>7, <3>8, <5>1
      <4>3. QED
        BY <4>1, <4>2
    <3>9. ASSUME NEW i \in DOMAIN promises'[r], promises'[r][i].rang = Never
          PROVE  /\ i = Len(promises'[r]) /\ promises'[r][i].at > run'[r].sentAt
                 /\ promises'[r][i].outcome = "null"
      <4>1. i = n
        BY <3>1, <3>4, <3>5, <3>9
      <4>2. QED
        BY <2>1, <3>3, <3>4, <4>1
    <3>10. QED
      BY <2>1, <3>1, <3>8, <3>9 DEF Orderly
  <2>4. QED
    <3>1. CASE ~(FirstPromise(l, r) \/ Replay(l, r))
      <4>1. UNCHANGED promises
        BY <1>4, <3>1 DEF Advance, LeftAsItIs, Moves, Leave, StillToRing, Overdue, TurnGoesOn,
               Declined, LetterIsHeld, NoCharter, GiveUp, BooksNothing
      <4>2. QED
        BY <2>2, <4>1
    <3>2. QED
      BY <2>3, <3>1
<1>5. ASSUME NEW i \in DOMAIN promises[r], Ring(r, i) PROVE Orderly(r)'
  <2>1. /\ Rewritten(r) /\ promises'[r][i].rang # Never
        /\ \A j \in DOMAIN promises[r] \ {i} : promises'[r][j] = promises[r][j]
        /\ promises'[r][i].outcome = promises[r][i].outcome
    BY <1>5, RingRewrites
  <2>2. /\ run' = run /\ promises[r][i].rang = Never
        /\ turn'[r].i = i
    BY <1>1, <1>5 DEF Ring
  <2>3. Active(r)' => Active(r) /\ run'[r].sentAt = run[r].sentAt
    BY <2>2 DEF Active
  <2>4. ASSUME NEW j \in DOMAIN promises'[r], NEW k \in DOMAIN promises'[r], j <= k
        PROVE  promises'[r][j].at <= promises'[r][k].at
    BY <2>1, <2>4 DEF Rewritten, Orderly
  <2>5. ASSUME Active(r)', NEW j \in DOMAIN promises'[r]
        PROVE  promises'[r][j].rang # Never
    <3>1. ASSUME promises'[r][j].rang = Never PROVE FALSE
      <4>1. j # i /\ j \in DOMAIN promises[r] /\ promises[r][j].rang = Never
        BY <2>1, <3>1 DEF Rewritten
      <4>2. QED
        BY <2>2, <2>3, <2>5, <4>1 DEF Orderly
    <3>2. QED
      BY <3>1
  <2>6. ASSUME Active(r)'
        PROVE  /\ i = Len(promises'[r]) /\ promises'[r][i].at > run'[r].sentAt
               /\ promises'[r][i].outcome = "null"
    <3>1. i = Len(promises[r]) /\ promises[r][i].at > run[r].sentAt
          /\ promises[r][i].outcome = "null"
      BY <2>2, <2>3, <2>6 DEF Orderly
    <3>2. QED
      BY <2>1, <2>3, <2>6, <3>1 DEF Rewritten
  <2>7. QED
    BY <2>2, <2>4, <2>5, <2>6 DEF Orderly
<1>6. CASE Send(r)
  <2>1. UNCHANGED promises /\ run' = run
    BY <1>6 DEF Send
  <2>2. /\ turn'[r].i = turn[r].i
        /\ turn'[r].stage = "left" => turn[r].stage \in {"briefed", "acting"}
        /\ turn'[r].stage \in {"left", "further"}
    BY <1>1, <1>6 DEF Send, Acting, Stage
  <2>3. QED
    BY <1>2, <2>1, <2>2, OrderlyKept DEF Active
<1>7. CASE HoldsBack(r)
  <2>1. /\ run' = run /\ turn'[r].i = turn[r].i
        /\ turn'[r].stage = "acting" => turn[r].stage \in {"briefed", "acting"}
        /\ turn'[r].stage \in {"acting", "wrote"}
    BY <1>1, <1>7 DEF HoldsBack, Acting, Stage
  <2>2. CASE UNCHANGED promises
    BY <1>2, <2>1, <2>2, OrderlyKept DEF Active
  <2>3. ASSUME NEW what \in {"question", "refusal"},
               promises' = [promises EXCEPT ![r][turn[r].i].heard = what]
        PROVE  Orderly(r)'
    <3>1. Rewritten(r) /\ \A j \in DOMAIN promises[r] :
            promises'[r][j].outcome = promises[r][j].outcome
      BY <1>1, <2>3, NoteRewrites
    <3>2. turn[r].stage # "asleep" => turn[r].i \in DOMAIN promises[r]
      BY DEF InHand
    <3>3. QED
      BY <2>1, <3>1, <3>2, OrderlyKept DEF Active
  <2>4. QED
    BY <1>7, <2>2, <2>3 DEF HoldsBack, Hears
<1>8. CASE Chase(r)
  <2>1. turn[r].stage \in {"left", "further"} /\ turn'[r].stage = "wrote"
    BY <1>3, <1>8 DEF Chase
  <2>2. Sent(r)
    BY <1>8 DEF Chase, Mishap, Clean
  <2>3. UNCHANGED promises /\ Rewritten(r)
    BY <1>2, <2>2 DEF Sent
  <2>4. CASE Active(r) /\ turn[r].stage = "left"
    <3>1. /\ turn[r].i \in DOMAIN promises[r] /\ promises[r][turn[r].i].rang # Never
          /\ turn[r].i = Len(promises[r])
      BY <2>1, <2>4 DEF InHand, Orderly
    <3>2. \A i \in DOMAIN promises[r] : promises[r][i].rang # Never
      BY <2>4, <3>1 DEF Orderly
    <3>3. \A i, j \in DOMAIN promises[r] : i <= j => promises[r][i].at <= promises[r][j].at
      BY DEF Orderly
    <3>4. QED
      BY <2>1, <2>3, <3>2, <3>3 DEF Orderly
  <2>5. CASE ~Active(r) \/ turn[r].stage = "further"
    <3>5. ~Awaited(r)
      BY <2>5, FurtherMovesNothing DEF Awaited
    <3>1. run' = [run EXCEPT ![r] = [run[r] EXCEPT !.touches = run[r].touches + 1]]
      BY <2>2, <3>5 DEF Sent
    <3>2. run'[r] = [run[r] EXCEPT !.touches = run[r].touches + 1]
      BY <1>1, <3>1
    <3>3. run'[r].state = run[r].state /\ run'[r].sentAt = run[r].sentAt
      BY <1>1, <3>2 DEF Position
    <3>4. QED
      BY <2>1, <2>3, <3>3, OrderlyKept DEF Active
  <2>6. QED
    BY <2>1, <2>4, <2>5
<1>9. CASE Ends(r)
  <2>1. run' = run /\ turn'[r].stage = "asleep"
    BY <1>1, <1>9 DEF Ends, Asleep
  <2>2. turn[r].stage # "asleep"
    BY <1>9 DEF Ends
  <2>3. CASE UNCHANGED promises
    BY <1>2, <2>1, <2>3, OrderlyKept DEF Active
  <2>4. ASSUME NEW o \in Outcomes, promises' = [promises EXCEPT ![r][turn[r].i].outcome = o]
        PROVE  Orderly(r)'
    <3>1. /\ Rewritten(r)
          /\ \A j \in DOMAIN promises[r] :
               /\ promises'[r][j].rang = promises[r][j].rang
               /\ j # turn[r].i => promises'[r][j].outcome = promises[r][j].outcome
      BY <1>1, <2>4, NoteRewrites
    <3>2. promises[r][turn[r].i].rang # Never
      BY <2>2 DEF InHand
    <3>3. \A j \in DOMAIN promises[r] : promises'[r][j].rang = Never =>
            promises'[r][j].outcome = promises[r][j].outcome
      BY <3>1, <3>2
    <3>4. QED
      BY <2>1, <3>1, <3>3, OrderlyKept DEF Active
  <2>5. QED
    BY <1>9, <2>3, <2>4 DEF Ends
<1>10. CASE Replied(r) \/ Unenroll(r)
  <2>1. Rewritten(r)
    BY <1>10, SettlingRewrites
  <2>2. ASSUME NEW why, NEW s, s # "active", Stop(r, s, why) PROVE run'[r].state # "active"
    <3>1. run'[r] = [run[r] EXCEPT !.state = s, !.reason = why, !.nextAt = Never]
      BY <1>1, <2>2 DEF Stop
    <3>2. QED
      BY <1>1, <2>2, <3>1 DEF Position
  <2>3. ~Active(r)'
    <3>1. CASE Unenroll(r)
      BY <2>2, <3>1 DEF Unenroll, Active
    <3>2. CASE Replied(r) /\ Active(r)
      BY <2>2, <3>2 DEF Replied, Active
    <3>3. CASE Replied(r) /\ ~Active(r)
      BY <3>3 DEF Replied, Active
    <3>4. QED
      BY <1>10, <3>1, <3>2, <3>3
  <2>4. QED
    BY <2>1, <2>3, OrderlyKept
<1>11. CASE Decide(r, "redeemed") \/ Decide(r, "denied") \/ Deliver(r) \/ ChaseApproved(r)
  BY <1>11 DEF NotHeld, Clean, NoLetter, Decide, Deliver, ChaseApproved
<1>12. CASE UnenrollReads(r) \/ Suppress(r) \/ Seen(r)
  <2>1. run' = run /\ turn' = turn /\ UNCHANGED promises
    BY <1>12 DEF UnenrollReads, Suppress, Seen
  <2>2. QED
    BY <1>2, <2>1, OrderlyKept DEF Active
<1>13. QED
  BY <1>4, <1>5, <1>6, <1>7, <1>8, <1>9, <1>10, <1>11, <1>12 DEF RunStep

\* The clock does not go back.
LEMMA ClockGrows ==
  ASSUME TypeOK, [Next]_vars
  PROVE  clock' >= clock
<1>. USE DEF rows, world, hands, loops, history, bounds
<1>1. clock \in Nat
  BY NeverIsLate DEF TypeOK
<1>2. ASSUME clock' = clock PROVE clock' >= clock
  BY <1>1, <1>2
<1>3. ASSUME clock' = clock + 1 PROVE clock' >= clock
  BY <1>1, <1>3
<1>4. CASE UNCHANGED vars \/ (\E l \in Loops : Tick(l)) \/ PutCharter
  BY <1>2, <1>4 DEF vars, Tick, PutCharter
<1>5. CASE Elapse
  BY <1>3, <1>5 DEF Elapse
<1>6. ASSUME NEW r \in Runs, RunStep(r) PROVE clock' >= clock
  <2>1. ASSUME NEW l \in Loops, Advance(l, r) PROVE clock' = clock
    BY <2>1 DEF Advance, LeftAsItIs, Moves, Leave, FirstPromise, StillToRing, Overdue,
           TurnGoesOn, Declined, LetterIsHeld, NoCharter, Replay, GiveUp, Settles, Open,
           Judges, Writes, Takes
  <2>2. CASE Chase(r) \/ ChaseApproved(r)
    BY <1>2, <1>3, <2>2 DEF Chase, ChaseApproved, Sent
  <2>3. CASE \/ (\E i \in DOMAIN promises[r] : Ring(r, i)) \/ Send(r) \/ HoldsBack(r) \/ Ends(r)
             \/ Decide(r, "redeemed") \/ Decide(r, "denied") \/ Deliver(r)
             \/ Replied(r) \/ UnenrollReads(r) \/ Unenroll(r) \/ Suppress(r) \/ Seen(r)
    BY <1>2, <2>3 DEF Ring, Send, HoldsBack, Ends, Decide, Deliver, Replied, UnenrollReads,
           Unenroll, Suppress, Seen
  <2>4. QED
    BY <1>2, <1>6, <2>1, <2>2, <2>3 DEF RunStep
<1>7. QED
  <2>1. CASE \E r \in Runs : RunStep(r)
    BY <1>6, <2>1
  <2>2. CASE ~\E r \in Runs : RunStep(r)
    BY <1>4, <1>5, <2>2 DEF Next, RunStep
  <2>3. QED
    BY <2>1, <2>2

\* Nothing rings behind the back of a turn, and a letter passes all that rang.
LEMMA PastByStep ==
  ASSUME TypeOK, TypeOK', [Next]_vars, NEW r \in Runs, RunStep(r), Clean(r), Clean(r)',
         InHand(r), NotHeld(r), Orderly(r), Past(r)
  PROVE  Past(r)'
<1>. USE DEF rows, world, hands, loops, history, bounds
<1>1. /\ run \in [Runs -> Position] /\ run[r] \in Position /\ run[r].sentAt \in Nat
      /\ turn \in [Runs -> [i : Nat, stage : Stages]] /\ turn[r].i \in Nat
  BY DEF TypeOK, Position
<1>2. clock' >= clock /\ clock \in Nat /\ clock' \in Nat
  BY ClockGrows, NeverIsLate DEF TypeOK
<1>3. ASSUME NEW to, Stage(r, to) PROVE turn'[r].stage = to
  BY <1>1, <1>3 DEF Stage
<1>4. ASSUME NEW i \in DOMAIN promises[r] PROVE promises[r][i].at \in Nat
  BY PromiseIsTyped DEF Promise
<1>5. ASSUME Active(r)' => Active(r) /\ run'[r].sentAt = run[r].sentAt,
             turn'[r].stage \in {"wrote", "further"} => turn[r].stage \in {"wrote", "further"},
             \A i \in DOMAIN promises'[r] : promises'[r][i].rang # Never =>
               /\ i \in DOMAIN promises[r] /\ promises[r][i].rang # Never
               /\ promises'[r][i].at = promises[r][i].at
      PROVE  Past(r)'
  <2>1. ASSUME Active(r)', NEW i \in DOMAIN promises'[r], promises'[r][i].rang # Never
        PROVE  promises'[r][i].at <= clock'
    <3>1. promises[r][i].at <= clock /\ promises[r][i].at \in Nat
          /\ promises'[r][i].at = promises[r][i].at
      BY <1>4, <1>5, <2>1 DEF Past
    <3>2. QED
      BY <1>2, <3>1
  <2>2. QED
    BY <1>5, <2>1 DEF Past
<1>6. ASSUME ~Active(r)' PROVE Past(r)'
  BY <1>6 DEF Past
<1>7. ASSUME NEW l \in Loops, Advance(l, r) PROVE Past(r)'
  <2>1. /\ turn' = turn /\ (Active(r)' => Active(r)) /\ run'[r].sentAt = run[r].sentAt
    BY <1>7, AdvanceBooks, AdvanceKeepsSent
  <2>2. CASE UNCHANGED promises
    BY <1>5, <2>1, <2>2
  <2>3. ASSUME NEW at, Book(r, at) PROVE Past(r)'
    <3>. DEFINE n == Len(promises[r]) + 1
    <3>1. /\ DOMAIN promises'[r] = 1..n
          /\ DOMAIN promises[r] = 1..Len(promises[r]) /\ Len(promises[r]) \in Nat
          /\ \A i \in DOMAIN promises[r] : promises'[r][i] = promises[r][i]
          /\ promises'[r][n].rang = Never
      BY <2>3, BookAppends
    <3>2. \A i \in 1..n : i = n \/ i \in DOMAIN promises[r]
      BY <3>1
    <3>. HIDE DEF n
    <3>3. \A i \in DOMAIN promises'[r] : promises'[r][i].rang # Never =>
            /\ i \in DOMAIN promises[r] /\ promises[r][i].rang # Never
            /\ promises'[r][i].at = promises[r][i].at
      BY <3>1, <3>2
    <3>4. QED
      BY <1>5, <2>1, <3>3
  <2>4. QED
    BY <1>7, <2>2, <2>3, AdvanceBooks
<1>8. ASSUME NEW i \in DOMAIN promises[r], Ring(r, i) PROVE Past(r)'
  <2>1. /\ Rewritten(r)
        /\ \A j \in DOMAIN promises[r] \ {i} : promises'[r][j] = promises[r][j]
    BY <1>8, RingRewrites
  <2>2. /\ run' = run /\ clock' = clock /\ promises[r][i].at <= clock
        /\ turn'[r].stage \in {"briefed", "unbriefed"}
    BY <1>1, <1>8 DEF Ring
  <2>3. ASSUME Active(r)', NEW j \in DOMAIN promises'[r], promises'[r][j].rang # Never
        PROVE  promises'[r][j].at <= clock'
    <3>1. CASE j = i
      BY <2>1, <2>2, <3>1 DEF Rewritten
    <3>2. CASE j # i
      BY <2>1, <2>2, <2>3, <3>2 DEF Rewritten, Past, Active
    <3>3. QED
      BY <3>1, <3>2
  <2>4. QED
    BY <2>2, <2>3 DEF Past
<1>9. CASE Send(r)
  <2>1. /\ run' = run /\ UNCHANGED promises
        /\ turn'[r].stage \in {"wrote", "further"} => turn[r].stage \in {"wrote", "further"}
    BY <1>3, <1>9 DEF Send
  <2>2. QED
    BY <1>5, <2>1 DEF Active
<1>10. CASE HoldsBack(r)
  <2>1. /\ run' = run
        /\ turn'[r].stage \in {"wrote", "further"} => turn[r].stage \in {"wrote", "further"}
    BY <1>3, <1>10 DEF HoldsBack
  <2>2. CASE UNCHANGED promises
    BY <1>5, <2>1, <2>2 DEF Active
  <2>3. ASSUME NEW what \in {"question", "refusal"},
               promises' = [promises EXCEPT ![r][turn[r].i].heard = what]
        PROVE  Past(r)'
    <3>1. Rewritten(r) /\ \A j \in DOMAIN promises[r] : promises'[r][j].rang = promises[r][j].rang
      BY <1>1, <2>3, NoteRewrites
    <3>2. QED
      BY <1>5, <2>1, <3>1 DEF Active, Rewritten
  <2>4. QED
    BY <1>10, <2>2, <2>3 DEF HoldsBack, Hears
<1>11. CASE Chase(r)
  <2>1. turn[r].stage \in {"left", "further"} /\ UNCHANGED promises /\ Sent(r)
    BY <1>11 DEF Chase, Mishap, Clean, Sent
  <2>2. CASE Awaited(r)
    <3>1. run'[r] = [run[r] EXCEPT !.step = Earliest(run[r].step + 1, Len(Program) + 1),
                           !.sentAt = clock, !.nextAt = clock, !.threaded = TRUE,
                           !.touches = run[r].touches + 1]
      BY <1>1, <2>1, <2>2 DEF Sent
    <3>2. run'[r].sentAt = clock
      BY <1>1, <3>1 DEF Position
    <3>3. ASSUME NEW i \in DOMAIN promises'[r], promises'[r][i].rang # Never
          PROVE  promises'[r][i].at <= clock /\ promises'[r][i].at <= clock'
      <4>1. promises[r][i].at <= clock /\ promises[r][i].at \in Nat
        BY <1>4, <2>1, <2>2, <3>3 DEF Past, Awaited
      <4>2. QED
        BY <1>2, <2>1, <4>1
    <3>4. QED
      BY <3>2, <3>3 DEF Past
  <2>3. CASE ~Awaited(r)
    <3>1. run' = [run EXCEPT ![r] = [run[r] EXCEPT !.touches = run[r].touches + 1]]
      BY <2>1, <2>3 DEF Sent
    <3>2. run'[r] = [run[r] EXCEPT !.touches = run[r].touches + 1]
      BY <1>1, <3>1
    <3>3. run'[r].state = run[r].state /\ run'[r].sentAt = run[r].sentAt
      BY <1>1, <3>2 DEF Position
    <3>4. ASSUME Active(r), turn[r].stage = "left" PROVE FALSE
      <4>1. turn[r].i \in Rung(r)
        BY <3>4 DEF InHand, Orderly, Rung, Current
      <4>2. QED
        BY <2>3, <3>4, <4>1 DEF Awaited
    <3>5. CASE turn[r].stage = "further"
      BY <1>5, <2>1, <3>3, <3>5 DEF Active
    <3>6. CASE turn[r].stage = "left"
      BY <1>6, <3>3, <3>4, <3>6 DEF Active
    <3>7. QED
      BY <2>1, <3>5, <3>6
  <2>4. QED
    BY <2>2, <2>3
<1>12. CASE Ends(r)
  <2>1. run' = run /\ turn'[r].stage = "asleep"
    BY <1>1, <1>12 DEF Ends, Asleep
  <2>2. CASE UNCHANGED promises
    BY <1>5, <2>1, <2>2 DEF Active
  <2>3. ASSUME NEW o \in Outcomes, promises' = [promises EXCEPT ![r][turn[r].i].outcome = o]
        PROVE  Past(r)'
    <3>1. Rewritten(r) /\ \A j \in DOMAIN promises[r] : promises'[r][j].rang = promises[r][j].rang
      BY <1>1, <2>3, NoteRewrites
    <3>2. QED
      BY <1>5, <2>1, <3>1 DEF Active, Rewritten
  <2>4. QED
    BY <1>12, <2>2, <2>3 DEF Ends
<1>13. CASE Replied(r) \/ Unenroll(r)
  <2>1. ASSUME NEW s, NEW why, s # "active", Stop(r, s, why) PROVE run'[r].state # "active"
    <3>1. run'[r] = [run[r] EXCEPT !.state = s, !.reason = why, !.nextAt = Never]
      BY <1>1, <2>1 DEF Stop
    <3>2. QED
      BY <1>1, <2>1, <3>1 DEF Position
  <2>2. CASE Unenroll(r)
    BY <1>6, <2>1, <2>2 DEF Unenroll, Active
  <2>3. CASE Replied(r) /\ Active(r)
    BY <1>6, <2>1, <2>3 DEF Replied, Active
  <2>4. CASE Replied(r) /\ ~Active(r)
    BY <1>6, <2>4 DEF Replied, Active
  <2>5. QED
    BY <1>13, <2>2, <2>3, <2>4
<1>14. CASE Decide(r, "redeemed") \/ Decide(r, "denied") \/ Deliver(r) \/ ChaseApproved(r)
  BY <1>14 DEF NotHeld, Clean, NoLetter, Decide, Deliver, ChaseApproved
<1>15. CASE UnenrollReads(r) \/ Suppress(r) \/ Seen(r)
  <2>1. run' = run /\ turn' = turn /\ UNCHANGED promises
    BY <1>15 DEF UnenrollReads, Suppress, Seen
  <2>2. QED
    BY <1>5, <2>1 DEF Active
<1>16. QED
  BY <1>7, <1>8, <1>9, <1>10, <1>11, <1>12, <1>13, <1>14, <1>15 DEF RunStep

\* A turn that wrote is the last promise's, of a step no other wrote for.
LEMMA ToldByStep ==
  ASSUME TypeOK, NEW r \in Runs, RunStep(r), Clean(r), Clean(r)',
         InHand(r), NotHeld(r), Past(r), Orderly(r), Told(r)
  PROVE  Told(r)'
<1>. USE DEF rows, world, hands, loops, history, bounds
<1>1. /\ run \in [Runs -> Position] /\ run[r] \in Position /\ writers \in [Runs -> Nat]
      /\ turn \in [Runs -> [i : Nat, stage : Stages]]
  BY DEF TypeOK
<1>2. /\ writers[r] <= 1
      /\ turn[r].stage # "left" /\ (Active(r) \/ turn[r].stage \in {"briefed", "acting"}) =>
           writers[r] = 0
  BY DEF Told
<1>3. ASSUME NEW to, Stage(r, to) PROVE turn'[r].stage = to
  BY <1>1, <1>3 DEF Stage
<1>4. ASSUME writers'[r] = 0 PROVE Told(r)'
  BY <1>4 DEF Told
<1>5. ASSUME writers'[r] = writers[r],
             turn'[r].stage # "left" /\ (Active(r)' \/ turn'[r].stage \in {"briefed", "acting"}) =>
               turn[r].stage # "left" /\ (Active(r) \/ turn[r].stage \in {"briefed", "acting"})
      PROVE  Told(r)'
  BY <1>2, <1>5 DEF Told
<1>6. ASSUME NEW l \in Loops, Advance(l, r) PROVE Told(r)'
  <2>1. turn' = turn /\ (Active(r)' => Active(r))
    BY <1>6, AdvanceBooks, AdvanceKeepsSent
  <2>2. CASE Moves(l, r)
    BY <1>1, <1>4, <2>2 DEF Moves, Afresh
  <2>3. CASE ~Moves(l, r)
    <3>1. writers' = writers
      <4>1. CASE FirstPromise(l, r) \/ Replay(l, r)
        BY <4>1 DEF FirstPromise, Replay, Book
      <4>2. CASE ~(FirstPromise(l, r) \/ Replay(l, r))
        BY <1>6, <2>3, <4>2 DEF Advance, LeftAsItIs, Leave, StillToRing, Overdue, TurnGoesOn,
               Declined, LetterIsHeld, NoCharter, GiveUp, BooksNothing
      <4>3. QED
        BY <4>1, <4>2
    <3>2. QED
      BY <1>5, <2>1, <3>1
  <2>4. QED
    BY <2>2, <2>3
<1>7. ASSUME NEW i \in DOMAIN promises[r], Ring(r, i) PROVE Told(r)'
  <2>1. /\ run' = run /\ writers' = writers /\ turn[r].stage = "asleep"
        /\ turn'[r].stage = IF Active(r) /\ Kind(r) = "email" THEN "briefed" ELSE "unbriefed"
    BY <1>1, <1>7 DEF Ring, Asleep
  <2>2. QED
    BY <1>5, <2>1 DEF Active
<1>8. CASE Send(r)
  <2>1. run' = run /\ turn[r].stage \in {"briefed", "acting", "wrote"}
    BY <1>8 DEF Send, Acting
  <2>2. CASE turn[r].stage = "wrote"
    <3>1. turn'[r].stage = "further" /\ writers' = writers
      BY <1>3, <1>8, <2>2 DEF Send
    <3>2. QED
      BY <1>5, <2>1, <2>2, <3>1 DEF Active
  <2>3. CASE turn[r].stage # "wrote"
    <3>1. turn'[r].stage = "left" /\ writers'[r] = writers[r] + 1
      BY <1>1, <1>3, <1>8, <2>3 DEF Send
    <3>2. writers[r] = 0
      BY <1>2, <2>1, <2>3
    <3>3. QED
      BY <3>1, <3>2 DEF Told
  <2>4. QED
    BY <2>2, <2>3
<1>9. CASE HoldsBack(r)
  <2>1. /\ turn[r].stage \in {"briefed", "acting", "wrote"} /\ writers' = writers /\ run' = run
        /\ turn'[r].stage = IF turn[r].stage = "wrote" THEN "wrote" ELSE "acting"
    BY <1>3, <1>9 DEF HoldsBack, Acting
  <2>2. QED
    BY <1>5, <2>1 DEF Active
<1>10. CASE Chase(r)
  <2>1. turn[r].stage \in {"left", "further"} /\ turn'[r].stage = "wrote"
    BY <1>3, <1>10 DEF Chase
  <2>2. Sent(r)
    BY <1>10 DEF Chase, Mishap, Clean
  <2>3. CASE Awaited(r)
    BY <1>1, <1>4, <2>2, <2>3 DEF Sent, Afresh
  <2>4. CASE ~Awaited(r)
    <3>1. ASSUME Active(r), turn[r].stage = "left" PROVE FALSE
      <4>1. turn[r].i \in Rung(r)
        BY <3>1 DEF InHand, Orderly, Rung, Current
      <4>2. QED
        BY <2>4, <3>1, <4>1 DEF Awaited
    <3>2. run' = [run EXCEPT ![r] = [run[r] EXCEPT !.touches = run[r].touches + 1]]
          /\ writers' = writers
      BY <2>2, <2>4 DEF Sent
    <3>3. run'[r] = [run[r] EXCEPT !.touches = run[r].touches + 1]
      BY <1>1, <3>2
    <3>4. run'[r].state = run[r].state
      BY <1>1, <3>3 DEF Position
    <3>5. QED
      BY <1>5, <2>1, <3>1, <3>2, <3>4 DEF Active
  <2>5. QED
    BY <2>3, <2>4
<1>11. CASE Ends(r)
  <2>1. /\ run' = run /\ writers' = writers /\ turn'[r].stage = "asleep"
        /\ turn[r].stage # "left"
    BY <1>1, <1>11 DEF Ends, Asleep
  <2>2. QED
    BY <1>5, <2>1 DEF Active
<1>12. CASE Replied(r) \/ Unenroll(r)
  <2>1. ASSUME NEW s, NEW why, s # "active", Stop(r, s, why) PROVE run'[r].state # "active"
    <3>1. run'[r] = [run[r] EXCEPT !.state = s, !.reason = why, !.nextAt = Never]
      BY <1>1, <2>1 DEF Stop
    <3>2. QED
      BY <1>1, <2>1, <3>1 DEF Position
  <2>2. CASE Unenroll(r)
    <3>1. writers' = writers /\ turn' = turn /\ ~Active(r)'
      BY <2>1, <2>2 DEF Unenroll, Active
    <3>2. QED
      BY <1>5, <3>1
  <2>3. CASE Replied(r) /\ ~Unenroll(r)
    <3>1. writers' = writers /\ turn' = turn /\ (Active(r)' => Active(r))
      BY <2>1, <2>3 DEF Replied, Active
    <3>2. QED
      BY <1>5, <3>1
  <2>4. QED
    BY <1>12, <2>2, <2>3
<1>13. CASE Decide(r, "redeemed") \/ Decide(r, "denied") \/ Deliver(r) \/ ChaseApproved(r)
  BY <1>13 DEF NotHeld, Clean, NoLetter, Decide, Deliver, ChaseApproved
<1>14. CASE UnenrollReads(r) \/ Suppress(r) \/ Seen(r)
  <2>1. run' = run /\ turn' = turn /\ writers' = writers
    BY <1>14 DEF UnenrollReads, Suppress, Seen
  <2>2. QED
    BY <1>5, <2>1 DEF Active
<1>15. QED
  BY <1>6, <1>7, <1>8, <1>9, <1>10, <1>11, <1>12, <1>13, <1>14 DEF RunStep

\* Only a step that leaves the run clean has something to keep.
LEMMA OneTurnStep ==
  ASSUME TypeOK, TypeOK', [Next]_vars,
         \A q \in Runs : InHand(q) /\ NotHeld(q) /\ Past(q) /\ Orderly(q) /\ Told(q)
  PROVE  \A q \in Runs : Past(q)' /\ Orderly(q)' /\ Told(q)'
<1>1. SUFFICES ASSUME NEW r \in Runs PROVE Past(r)' /\ Orderly(r)' /\ Told(r)'
  OBVIOUS
<1>2. CASE ~Clean(r)'
  BY <1>2 DEF Past, Orderly, Told
<1>3. CASE Clean(r)'
  <2>1. Clean(r) /\ InHand(r) /\ NotHeld(r) /\ Past(r) /\ Orderly(r) /\ Told(r)
    BY <1>3, CleanBefore
  <2>2. CASE Same(r)
    <3>1. Orderly(r)' /\ Told(r)'
      BY <2>1, <2>2 DEF Same, Orderly, Told, Active
    <3>2. clock' >= clock /\ clock \in Nat /\ clock' \in Nat
      BY ClockGrows, NeverIsLate DEF TypeOK
    <3>3. ASSUME Active(r)', NEW i \in DOMAIN promises'[r], promises'[r][i].rang # Never
          PROVE  promises'[r][i].at <= clock'
      <4>1. promises[r][i].at <= clock /\ promises[r][i] \in Promise
        BY <2>1, <2>2, <3>3, PromiseIsTyped DEF Same, Past, Active
      <4>2. promises[r][i].at \in Nat /\ promises'[r][i] = promises[r][i]
        BY <2>2, <4>1 DEF Same, Promise
      <4>3. QED
        BY <3>2, <4>1, <4>2
    <3>4. Past(r)'
      BY <2>1, <2>2, <3>3 DEF Same, Past, Active
    <3>5. QED
      BY <3>1, <3>4
  <2>3. CASE RunStep(r)
    BY <1>3, <2>1, <2>3, PastByStep, OrderlyByStep, ToldByStep
  <2>4. QED
    BY <2>2, <2>3, StepsOfOne
<1>4. QED
  BY <1>2, <1>3

-----------------------------------------------------------------------------
(* The theorems                                                            *)

\* Everything the theorems rest on.
IInv ==
  /\ TypeOK
  /\ \A q \in Runs : InHand(q) /\ Quiet(q) /\ NotHeld(q) /\ Past(q) /\ Orderly(q) /\ Told(q)

\* A run starts with no promise and no letter.
LEMMA InitHolds == Init => IInv
<1>1. SUFFICES ASSUME Init PROVE IInv
  OBVIOUS
<1>2. TypeOK
  <2>1. Len(Program) \in Nat /\ Len(Program) >= 1
    BY SequenceRunsAssumption
  <2>2. Enrolled \in Position
    BY <2>1 DEF Enrolled, Position, States, Reasons
  <2>3. <<>> \in Seq(Promise)
    OBVIOUS
  <2>4. Asleep \in [i : Nat, stage : Stages] /\ NoLetter \in Letter
    BY DEF Asleep, NoLetter, Letter, Stages
  <2>5. clock \in 0..MaxTime
    BY <1>1, SequenceRunsAssumption, Constants DEF Init
  <2>6. 0 \in 0..MaxTime /\ 0 \in 0..MaxMishaps /\ 0 \in 0..MaxActs
    BY Constants
  <2>7. QED
    BY <1>1, <2>2, <2>3, <2>4, <2>5, <2>6 DEF Init, TypeOK
<1>3. ASSUME NEW q \in Runs PROVE InHand(q) /\ Quiet(q) /\ NotHeld(q) /\ Past(q) /\ Orderly(q) /\ Told(q)
  <2>1. /\ run[q] = Enrolled /\ promises[q] = <<>> /\ turn[q] = Asleep /\ review[q] = NoLetter
        /\ writers[q] = 0
    BY <1>1 DEF Init
  <2>2. DOMAIN promises[q] = {}
    BY <2>1
  <2>3. QED
    BY <2>1, <2>2 DEF InHand, Quiet, NotHeld, Past, Orderly, Told, Enrolled, Asleep
<1>4. QED
  BY <1>2, <1>3 DEF IInv

\* The invariant is inductive.
LEMMA InvProved == Spec => []IInv
<1>1. Init => IInv
  BY InitHolds
<1>2. IInv /\ [Next]_vars => IInv'
  <2>1. SUFFICES ASSUME IInv, [Next]_vars PROVE IInv'
    OBVIOUS
  <2>2. TypeOK /\ TypeOK'
    BY <2>1, TypesStep DEF IInv
  <2>3. \A q \in Runs : InHand(q)' /\ Quiet(q)' /\ NotHeld(q)'
    BY <2>1, <2>2, InHandStep, QuietStep, NotHeldStep DEF IInv
  <2>4. \A q \in Runs : Past(q)' /\ Orderly(q)' /\ Told(q)'
    BY <2>1, <2>2, OneTurnStep DEF IInv
  <2>5. QED
    BY <2>2, <2>3, <2>4 DEF IInv
<1>3. QED
  BY <1>1, <1>2, PTL DEF Spec

\* The state of a run, its promises, its turn and who wrote stay what the
\* rows may hold, whoever writes them (advance, sent, land, unenroll).
THEOREM TypesProved == Spec => []TypeOK
<1>1. IInv => TypeOK
  BY DEF IInv
<1>2. QED
  BY <1>1, InvProved, PTL

\* A step is written by one turn, whatever the polls, the replays and the
\* listings of any number of loops, while every letter is recorded, none is held
\* for review and no promise is booked behind another; what the turn writes
\* after its first letter moves no run (advance, perform, sent).
THEOREM OneTurnProved == Spec => []OneTurnPerStep
<1>1. IInv => OneTurnPerStep
  BY FurtherMovesNothing DEF IInv, Told, Clean, OneTurnPerStep
<1>2. QED
  BY <1>1, InvProved, PTL

\* No promise of a contact taken out of a sequence is left to ring, nor booked
\* by an advance that comes after (unenroll, advance).
THEOREM UnenrolledProved == Spec => []UnenrolledIsNotWoken
<1>1. IInv => UnenrolledIsNotWoken
  BY DEF IInv, Quiet, UnenrolledIsNotWoken
<1>2. QED
  BY <1>1, InvProved, PTL

\* A run that has ended books nothing, moves nowhere and is not revived
\* (advance, sent, land).
THEOREM EndedProved == Spec => EndedIsOver
<1>1. TypeOK /\ [Next]_vars =>
        [\A r \in Runs : ~Active(r) =>
           /\ run'[r].state # "active" /\ run'[r].step = run[r].step
           /\ Len(promises'[r]) = Len(promises[r])]_vars
  BY EndedStep
<1>2. QED
  BY <1>1, TypesProved, PTL DEF Spec, EndedIsOver
=============================================================================
