--------------------------- MODULE Inbound_proofs ---------------------------
(***************************************************************************)
(* Proofs about Inbound, for any workers, seats, posts and deliveries: a   *)
(* mail lands once and wakes at most one turn, what is published as done   *)
(* has landed, and a seat holds one thread with a contact.                 *)
(***************************************************************************)
EXTENDS Inbound, TLAPS, FiniteSetTheorems, WellFoundedInduction

-----------------------------------------------------------------------------
(* The shape of the state *)

Thread == [owner : Seats, channel : {"email", "text"}, contact : Contacts, moved : BOOLEAN]

Job == [phase   : {"idle", "look", "fetch", "lock", "land", "report"},
        batch   : SUBSET Mails,
        mail    : Mails \cup {Nobody},
        found   : Nat,
        outcome : {"none", "done", "retry", "park"}]

Notice == [state : {"none", "open", "done"}, attempts : Nat]

\* The mails a notice was filed for.
Noticed == {m \in Mails : notice[m].state # "none"}

\* A worker's mails have notices, and a mail with a notice has an addressee.
Jobs ==
  /\ job \in [Workers -> Job]
  /\ \A w \in Workers : job[w].batch \subseteq Noticed
  /\ \A w \in Workers : job[w].phase # "idle" => job[w].mail \in Noticed

Shape ==
  /\ hook \in [Deliveries -> {"none", "stored", "done", "dead"}]
  /\ routed \in [Deliveries -> Seats \cup {Nobody}]
  /\ notice \in [Mails -> Notice]
  /\ threads \in Seq(Thread)
  /\ \A m \in Noticed : Addressee[m] \in Seats
  /\ Jobs

Less == {ss \in Nat \X Nat : ss[1] < ss[2]}

LEMMA LessIsWellFounded == IsWellFoundedOn(Less, Nat)
BY NatLessThanWellFounded DEF OpToRel, Less

\* The least of a set of positions is one of them.
LEMMA OldestIsOne ==
  ASSUME NEW T \in SUBSET Nat, T # {}
  PROVE  Oldest(T) \in T
<1>1. PICK x \in T : \A y \in T : ~(<<y, x>> \in Less)
  BY LessIsWellFounded, WFMin
<1>2. \A y \in T : x <= y
  <2>1. ASSUME NEW y \in T PROVE x <= y
    <3>1. ~(y < x)
      BY <1>1 DEF Less
    <3>2. QED
      BY <3>1
  <2>2. QED
    BY <2>1
<1>3. QED
  BY <1>2 DEF Oldest

LEMMA HeldPositions ==
  ASSUME Shape, NEW s, NEW ch, NEW k PROVE Held(s, ch, k) \subseteq 1 .. Len(threads)
BY DEF Held

LEMMA FoundPosition ==
  ASSUME Shape, NEW s, NEW p
  PROVE  /\ Found(s, p) \in Nat
         /\ Found(s, p) = 0 => Held(s, Channel(p), From[p]) = {}
<1>. DEFINE T == Held(s, Channel(p), From[p])
<1>1. Len(threads) \in Nat /\ T \subseteq 1 .. Len(threads)
  BY HeldPositions DEF Shape
<1>2. T # {} => Oldest(T) \in T
  BY <1>1, OldestIsOne
<1>3. QED
  BY <1>1, <1>2 DEF Found

LEMMA PhoneRecipients ==
  ASSUME Shape, NEW k PROVE PhoneRecipient(k) \in Seats \cup {Nobody}
<1>1. Len(Desk) \in Nat /\ OnDesk \subseteq 1 .. Len(Desk) /\ \A i \in 1 .. Len(Desk) : Desk[i] \in Seats
  BY InboundConstants DEF OnDesk
<1>2. Len(threads) \in Nat /\ Known(k) \subseteq 1 .. Len(threads)
  BY HeldPositions DEF Known, Shape
<1>3. Known(k) # {} => Oldest(Known(k)) \in Known(k)
  <2>1. Known(k) \in SUBSET Nat
    BY <1>2
  <2>2. QED
    BY <2>1, OldestIsOne
<1>4. OnDesk # {} => Oldest(OnDesk) \in OnDesk
  <2>1. OnDesk \in SUBSET Nat
    BY <1>1
  <2>2. QED
    BY <2>1, OldestIsOne
<1>5. \A t \in 1 .. Len(threads) : threads[t].owner \in Seats
  <2>1. \A t \in 1 .. Len(threads) : threads[t] \in Thread
    BY DEF Shape
  <2>2. QED
    BY <2>1 DEF Thread
<1>6. QED
  BY <1>1, <1>2, <1>3, <1>4, <1>5 DEF PhoneRecipient

\* What one worker does to its own job.
JobStep(w, j) == job' = [job EXCEPT ![w] = j]

LEMMA JobsStep ==
  ASSUME Jobs, NEW w \in Workers, NEW j \in Job, JobStep(w, j),
         Noticed \subseteq Noticed', j.batch \subseteq Noticed',
         j.phase # "idle" => j.mail \in Noticed'
  PROVE  Jobs'
<1>1. \A v \in Workers : job'[v] = IF v = w THEN j ELSE job[v]
  BY DEF Jobs, JobStep
<1>2. job' \in [Workers -> Job]
  BY DEF Jobs, JobStep
<1>3. ASSUME NEW v \in Workers
      PROVE  job'[v].batch \subseteq Noticed' /\ (job'[v].phase # "idle" => job'[v].mail \in Noticed')
  <2>1. CASE v = w
    BY <1>1, <2>1
  <2>2. CASE v # w
    BY <1>1, <2>2 DEF Jobs
  <2>3. QED
    BY <2>1, <2>2
<1>4. QED
  BY <1>2, <1>3 DEF Jobs

LEMMA JobsKept == ASSUME Jobs, UNCHANGED job, Noticed \subseteq Noticed' PROVE Jobs'
BY DEF Jobs

\* A worker in a transaction reports what became of it, or goes on.
LEMMA JobsReport ==
  ASSUME Jobs, NEW w \in Workers, job[w].phase # "idle", UNCHANGED notice,
         \/ \E o \in {"done", "retry", "park"} : Decide(w, o)
         \/ \E ph \in {"fetch", "lock"} : Proceed(w, ph)
  PROVE  Jobs'
<1>0. job[w] \in Job /\ Noticed' = Noticed /\ job[w].batch \subseteq Noticed
      /\ job[w].mail \in Noticed
  BY DEF Jobs, Noticed
<1>1. ASSUME NEW o \in {"done", "retry", "park"}, Decide(w, o) PROVE Jobs'
  <2>. DEFINE j == [job[w] EXCEPT !.phase = "report", !.outcome = o, !.found = 0]
  <2>1. j \in Job /\ j.batch = job[w].batch /\ j.mail = job[w].mail
    BY <1>0 DEF Job
  <2>2. JobStep(w, j)
    BY <1>1 DEF Decide, JobStep, Jobs
  <2>. HIDE DEF j
  <2>3. QED
    BY <1>0, <2>1, <2>2, JobsStep
<1>2. ASSUME NEW ph \in {"fetch", "lock"}, Proceed(w, ph) PROVE Jobs'
  <2>. DEFINE j == [job[w] EXCEPT !.phase = ph]
  <2>1. j \in Job /\ j.batch = job[w].batch /\ j.mail = job[w].mail
    BY <1>0 DEF Job
  <2>2. JobStep(w, j)
    BY <1>2 DEF Proceed, JobStep, Jobs
  <2>. HIDE DEF j
  <2>3. QED
    BY <1>0, <2>1, <2>2, JobsStep
<1>3. QED
  BY <1>1, <1>2

LEMMA ShapeInit == Init => Shape
<1>. SUFFICES ASSUME Init PROVE Shape
  OBVIOUS
<1>1. /\ hook \in [Deliveries -> {"none", "stored", "done", "dead"}]
      /\ routed \in [Deliveries -> Seats \cup {Nobody}]
      /\ notice \in [Mails -> Notice] /\ threads \in Seq(Thread)
  BY DEF Init, Notice
<1>2. Noticed = {}
  BY DEF Init, Noticed
<1>3. Idle \in Job /\ Idle.batch = {} /\ Idle.phase = "idle"
  BY DEF Idle, Job
<1>4. job \in [Workers -> Job] /\ \A w \in Workers : job[w] = Idle
  BY <1>3 DEF Init
<1>5. Jobs
  BY <1>2, <1>3, <1>4 DEF Jobs
<1>6. QED
  BY <1>1, <1>2, <1>5 DEF Shape

LEMMA ThreadsOpened ==
  ASSUME Shape, NEW s \in Seats, NEW p \in Posts, NEW f
  PROVE  /\ Opened(s, p, f) \in Seq(Thread)
         /\ f # 0 => Opened(s, p, f) = threads
         /\ f = 0 => /\ Len(Opened(s, p, f)) = Len(threads) + 1
                     /\ \A t \in 1 .. Len(threads) : Opened(s, p, f)[t] = threads[t]
                     /\ Opened(s, p, f)[Len(threads) + 1]
                          = [owner |-> s, channel |-> Channel(p),
                             contact |-> From[p], moved |-> FALSE]
<1>. DEFINE new == [owner |-> s, channel |-> Channel(p), contact |-> From[p], moved |-> FALSE]
<1>1. new \in Thread
  <2>1. From[p] \in Contacts /\ Channel(p) \in {"email", "text"}
    BY InboundConstants DEF Channel, Posts
  <2>2. QED
    BY <2>1 DEF Thread
<1>. HIDE DEF new
<1>2. threads \in Seq(Thread)
  BY DEF Shape
<1>3. /\ Append(threads, new) \in Seq(Thread)
      /\ Len(Append(threads, new)) = Len(threads) + 1
      /\ \A t \in 1 .. Len(threads) : Append(threads, new)[t] = threads[t]
      /\ Append(threads, new)[Len(threads) + 1] = new
  BY <1>1, <1>2
<1>4. Opened(s, p, f) = IF f # 0 THEN threads ELSE Append(threads, new)
  BY DEF Opened, new
<1>5. QED
  BY <1>2, <1>3, <1>4 DEF new

\* The seat a worker lands for.
LEMMA SeatOfWork ==
  ASSUME Shape, NEW w \in Workers, job[w].phase # "idle"
  PROVE  /\ job[w] \in Job /\ job[w].mail \in Mails /\ job[w].mail \in Posts
         /\ job[w].mail \in Noticed /\ Seat(w) \in Seats
BY DEF Shape, Jobs, Noticed, Seat, Posts

\* The steps of a worker that touch neither its notices nor the other rows.
LEMMA ShapeWorker ==
  ASSUME Shape, NEW w \in Workers, Look(w) \/ Fetch(w) \/ Land(w) \/ LandFails(w)
  PROVE  Shape'
<1>1. UNCHANGED <<hook, routed, notice>> /\ job[w].phase # "idle"
  BY DEF Look, Fetch, Land, LandFails
<1>2. /\ Look(w) => Decide(w, "done") \/ Proceed(w, "fetch")
      /\ Fetch(w) => Proceed(w, "lock") \/ Decide(w, "retry") \/ Decide(w, "park")
      /\ Land(w) => Decide(w, "done")
      /\ LandFails(w) => Decide(w, "retry") \/ Decide(w, "park")
  BY DEF Look, Fetch, Land, LandFails
<1>3. Jobs'
  BY <1>1, <1>2, JobsReport DEF Shape
<1>4. threads' \in Seq(Thread)
  <2>1. CASE Land(w)
    <3>1. threads' = Opened(Seat(w), job[w].mail, job[w].found)
      BY <2>1 DEF Land
    <3>2. QED
      BY <1>1, <3>1, SeatOfWork, ThreadsOpened
  <2>2. CASE Look(w) \/ Fetch(w) \/ LandFails(w)
    BY <2>2 DEF Look, Fetch, LandFails, rows, Shape
  <2>3. QED
    BY <2>1, <2>2
<1>5. QED
  BY <1>1, <1>3, <1>4 DEF Shape, Noticed

LEMMA ShapeLock == ASSUME Shape, NEW w \in Workers, Lock(w) PROVE Shape'
<1>. DEFINE f == Found(Seat(w), job[w].mail)
            j == [job[w] EXCEPT !.phase = "land", !.found = f]
<1>1. job[w] \in Job /\ job[w].batch \subseteq Noticed /\ job[w].mail \in Noticed
  BY DEF Lock, Shape, Jobs
<1>2. f \in Nat
  BY FoundPosition
<1>. HIDE DEF f
<1>3. j \in Job /\ j.batch = job[w].batch /\ j.mail = job[w].mail
  BY <1>1, <1>2 DEF Job
<1>4. JobStep(w, j) /\ UNCHANGED <<hook, routed, notice, threads>>
  BY DEF Lock, JobStep, f, Shape, Jobs, rows
<1>. HIDE DEF j
<1>5. Noticed' = Noticed
  BY <1>4 DEF Noticed
<1>6. Jobs'
  BY <1>1, <1>3, <1>4, <1>5, JobsStep DEF Shape
<1>7. QED
  BY <1>4, <1>5, <1>6 DEF Shape

LEMMA ShapeTake == ASSUME Shape, NEW w \in Workers, Take(w) PROVE Shape'
<1>1. PICK m \in job[w].batch :
        job' = [job EXCEPT ![w] = [@ EXCEPT !.phase = "look", !.mail = m]]
  BY DEF Take
<1>. DEFINE j == [job[w] EXCEPT !.phase = "look", !.mail = m]
<1>2. job[w] \in Job /\ job[w].batch \subseteq Noticed /\ m \in Noticed /\ m \in Mails
  BY DEF Shape, Jobs, Noticed
<1>3. j \in Job /\ j.batch = job[w].batch /\ j.mail = m
  BY <1>2 DEF Job
<1>4. JobStep(w, j) /\ UNCHANGED <<hook, routed, notice, threads>>
  BY <1>1 DEF Take, JobStep, Shape, Jobs, rows
<1>. HIDE DEF j
<1>5. Noticed' = Noticed
  BY <1>4 DEF Noticed
<1>6. Jobs'
  BY <1>2, <1>3, <1>4, <1>5, JobsStep DEF Shape
<1>7. QED
  BY <1>4, <1>5, <1>6 DEF Shape

\* The steps of a worker that begin or end its work.
LEMMA IdleJob ==
  ASSUME NEW B \in SUBSET Mails
  PROVE  LET j == [Idle EXCEPT !.batch = B]
         IN j \in Job /\ j.phase = "idle" /\ j.batch = B
BY DEF Job, Idle

LEMMA ShapeClaim == ASSUME Shape, NEW w \in Workers, Claim(w) PROVE Shape'
<1>1. PICK B \in SUBSET {m \in Mails : Open(m) /\ notice[m].attempts < MaxAttempts} :
        /\ notice' = [m \in Mails |-> IF m \in B THEN [notice[m] EXCEPT !.attempts = @ + 1]
                                      ELSE notice[m]]
        /\ job' = [job EXCEPT ![w] = [Idle EXCEPT !.batch = B]]
  BY DEF Claim
<1>2. ASSUME NEW m \in Mails
      PROVE  notice'[m] \in Notice /\ notice'[m].state = notice[m].state
  <2>1. notice[m] \in Notice
    BY DEF Shape
  <2>2. [notice[m] EXCEPT !.attempts = @ + 1] \in Notice
        /\ [notice[m] EXCEPT !.attempts = @ + 1].state = notice[m].state
    BY <2>1 DEF Notice
  <2>3. QED
    BY <1>1, <2>1, <2>2
<1>3. notice' \in [Mails -> Notice] /\ Noticed' = Noticed
  BY <1>1, <1>2 DEF Noticed
<1>. DEFINE j == [Idle EXCEPT !.batch = B]
<1>4. B \subseteq Mails /\ B \subseteq Noticed
  BY DEF Open, Noticed
<1>5. j \in Job /\ j.phase = "idle" /\ j.batch = B
  BY <1>4, IdleJob
<1>6. JobStep(w, j) /\ UNCHANGED <<hook, routed, threads>>
  BY <1>1 DEF Claim, JobStep, rows
<1>. HIDE DEF j
<1>7. Jobs'
  BY <1>3, <1>4, <1>5, <1>6, JobsStep DEF Shape
<1>8. QED
  BY <1>3, <1>6, <1>7 DEF Shape

LEMMA JobsFinish ==
  ASSUME Jobs, NEW w \in Workers, Finish(w), Noticed \subseteq Noticed' PROVE Jobs'
<1>. DEFINE B == job[w].batch \ {job[w].mail}
            j == [Idle EXCEPT !.batch = B]
<1>1. B \subseteq Mails /\ B \subseteq Noticed
  BY DEF Jobs, Noticed
<1>2. j \in Job /\ j.phase = "idle" /\ j.batch = B
  BY <1>1, IdleJob
<1>3. JobStep(w, j)
  BY DEF Finish, JobStep
<1>. HIDE DEF j, B
<1>4. QED
  BY <1>1, <1>2, <1>3, JobsStep

LEMMA ShapeRecord ==
  ASSUME Shape, NEW w \in Workers, Record(w) \/ RecordLost(w)
  PROVE  Shape' /\ \A m \in Mails : notice'[m].state \in {notice[m].state, "done"}
<1>1. UNCHANGED <<hook, routed, threads>> /\ Finish(w)
  BY DEF Record, RecordLost, rows
<1>2. job[w].mail \in Mails
  BY SeatOfWork DEF Record, RecordLost
<1>. DEFINE m0 == job[w].mail
<1>3. notice' \in {notice, [notice EXCEPT ![m0].state = "done"],
                   [notice EXCEPT ![m0].attempts = MaxAttempts]}
  BY DEF Record, RecordLost
<1>. HIDE DEF m0
<1>4. ASSUME NEW m \in Mails
      PROVE  notice'[m] \in Notice /\ notice'[m].state \in {notice[m].state, "done"}
  <2>1. notice[m] \in Notice /\ MaxAttempts \in Nat
    BY InboundConstants DEF Shape
  <2>2. notice'[m] \in {notice[m], [notice[m] EXCEPT !.state = "done"],
                        [notice[m] EXCEPT !.attempts = MaxAttempts]}
    BY <1>3 DEF Shape
  <2>3. QED
    BY <2>1, <2>2 DEF Notice
<1>5. notice' \in [Mails -> Notice]
  BY <1>3, <1>4 DEF Shape
<1>6. Noticed \subseteq Noticed' /\ Noticed' \subseteq Noticed
  <2>1. Open(m0) => m0 \in Noticed
    BY <1>2 DEF Open, Noticed, m0
  <2>2. job[w].mail \in Noticed
    BY SeatOfWork DEF Record, RecordLost
  <2>3. \A m \in Mails : m # m0 => notice'[m] = notice[m]
    BY <1>3 DEF Shape
  <2>4. QED
    BY <1>4, <2>2, <2>3 DEF Noticed, m0
<1>7. Jobs'
  BY <1>1, <1>6, JobsFinish DEF Shape
<1>8. QED
  BY <1>1, <1>4, <1>5, <1>6, <1>7 DEF Shape

LEMMA ShapeCrash == ASSUME Shape, NEW w \in Workers, Crash(w) PROVE Shape'
<1>1. JobStep(w, Idle) /\ UNCHANGED <<hook, routed, notice, threads>>
  BY DEF Crash, JobStep, rows
<1>2. Idle \in Job /\ Idle.batch = {} /\ Idle.phase = "idle" /\ Noticed' = Noticed
  BY <1>1 DEF Idle, Job, Noticed
<1>3. Jobs'
  BY <1>1, <1>2, JobsStep DEF Shape
<1>4. QED
  BY <1>1, <1>2, <1>3 DEF Shape

\* The outbox poller's handlers.
LEMMA ShapePoller ==
  ASSUME Shape, NEW d \in Deliveries, Poller(d)
  PROVE  Shape' /\ UNCHANGED job /\ \A m \in Mails : notice'[m].state # notice[m].state
                                      => notice'[m].state = "open" /\ notice[m].state = "none"
<1>0. UNCHANGED job
  BY DEF Poller, RecordNotice, RecordRefusal, RouteText, LandText
<1>1. CASE RecordNotice(d)
  <2>. DEFINE m0 == PostOf[d]
  <2>1. UNCHANGED <<routed, threads>> /\ m0 \in Mails
        /\ hook' \in {[hook EXCEPT ![d] = "dead"], [hook EXCEPT ![d] = "done"]}
    BY <1>1 DEF RecordNotice, rows
  <2>2. \/ UNCHANGED notice
        \/ /\ Addressee[m0] # Nobody /\ notice[m0].state = "none"
           /\ notice' = [notice EXCEPT ![m0].state = "open"]
    BY <1>1 DEF RecordNotice
  <2>3. Addressee[m0] # Nobody => Addressee[m0] \in Seats
    BY <2>1, InboundConstants
  <2>. HIDE DEF m0
  <2>4. ASSUME NEW m \in Mails
        PROVE  /\ notice'[m] \in Notice
               /\ notice'[m].state # notice[m].state
                    => notice'[m].state = "open" /\ notice[m].state = "none" /\ m = m0
    <3>1. notice[m] \in Notice
      BY DEF Shape
    <3>2. notice'[m] = notice[m]
          \/ (m = m0 /\ notice[m].state = "none"
              /\ notice'[m] = [notice[m] EXCEPT !.state = "open"])
      BY <2>2 DEF Shape
    <3>3. QED
      BY <3>1, <3>2 DEF Notice
  <2>5. notice' \in [Mails -> Notice]
    BY <2>2, <2>4 DEF Shape
  <2>6. Noticed \subseteq Noticed'
    BY <2>4 DEF Noticed
  <2>7. \A m \in Noticed' : Addressee[m] \in Seats
    <3>1. ASSUME NEW m \in Noticed', m \notin Noticed PROVE Addressee[m] \in Seats
      <4>1. m \in Mails /\ notice'[m].state # notice[m].state
        BY <3>1 DEF Noticed
      <4>2. m = m0 /\ ~UNCHANGED notice
        BY <2>4, <4>1
      <4>3. QED
        BY <2>2, <2>3, <4>2
    <3>2. QED
      BY <3>1 DEF Shape
  <2>8. hook' \in [Deliveries -> {"none", "stored", "done", "dead"}]
    BY <2>1 DEF Shape
  <2>9. Jobs'
    BY <1>0, <2>6, JobsKept DEF Shape
  <2>10. QED
    BY <1>0, <2>1, <2>4, <2>5, <2>7, <2>8, <2>9 DEF Shape
<1>2. ASSUME UNCHANGED notice, threads' \in Seq(Thread), routed' \in [Deliveries -> Seats \cup {Nobody}],
             hook' \in [Deliveries -> {"none", "stored", "done", "dead"}]
      PROVE  Shape'
  <2>1. Noticed' = Noticed
    BY <1>2 DEF Noticed
  <2>2. Jobs'
    BY <1>0, <2>1, JobsKept DEF Shape
  <2>3. QED
    BY <1>2, <2>1, <2>2 DEF Shape
<1>3. CASE RecordRefusal(d)
  BY <1>0, <1>2, <1>3 DEF RecordRefusal, Shape
<1>4. CASE RouteText(d)
  <2>. DEFINE s == PhoneRecipient(From[PostOf[d]])
  <2>1. s \in Seats \cup {Nobody}
    BY PhoneRecipients
  <2>2. routed' = [routed EXCEPT ![d] = s] /\ UNCHANGED <<notice, threads>>
        /\ hook' = [hook EXCEPT ![d] = IF s = Nobody THEN "dead" ELSE @]
    BY <1>4 DEF RouteText, rows
  <2>. HIDE DEF s
  <2>3. routed' \in [Deliveries -> Seats \cup {Nobody}]
    BY <2>1, <2>2 DEF Shape
  <2>4. hook' \in [Deliveries -> {"none", "stored", "done", "dead"}]
    BY <2>2 DEF Shape
  <2>5. QED
    BY <1>0, <1>2, <2>2, <2>3, <2>4 DEF Shape
<1>5. CASE LandText(d)
  <2>1. /\ PostOf[d] \in Posts /\ routed[d] \in Seats
        /\ threads' = Opened(routed[d], PostOf[d], Found(routed[d], PostOf[d]))
        /\ hook' = [hook EXCEPT ![d] = "done"] /\ UNCHANGED <<routed, notice>>
    BY <1>5 DEF LandText, Shape, Posts
  <2>2. threads' \in Seq(Thread)
    BY <2>1, ThreadsOpened
  <2>3. hook' \in [Deliveries -> {"none", "stored", "done", "dead"}]
    BY <2>1 DEF Shape
  <2>4. QED
    BY <1>0, <1>2, <2>1, <2>2, <2>3 DEF Shape
<1>6. QED
  BY <1>1, <1>3, <1>4, <1>5, <1>0 DEF Poller, RecordRefusal, RouteText, LandText

\* The steps of everybody else.
Outside ==
  \/ \E d \in Deliveries : Deliver(d)
  \/ \E t \in 1 .. Len(threads), s \in Seats : HandOver(t, s)
  \/ \E t \in tickets : CloseTicket(t)
  \/ \E s \in Seats : SetLifecycle(s)
  \/ Requeue \/ Halt \/ Resume

LEMMA ThreadHandedOver ==
  ASSUME Shape, NEW t \in 1 .. Len(threads), NEW s \in Seats, HandOver(t, s)
  PROVE  /\ threads' \in Seq(Thread) /\ Len(threads') = Len(threads)
         /\ threads'[t].moved = TRUE
         /\ \A u \in 1 .. Len(threads) : u # t => threads'[u] = threads[u]
<1>1. threads' = [threads EXCEPT ![t] = [@ EXCEPT !.owner = s, !.moved = TRUE]]
  BY DEF HandOver
<1>2. threads \in Seq(Thread) /\ threads[t] \in Thread
  BY DEF Shape
<1>3. [threads[t] EXCEPT !.owner = s, !.moved = TRUE] \in Thread
      /\ [threads[t] EXCEPT !.owner = s, !.moved = TRUE].moved = TRUE
  BY <1>2 DEF Thread
<1>. DEFINE new == [threads[t] EXCEPT !.owner = s, !.moved = TRUE]
<1>4. threads' = [threads EXCEPT ![t] = new]
  BY <1>1
<1>. HIDE DEF new
<1>5. QED
  BY <1>2, <1>3, <1>4 DEF new

LEMMA ShapeOutside ==
  ASSUME Shape, Outside
  PROVE  Shape' /\ UNCHANGED job /\ \A m \in Mails : notice'[m].state = notice[m].state
<1>1. UNCHANGED <<job, routed>>
  BY DEF Outside, Deliver, HandOver, CloseTicket, SetLifecycle, Requeue, Halt, Resume
<1>2. threads' \in Seq(Thread)
  <2>1. CASE \E t \in 1 .. Len(threads), s \in Seats : HandOver(t, s)
    BY <2>1, ThreadHandedOver
  <2>2. CASE ~\E t \in 1 .. Len(threads), s \in Seats : HandOver(t, s)
    BY <2>2 DEF Outside, Deliver, CloseTicket, SetLifecycle, Requeue, Halt, Resume, rows, Shape
  <2>3. QED
    BY <2>1, <2>2
<1>3. hook' \in [Deliveries -> {"none", "stored", "done", "dead"}]
  BY DEF Outside, Deliver, HandOver, CloseTicket, SetLifecycle, Requeue, Halt, Resume, Shape
<1>4. ASSUME NEW m \in Mails
      PROVE  notice'[m] \in Notice /\ notice'[m].state = notice[m].state
  <2>1. notice[m] \in Notice
    BY DEF Shape
  <2>2. notice'[m] \in {notice[m], [notice[m] EXCEPT !.attempts = 0]}
    BY DEF Outside, Deliver, HandOver, CloseTicket, SetLifecycle, Requeue, Halt, Resume, Shape
  <2>3. QED
    BY <2>1, <2>2 DEF Notice
<1>5. notice' \in [Mails -> Notice]
  <2>1. UNCHANGED notice \/ Requeue
    BY DEF Outside, Deliver, HandOver, CloseTicket, SetLifecycle, Halt, Resume
  <2>2. QED
    BY <1>4, <2>1 DEF Requeue, Shape
<1>6. Noticed' = Noticed
  BY <1>4 DEF Noticed
<1>7. Jobs'
  BY <1>1, <1>6, JobsKept DEF Shape
<1>8. QED
  BY <1>1, <1>2, <1>3, <1>4, <1>5, <1>6, <1>7 DEF Shape

LEMMA NextCases ==
  ASSUME [Next]_vars
  PROVE  \/ \E d \in Deliveries : Poller(d)
         \/ \E w \in Workers : Claim(w) \/ Take(w) \/ Lock(w) \/ Crash(w)
         \/ \E w \in Workers : Look(w) \/ Fetch(w) \/ Land(w) \/ LandFails(w)
         \/ \E w \in Workers : Record(w) \/ RecordLost(w)
         \/ Outside
         \/ UNCHANGED vars
BY DEF Next, Loop, Outside

LEMMA ShapeNext == Shape /\ [Next]_vars => Shape'
<1>. SUFFICES ASSUME Shape, [Next]_vars PROVE Shape'
  OBVIOUS
<1>1. CASE UNCHANGED vars
  BY <1>1 DEF vars, rows, Shape, Jobs, Noticed
<1>2. QED
  BY <1>1, NextCases, ShapePoller, ShapeClaim, ShapeTake, ShapeLock, ShapeCrash, ShapeWorker,
     ShapeRecord, ShapeOutside

\* Workers keep to mails that have a notice and an addressee (record_notice).
THEOREM ShapeProved == Spec => []Shape
BY ShapeInit, ShapeNext, PTL DEF Spec

-----------------------------------------------------------------------------
(* What has landed *)

Message == [seat : Seats, post : Posts, thread : Nat]
Turn    == [thread : Nat, seat : Seats, post : Posts]

TurnOf(x) == [thread |-> x.thread, seat |-> x.seat, post |-> x.post]

\* A message is the only one of its seat and post, a mail's is its addressee's,
\* and it stands with its turn and its opt-out; a turn is some message's.
Mailbox ==
  /\ messages \subseteq Message
  /\ turns \subseteq Turn
  /\ \A x \in messages : x.post \in Mails => x.seat = Addressee[x.post]
  /\ \A x, y \in messages : x.seat = y.seat /\ x.post = y.post => x = y
  /\ \A x \in messages :
       /\ Silent(x.post) \/ TurnOf(x) \in turns
       /\ Wording[x.post] = "optout" /\ From[x.post] \in Storable => From[x.post] \in suppressed
  /\ \A u \in turns : \E x \in messages : u = TurnOf(x)

InBox(p) == \E x \in messages : x.post = p

\* What is done has landed, or has left its notice or, when the address can be
\* stored, its suppression.
Finished ==
  /\ \A m \in Mails : notice[m].state = "done" => InBox(m)
  /\ \A w \in Workers : job[w].phase = "report" /\ job[w].outcome = "done" => InBox(job[w].mail)
  /\ \A d \in Deliveries : hook[d] = "done" =>
       /\ PostOf[d] \in Mails => PostOf[d] \in Noticed
       /\ PostOf[d] \in Texts => InBox(PostOf[d])
       /\ PostOf[d] \in Bounces /\ From[PostOf[d]] \in Storable => From[PostOf[d]] \in suppressed

LEMMA LandingKeeps ==
  ASSUME Mailbox, NEW s \in Seats, NEW p \in Posts, NEW t \in Nat,
         p \in Mails => s = Addressee[p], Landing(s, p, t)
  PROVE  /\ Mailbox' /\ InBox(p)'
         /\ messages \subseteq messages' /\ suppressed \subseteq suppressed'
<1>. DEFINE x0 == [seat |-> s, post |-> p, thread |-> t]
<1>1. x0 \in Message /\ x0.seat = s /\ x0.post = p /\ TurnOf(x0) \in Turn
      /\ TurnOf(x0) = [thread |-> t, seat |-> s, post |-> p]
  BY DEF Message, TurnOf, Turn
<1>2. CASE Copies(s, p) # {}
  <2>1. UNCHANGED <<messages, suppressed>> /\ turns' = turns \cup Resumed(s, p)
    BY <1>2 DEF Landing
  <2>2. ASSUME NEW u \in Resumed(s, p) PROVE u \in Turn /\ \E x \in messages : u = TurnOf(x)
    <3>1. PICK x \in Copies(s, p) : u = [thread |-> x.thread, seat |-> s, post |-> p]
      BY DEF Resumed, TurnsFor
    <3>2. x \in messages /\ x.seat = s /\ x.post = p /\ x \in Message
      BY DEF Copies, Mailbox
    <3>3. u = TurnOf(x) /\ u \in Turn
      BY <3>1, <3>2 DEF TurnOf, Turn, Message
    <3>4. QED
      BY <3>2, <3>3
  <2>3. InBox(p)
    BY <1>2 DEF InBox, Copies
  <2>4. QED
    BY <2>1, <2>2, <2>3 DEF Mailbox, InBox, TurnOf
<1>3. CASE Copies(s, p) = {}
  <2>1. /\ messages' = messages \cup {x0}
        /\ turns' = turns \cup TurnsFor(s, p, t)
        /\ suppressed' = IF Wording[p] = "optout" THEN Suppressing(From[p])
                         ELSE suppressed
    BY <1>3 DEF Landing
  <2>. HIDE DEF x0
  <2>2. TurnsFor(s, p, t) = IF Silent(p) THEN {} ELSE {TurnOf(x0)}
    BY <1>1 DEF TurnsFor
  <2>3. \A x \in messages : ~(x.seat = s /\ x.post = p)
    BY <1>3 DEF Copies
  <2>4. messages' \subseteq Message /\ turns' \subseteq Turn
    BY <1>1, <2>1, <2>2 DEF Mailbox
  <2>5. \A x \in messages' : x.post \in Mails => x.seat = Addressee[x.post]
    BY <1>1, <2>1 DEF Mailbox
  <2>6. \A x, y \in messages' : x.seat = y.seat /\ x.post = y.post => x = y
    BY <1>1, <2>1, <2>3 DEF Mailbox
  <2>7. ASSUME NEW x \in messages'
        PROVE  /\ Silent(x.post) \/ TurnOf(x) \in turns'
               /\ Wording[x.post] = "optout" /\ From[x.post] \in Storable => From[x.post] \in suppressed'
    <3>1. CASE x = x0
      BY <1>1, <2>1, <2>2, <3>1 DEF Suppressing
    <3>2. CASE x # x0
      BY <2>1, <3>2 DEF Mailbox, Suppressing
    <3>3. QED
      BY <3>1, <3>2
  <2>8. \A u \in turns' : \E x \in messages' : u = TurnOf(x)
    BY <2>1, <2>2 DEF Mailbox
  <2>9. InBox(p)' /\ messages \subseteq messages' /\ suppressed \subseteq suppressed'
    BY <1>1, <2>1 DEF InBox, Suppressing
  <2>10. Mailbox'
    <3>1. \A x \in messages' :
            /\ Silent(x.post) \/ TurnOf(x)' \in turns'
            /\ Wording[x.post] = "optout" /\ From[x.post] \in Storable => From[x.post] \in suppressed'
      BY <2>7 DEF TurnOf
    <3>2. QED
      BY <2>4, <2>5, <2>6, <2>8, <3>1 DEF Mailbox, TurnOf, Silent
  <2>11. QED
    BY <2>9, <2>10
<1>4. QED
  BY <1>2, <1>3

\* A mail that landed before has its turn asked for again.
LEMMA ResumingKeeps ==
  ASSUME Mailbox, NEW s, NEW p, turns' = turns \cup Resumed(s, p),
         UNCHANGED <<messages, suppressed>>
  PROVE  Mailbox'
<1>1. ASSUME NEW u \in Resumed(s, p) PROVE u \in Turn /\ \E x \in messages : u = TurnOf(x)
  <2>1. PICK x \in Copies(s, p) : u = [thread |-> x.thread, seat |-> s, post |-> p]
    BY DEF Resumed, TurnsFor
  <2>2. x \in messages /\ x.seat = s /\ x.post = p /\ x \in Message
    BY DEF Copies, Mailbox
  <2>3. u = TurnOf(x) /\ u \in Turn
    BY <2>1, <2>2 DEF TurnOf, Turn, Message
  <2>4. QED
    BY <2>2, <2>3
<1>2. QED
  BY <1>1 DEF Mailbox, TurnOf

\* The rows a landing writes only gather.
Grow == messages \subseteq messages' /\ suppressed \subseteq suppressed'

LEMMA MailboxSuppresses ==
  ASSUME Mailbox, UNCHANGED <<messages, turns>>, suppressed \subseteq suppressed'
  PROVE  Mailbox' /\ Grow
BY DEF Mailbox, Grow, TurnOf, Silent

LEMMA MailboxPoller ==
  ASSUME Shape, Mailbox, NEW d \in Deliveries, Poller(d)
  PROVE  /\ Mailbox' /\ Grow
         /\ LandText(d) => \E x \in messages' : x.post = PostOf[d]
<1>1. CASE LandText(d)
  <2>. DEFINE s == routed[d]
              p == PostOf[d]
              t == ThreadAt(Found(s, p))
  <2>1. s \in Seats /\ p \in Posts /\ p \notin Mails /\ Landing(s, p, t)
    BY <1>1, InboundConstants DEF LandText, Shape, Posts
  <2>2. t \in Nat
    BY FoundPosition DEF ThreadAt, Shape
  <2>. HIDE DEF s, p, t
  <2>3. Mailbox' /\ (\E x \in messages' : x.post = p) /\ Grow
    BY <2>1, <2>2, LandingKeeps DEF Grow, InBox
  <2>4. QED
    BY <2>3 DEF p
<1>2. CASE ~LandText(d)
  BY <1>2, MailboxSuppresses DEF Poller, RecordNotice, RecordRefusal, RouteText, Suppressing,
     rows
<1>3. QED
  BY <1>1, <1>2

LEMMA MailboxWorker ==
  ASSUME Shape, Mailbox, NEW w \in Workers, Look(w) \/ Fetch(w) \/ Land(w) \/ LandFails(w)
  PROVE  /\ Mailbox' /\ Grow
         /\ Land(w) => \E x \in messages' : x.post = job[w].mail
<1>1. CASE Land(w)
  <2>. DEFINE s == Seat(w)
              p == job[w].mail
              t == ThreadAt(job[w].found)
  <2>1. s \in Seats /\ p \in Posts /\ s = Addressee[p] /\ Landing(s, p, t) /\ job[w] \in Job
    BY <1>1, SeatOfWork DEF Land, Seat
  <2>2. t \in Nat
    BY <2>1 DEF ThreadAt, Shape, Job
  <2>. HIDE DEF s, p, t
  <2>3. Mailbox' /\ (\E x \in messages' : x.post = p) /\ Grow
    BY <2>1, <2>2, LandingKeeps DEF Grow, InBox
  <2>4. QED
    BY <2>3 DEF p
<1>2. CASE ~Land(w)
  <2>1. CASE Look(w)
    <3>1. turns' = turns \cup Resumed(Seat(w), job[w].mail) /\ UNCHANGED <<messages, suppressed>>
      BY <2>1 DEF Look
    <3>2. QED
      BY <1>2, <3>1, ResumingKeeps DEF Grow
  <2>2. CASE Fetch(w) \/ LandFails(w)
    BY <1>2, <2>2, MailboxSuppresses DEF Fetch, LandFails, rows
  <2>3. QED
    BY <1>2, <2>1, <2>2
<1>3. QED
  BY <1>1, <1>2

LEMMA MailboxElsewhere ==
  ASSUME Mailbox,
         \/ \E w \in Workers : Claim(w) \/ Take(w) \/ Lock(w) \/ Crash(w)
         \/ \E w \in Workers : Record(w) \/ RecordLost(w)
         \/ Outside
         \/ UNCHANGED vars
  PROVE  Mailbox' /\ Grow
<1>1. UNCHANGED <<messages, turns, suppressed>>
  <2>1. ASSUME NEW w \in Workers, Claim(w) \/ Take(w) \/ Lock(w) \/ Crash(w)
                                  \/ Record(w) \/ RecordLost(w)
        PROVE  UNCHANGED <<messages, turns, suppressed>>
    BY <2>1 DEF Claim, Take, Lock, Crash, Record, RecordLost, rows
  <2>2. CASE Outside
    BY <2>2 DEF Outside, Deliver, HandOver, CloseTicket, SetLifecycle, Requeue, Halt, Resume, rows
  <2>3. CASE UNCHANGED vars
    BY <2>3 DEF vars, rows
  <2>4. QED
    BY <2>1, <2>2, <2>3
<1>2. QED
  BY <1>1, MailboxSuppresses

LEMMA MailboxNext == Shape /\ Mailbox /\ [Next]_vars => Mailbox' /\ Grow
BY NextCases, MailboxPoller, MailboxWorker, MailboxElsewhere

LEMMA MailboxInit == Init => Mailbox
BY DEF Init, Mailbox

THEOREM MailboxProved == Spec => []Mailbox
BY ShapeProved, MailboxInit, MailboxNext, PTL DEF Spec

\* "Exactly once, across a restart" (loops/inbound.rs, land): a mail is one
\* message of its addressee, and its turns are that message's.
THEOREM MailsLandOnce == Spec => []MailLandsOnce
<1>1. Mailbox => MailLandsOnce
  <2>1. ASSUME Mailbox, NEW m \in Mails
        PROVE  /\ Cardinality({x \in messages : x.post = m}) <= 1
               /\ Cardinality({x \in turns : x.post = m}) <= 1
    <3>1. \A x, y \in messages : x.post = m /\ y.post = m => x = y
      BY <2>1 DEF Mailbox
    <3>2. \A u, v \in turns : u.post = m /\ v.post = m => u = v
      <4>1. ASSUME NEW u \in turns, NEW v \in turns, u.post = m, v.post = m PROVE u = v
        <5>1. PICK x \in messages : u = TurnOf(x)
          BY <2>1 DEF Mailbox
        <5>2. PICK y \in messages : v = TurnOf(y)
          BY <2>1 DEF Mailbox
        <5>3. x.post = m /\ y.post = m
          BY <4>1, <5>1, <5>2 DEF TurnOf
        <5>4. QED
          BY <3>1, <5>1, <5>2, <5>3
      <4>2. QED
        BY <4>1
    <3>3. ASSUME NEW S, \A x, y \in S : x = y PROVE Cardinality(S) <= 1
      <4>1. CASE S = {}
        BY <4>1, FS_EmptySet
      <4>2. CASE S # {}
        <5>1. PICK x : S = {x}
          BY <3>3, <4>2
        <5>2. Cardinality({x}) = 1
          BY FS_Singleton
        <5>3. QED
          BY <5>1, <5>2
      <4>3. QED
        BY <4>1, <4>2
    <3>4. QED
      BY <3>1, <3>2, <3>3
  <2>2. QED
    BY <2>1 DEF MailLandsOnce
<1>2. QED
  BY <1>1, MailboxProved, PTL

-----------------------------------------------------------------------------
(* What is done *)

\* What a step says of the notices, jobs and deliveries it finishes.
NoticesEnd ==
  /\ Noticed \subseteq Noticed'
  /\ \A m \in Mails : notice'[m].state = "done" =>
       notice[m].state = "done" \/ \E x \in messages' : x.post = m

JobsEnd ==
  \A w \in Workers : job'[w].phase = "report" /\ job'[w].outcome = "done" =>
    \/ job[w].phase = "report" /\ job[w].outcome = "done" /\ job'[w].mail = job[w].mail
    \/ \E x \in messages' : x.post = job'[w].mail

HooksEnd ==
  \A d \in Deliveries : hook'[d] = "done" =>
    \/ hook[d] = "done"
    \/ /\ PostOf[d] \in Mails => PostOf[d] \in Noticed'
       /\ PostOf[d] \in Texts => \E x \in messages' : x.post = PostOf[d]
       /\ PostOf[d] \in Bounces /\ From[PostOf[d]] \in Storable => From[PostOf[d]] \in suppressed'

LEMMA FinishedStep ==
  ASSUME Finished, Grow, NoticesEnd, JobsEnd, HooksEnd PROVE Finished'
<1>1. \A p : InBox(p) => \E x \in messages' : x.post = p
  BY DEF InBox, Grow
<1>2. \A m \in Mails : notice'[m].state = "done" => \E x \in messages' : x.post = m
  BY <1>1 DEF NoticesEnd, Finished
<1>3. \A w \in Workers : job'[w].phase = "report" /\ job'[w].outcome = "done" =>
        \E x \in messages' : x.post = job'[w].mail
  BY <1>1 DEF JobsEnd, Finished
<1>4. ASSUME NEW d \in Deliveries, hook'[d] = "done"
      PROVE  /\ PostOf[d] \in Mails => PostOf[d] \in Noticed'
             /\ PostOf[d] \in Texts => \E x \in messages' : x.post = PostOf[d]
             /\ PostOf[d] \in Bounces /\ From[PostOf[d]] \in Storable => From[PostOf[d]] \in suppressed'
  BY <1>1, <1>4 DEF HooksEnd, NoticesEnd, Finished, Grow
<1>5. QED
  BY <1>2, <1>3, <1>4 DEF Finished, InBox

LEMMA FinishedInit == Init => Finished
<1>. SUFFICES ASSUME Init PROVE Finished
  OBVIOUS
<1>1. \A w \in Workers : job[w].phase = "idle"
  BY DEF Init, Idle
<1>2. \A m \in Mails : notice[m].state = "none"
  BY DEF Init
<1>3. \A d \in Deliveries : hook[d] = "none"
  BY DEF Init
<1>4. QED
  BY <1>1, <1>2, <1>3 DEF Finished

LEMMA FinishedPoller ==
  ASSUME Shape, Mailbox, Finished, NEW d \in Deliveries, Poller(d) PROVE Finished'
<1>1. Grow /\ (LandText(d) => \E x \in messages' : x.post = PostOf[d])
  BY MailboxPoller
<1>2. UNCHANGED job /\ \A m \in Mails : notice'[m].state # notice[m].state
                         => notice'[m].state = "open" /\ notice[m].state = "none"
  BY ShapePoller
<1>3. NoticesEnd
  BY <1>2 DEF NoticesEnd, Noticed
<1>4. JobsEnd
  BY <1>2 DEF JobsEnd
<1>5. \A e \in Deliveries : e # d => hook'[e] = hook[e]
  BY DEF Poller, RecordNotice, RecordRefusal, RouteText, LandText, Shape
<1>6. ASSUME hook'[d] = "done", hook[d] # "done"
      PROVE  /\ PostOf[d] \in Mails => PostOf[d] \in Noticed'
             /\ PostOf[d] \in Texts => \E x \in messages' : x.post = PostOf[d]
             /\ PostOf[d] \in Bounces /\ From[PostOf[d]] \in Storable => From[PostOf[d]] \in suppressed'
  <2>0. Mails \cap Texts = {} /\ Bounces \cap Mails = {} /\ Bounces \cap Texts = {}
    BY InboundConstants DEF Posts
  <2>1. CASE RecordNotice(d)
    <3>1. PostOf[d] \in Mails
      BY <2>1 DEF RecordNotice
    <3>2. notice' = IF notice[PostOf[d]].state # "none" THEN notice
                    ELSE [notice EXCEPT ![PostOf[d]].state = "open"]
      BY <1>6, <2>1 DEF RecordNotice, Shape
    <3>3. PostOf[d] \in Noticed'
      <4>1. notice[PostOf[d]] \in Notice
        BY <3>1 DEF Shape
      <4>2. notice'[PostOf[d]].state # "none"
        BY <3>1, <3>2, <4>1 DEF Shape, Notice
      <4>3. QED
        BY <3>1, <4>2 DEF Noticed
    <3>4. QED
      BY <2>0, <3>1, <3>3
  <2>2. CASE RecordRefusal(d)
    BY <2>0, <2>2 DEF RecordRefusal, Suppressing
  <2>3. CASE RouteText(d)
    BY <1>6, <2>3 DEF RouteText, Shape
  <2>4. CASE LandText(d)
    BY <1>1, <2>0, <2>4 DEF LandText
  <2>5. QED
    BY <2>1, <2>2, <2>3, <2>4 DEF Poller
<1>7. HooksEnd
  BY <1>5, <1>6 DEF HooksEnd
<1>8. QED
  BY <1>1, <1>3, <1>4, <1>7, FinishedStep

\* What a worker's decision leaves in its job.
LEMMA Decided ==
  ASSUME Jobs, NEW w \in Workers, NEW o, Decide(w, o)
  PROVE  job'[w].outcome = o /\ job'[w].mail = job[w].mail
<1>1. job' = [job EXCEPT ![w] = [job[w] EXCEPT !.phase = "report", !.outcome = o, !.found = 0]]
  BY DEF Decide
<1>2. job[w] \in Job
  BY DEF Jobs
<1>. DEFINE j == [job[w] EXCEPT !.phase = "report", !.outcome = o, !.found = 0]
<1>3. j.outcome = o /\ j.mail = job[w].mail
  BY <1>2 DEF Job
<1>4. job'[w] = j
  BY <1>1 DEF Jobs
<1>. HIDE DEF j
<1>5. QED
  BY <1>3, <1>4

LEMMA Proceeded ==
  ASSUME Jobs, NEW w \in Workers, NEW ph, Proceed(w, ph)
  PROVE  job'[w].phase = ph /\ job'[w].mail = job[w].mail
<1>1. job' = [job EXCEPT ![w] = [job[w] EXCEPT !.phase = ph]]
  BY DEF Proceed
<1>2. job[w] \in Job
  BY DEF Jobs
<1>. DEFINE j == [job[w] EXCEPT !.phase = ph]
<1>3. j.phase = ph /\ j.mail = job[w].mail
  BY <1>2 DEF Job
<1>4. job'[w] = j
  BY <1>1 DEF Jobs
<1>. HIDE DEF j
<1>5. QED
  BY <1>3, <1>4

\* A worker reports "done" for what it lands, or finds landed.
LEMMA FinishedWorker ==
  ASSUME Shape, Mailbox, Finished, NEW w \in Workers,
         Look(w) \/ Fetch(w) \/ Land(w) \/ LandFails(w)
  PROVE  Finished'
<1>1. Grow /\ (Land(w) => \E x \in messages' : x.post = job[w].mail)
  BY MailboxWorker
<1>2. UNCHANGED <<hook, notice>> /\ job[w].phase \in {"look", "fetch", "land"}
  BY DEF Look, Fetch, Land, LandFails
<1>3. NoticesEnd /\ HooksEnd
  BY <1>2 DEF NoticesEnd, HooksEnd, Noticed
<1>4. \A v \in Workers : v # w => job'[v] = job[v]
  BY DEF Look, Fetch, Land, LandFails, Decide, Proceed, Shape, Jobs
<1>5. job[w] \in Job
  BY DEF Shape, Jobs
<1>6. job'[w].mail = job[w].mail
  <2>1. \/ \E o \in {"done", "retry", "park"} : Decide(w, o)
        \/ \E ph \in {"fetch", "lock"} : Proceed(w, ph)
    BY DEF Look, Fetch, Land, LandFails
  <2>2. QED
    BY <2>1, Decided, Proceeded DEF Shape
<1>7. ASSUME job'[w].phase = "report", job'[w].outcome = "done"
      PROVE  \E x \in messages' : x.post = job[w].mail
  <2>1. CASE Land(w)
    BY <1>1, <2>1
  <2>2. CASE Look(w)
    <3>1. CASE Copies(Seat(w), job[w].mail) # {}
      BY <2>2, <3>1, <1>1 DEF Copies, Grow
    <3>2. CASE Copies(Seat(w), job[w].mail) = {}
      <4>1. Proceed(w, "fetch")
        BY <2>2, <3>2 DEF Look
      <4>2. job'[w].phase = "fetch"
        BY <4>1, <1>5 DEF Proceed, Shape, Jobs, Job
      <4>3. QED
        BY <1>7, <4>2
    <3>3. QED
      BY <3>1, <3>2
  <2>3. CASE Fetch(w) \/ LandFails(w)
    <3>1. Proceed(w, "lock") \/ Decide(w, "retry") \/ Decide(w, "park")
      BY <2>3 DEF Fetch, LandFails
    <3>2. job'[w].phase = "lock" \/ job'[w].outcome \in {"retry", "park"}
      BY <3>1, Decided, Proceeded DEF Shape
    <3>3. QED
      BY <1>7, <3>2
  <2>4. QED
    BY <2>1, <2>2, <2>3
<1>8. JobsEnd
  BY <1>4, <1>6, <1>7 DEF JobsEnd
<1>9. QED
  BY <1>1, <1>3, <1>8, FinishedStep

\* A notice is closed with what its worker reports.
LEMMA FinishedRecord ==
  ASSUME Shape, Mailbox, Finished, NEW w \in Workers, Record(w) \/ RecordLost(w)
  PROVE  Finished'
<1>1. Grow /\ UNCHANGED <<hook, messages>>
  BY MailboxElsewhere DEF Record, RecordLost, rows
<1>2. job[w].mail \in Mails /\ job[w].phase = "report" /\ Finish(w)
  BY SeatOfWork DEF Record, RecordLost
<1>3. \A m \in Mails : notice'[m].state \in {notice[m].state, "done"}
  BY ShapeRecord
<1>4. ASSUME NEW m \in Mails, notice'[m].state = "done", notice[m].state # "done"
      PROVE  \E x \in messages' : x.post = m
  <2>1. Record(w)
    BY <1>4 DEF RecordLost
  <2>2. notice[m] \in Notice
    BY DEF Shape
  <2>3. m = job[w].mail /\ job[w].outcome = "done"
    BY <1>2, <1>4, <2>1, <2>2 DEF Record, Shape, Notice
  <2>4. InBox(m)
    BY <1>2, <2>3 DEF Finished
  <2>5. QED
    BY <1>1, <2>4 DEF InBox
<1>5. NoticesEnd
  BY <1>3, <1>4 DEF NoticesEnd, Noticed
<1>6. \A v \in Workers : job'[v] = job[v] \/ job'[v].phase = "idle"
  BY <1>2 DEF Finish, Idle, Shape, Jobs
<1>7. JobsEnd /\ HooksEnd
  BY <1>1, <1>6 DEF JobsEnd, HooksEnd
<1>8. QED
  BY <1>1, <1>5, <1>7, FinishedStep

\* No other step finishes anything.
LEMMA FinishedElsewhere ==
  ASSUME Shape, Mailbox, Finished,
         \/ \E w \in Workers : Claim(w) \/ Take(w) \/ Lock(w) \/ Crash(w)
         \/ Outside
         \/ UNCHANGED vars
  PROVE  Finished'
<1>1. Grow
  BY MailboxElsewhere
<1>2. ASSUME NEW w \in Workers, Claim(w) \/ Take(w) \/ Lock(w) \/ Crash(w)
      PROVE  NoticesEnd /\ JobsEnd /\ HooksEnd
  <2>1. \A m \in Mails : notice'[m].state = notice[m].state
    <3>1. CASE Claim(w)
      <4>1. PICK B \in SUBSET Mails :
              notice' = [m \in Mails |-> IF m \in B THEN [notice[m] EXCEPT !.attempts = @ + 1]
                                         ELSE notice[m]]
        BY <3>1 DEF Claim
      <4>2. \A m \in Mails : notice[m] \in Notice
        BY DEF Shape
      <4>3. QED
        BY <4>1, <4>2 DEF Notice
    <3>2. CASE Take(w) \/ Lock(w) \/ Crash(w)
      BY <3>2 DEF Take, Lock, Crash
    <3>3. QED
      BY <1>2, <3>1, <3>2
  <2>2. job[w] \in Job
    BY DEF Shape, Jobs
  <2>3. job'[w].phase \in {"idle", "look", "land"} /\ \A v \in Workers : v # w => job'[v] = job[v]
    <3>1. CASE Claim(w)
      <4>1. \E B : job' = [job EXCEPT ![w] = [Idle EXCEPT !.batch = B]]
        BY <3>1 DEF Claim
      <4>2. QED
        BY <4>1 DEF Idle, Shape, Jobs
    <3>2. CASE Take(w)
      <4>1. PICK m : job' = [job EXCEPT ![w] = [job[w] EXCEPT !.phase = "look", !.mail = m]]
        BY <3>2 DEF Take
      <4>. DEFINE j == [job[w] EXCEPT !.phase = "look", !.mail = m]
      <4>2. j.phase = "look"
        BY <2>2 DEF Job
      <4>3. job' = [job EXCEPT ![w] = j]
        BY <4>1
      <4>. HIDE DEF j
      <4>4. QED
        BY <4>2, <4>3 DEF Shape, Jobs
    <3>3. CASE Lock(w)
      BY <2>2, <3>3 DEF Lock, Shape, Jobs, Job
    <3>4. CASE Crash(w)
      BY <3>4 DEF Crash, Idle, Shape, Jobs
    <3>5. QED
      BY <1>2, <3>1, <3>2, <3>3, <3>4
  <2>4. UNCHANGED hook
    BY <1>2 DEF Claim, Take, Lock, Crash
  <2>5. QED
    BY <2>1, <2>3, <2>4 DEF NoticesEnd, JobsEnd, HooksEnd, Noticed
<1>3. CASE Outside
  <2>1. UNCHANGED job /\ \A m \in Mails : notice'[m].state = notice[m].state
    BY <1>3, ShapeOutside
  <2>2. \A d \in Deliveries : hook'[d] = "done" => hook[d] = "done"
    BY <1>3 DEF Outside, Deliver, HandOver, CloseTicket, SetLifecycle, Requeue, Halt, Resume, Shape
  <2>3. QED
    BY <1>1, <2>1, <2>2, FinishedStep DEF NoticesEnd, JobsEnd, HooksEnd, Noticed
<1>4. CASE UNCHANGED vars
  BY <1>1, <1>4, FinishedStep DEF vars, NoticesEnd, JobsEnd, HooksEnd, Noticed
<1>5. QED
  BY <1>1, <1>2, <1>3, <1>4, FinishedStep

LEMMA FinishedNext == Shape /\ Mailbox /\ Finished /\ [Next]_vars => Finished'
BY NextCases, FinishedPoller, FinishedWorker, FinishedRecord, FinishedElsewhere

THEOREM FinishedProved == Spec => []Finished
BY ShapeProved, MailboxProved, FinishedInit, FinishedNext, PTL DEF Spec

\* "A message is never dropped" (loops/inbound.rs, record; main.rs,
\* on_telephony_webhook): what is published as done has landed, with its turn
\* and the opt-out of a contact the table can hold, since the outcome is read
\* off the transaction that landed it.
THEOREM DoneHasLanded == Spec => []DoneMeansLanded
<1>1. ASSUME Shape, Mailbox, Finished PROVE DoneMeansLanded
  <2>1. ASSUME NEW p, InBox(p)
        PROVE  /\ \E x \in messages :
                    /\ x.post = p
                    /\ Silent(p) \/ [thread |-> x.thread, seat |-> x.seat, post |-> p] \in turns
               /\ Wording[p] = "optout" /\ From[p] \in Storable => From[p] \in suppressed
    BY <1>1, <2>1 DEF InBox, Mailbox, TurnOf
  <2>2. \A m \in Mails : notice[m].state = "done" => InBox(m)
    BY <1>1 DEF Finished
  <2>3. ASSUME NEW d \in Deliveries, hook[d] = "done"
        PROVE  /\ PostOf[d] \in Mails => notice[PostOf[d]].state # "none"
               /\ PostOf[d] \in Texts => InBox(PostOf[d])
               /\ PostOf[d] \in Bounces /\ From[PostOf[d]] \in Storable => From[PostOf[d]] \in suppressed
    BY <1>1, <2>3 DEF Finished, Noticed
  <2>4. \A d \in Deliveries : PostOf[d] \in Mails \cup Texts \cup Bounces
    BY InboundConstants DEF Posts
  <2>5. Mails \cap Texts = {}
    BY InboundConstants
  <2>6. QED
    BY <2>1, <2>2, <2>3, <2>4, <2>5 DEF DoneMeansLanded
<1>2. QED
  BY <1>1, ShapeProved, MailboxProved, FinishedProved, PTL

-----------------------------------------------------------------------------
(* Who opens a thread *)

\* Two transactions in hand hold the locks of two scopes, and where the holder
\* read no thread there is still none but those a colleague handed over.
LandersApart ==
  \A v, w \in Workers :
    v # w /\ job[v].phase = "land" /\ job[w].phase = "land" => Scope(v) # Scope(w)

NothingThere ==
  \A w \in Workers, t \in 1 .. Len(threads) :
    /\ job[w].phase = "land" /\ job[w].found = 0
    /\ ~threads[t].moved /\ threads[t].channel = "email"
    => <<threads[t].owner, threads[t].contact>> # Scope(w)

Conversations == OneThreadPerContact /\ LandersApart /\ NothingThere

\* A step that takes no lock.
NoLander == \A w \in Workers : job'[w].phase = "land" => job'[w] = job[w]

LEMMA ThreadsKept ==
  ASSUME Conversations, NoLander, UNCHANGED threads PROVE Conversations'
<1>1. OneThreadPerContact'
  BY DEF Conversations, OneThreadPerContact
<1>2. LandersApart'
  BY DEF Conversations, LandersApart, NoLander, Scope, Seat
<1>3. NothingThere'
  BY DEF Conversations, NothingThere, NoLander, Scope, Seat
<1>4. QED
  BY <1>1, <1>2, <1>3 DEF Conversations

\* A thread opened for a scope that has none, by nobody whose scope is held.
LEMMA ThreadsGrow ==
  ASSUME Shape, Conversations, NoLander, NEW s \in Seats, NEW p \in Posts,
         threads' = Opened(s, p, 0),
         \A t \in 1 .. Len(threads) :
           ~threads[t].moved => <<threads[t].owner, threads[t].channel, threads[t].contact>>
                                  # <<s, Channel(p), From[p]>>,
         \A w \in Workers : job'[w].phase = "land" /\ Channel(p) = "email"
                              => Scope(w) # <<s, From[p]>>
  PROVE  Conversations'
<1>. DEFINE new == [owner |-> s, channel |-> Channel(p), contact |-> From[p], moved |-> FALSE]
            n == Len(threads)
<1>1. n \in Nat
  BY DEF Shape
<1>2. /\ Len(threads') = n + 1 /\ threads'[n + 1] = new
      /\ \A t \in 1 .. n : threads'[t] = threads[t]
  BY ThreadsOpened
<1>3. new.owner = s /\ new.channel = Channel(p) /\ new.contact = From[p]
  OBVIOUS
<1>. HIDE DEF new, n
<1>4. \A t \in 1 .. n + 1 : t \in 1 .. n \/ t = n + 1
  BY <1>1
<1>5. OneThreadPerContact'
  <2>1. ASSUME NEW t \in 1 .. n + 1, NEW u \in 1 .. n + 1, t # u,
               ~threads'[t].moved, ~threads'[u].moved
        PROVE  <<threads'[t].owner, threads'[t].channel, threads'[t].contact>>
                 # <<threads'[u].owner, threads'[u].channel, threads'[u].contact>>
    <3>1. CASE t \in 1 .. n /\ u \in 1 .. n
      BY <1>2, <2>1, <3>1 DEF Conversations, OneThreadPerContact, n
    <3>2. CASE t \in 1 .. n /\ u = n + 1
      BY <1>2, <1>3, <2>1, <3>2 DEF n
    <3>3. CASE t = n + 1 /\ u \in 1 .. n
      BY <1>2, <1>3, <2>1, <3>3 DEF n
    <3>4. QED
      BY <1>4, <2>1, <3>1, <3>2, <3>3
  <2>2. QED
    BY <1>2, <2>1 DEF OneThreadPerContact
<1>6. LandersApart'
  BY DEF Conversations, LandersApart, NoLander, Scope, Seat
<1>7. NothingThere'
  <2>1. ASSUME NEW w \in Workers, NEW t \in 1 .. n + 1,
               job'[w].phase = "land", job'[w].found = 0,
               ~threads'[t].moved, threads'[t].channel = "email"
        PROVE  <<threads'[t].owner, threads'[t].contact>> # Scope(w)
    <3>0. job'[w] = job[w]
      BY <2>1 DEF NoLander
    <3>1. CASE t \in 1 .. n
      BY <1>2, <2>1, <3>0, <3>1 DEF Conversations, NothingThere, n
    <3>2. CASE t = n + 1
      BY <1>2, <1>3, <2>1, <3>2
    <3>3. QED
      BY <1>4, <3>1, <3>2
  <2>2. \A w \in Workers : job'[w].phase = "land" =>
          Scope(w) = <<Addressee[job'[w].mail], From[job'[w].mail]>>
    BY DEF NoLander, Scope, Seat
  <2>3. QED
    BY <1>2, <2>1, <2>2 DEF NothingThere, Scope, Seat
<1>8. QED
  BY <1>5, <1>6, <1>7 DEF Conversations

\* No thread of the scope was read.
LEMMA NoneFound ==
  ASSUME Shape, NEW s, NEW p, Found(s, p) = 0, NEW t \in 1 .. Len(threads)
  PROVE  <<threads[t].owner, threads[t].channel, threads[t].contact>>
           # <<s, Channel(p), From[p]>>
BY FoundPosition DEF Held

LEMMA ConversationsInit == Init => Conversations
<1>. SUFFICES ASSUME Init PROVE Conversations
  OBVIOUS
<1>1. Len(threads) = 0 /\ \A w \in Workers : job[w].phase = "idle"
  BY DEF Init, Idle
<1>2. QED
  BY <1>1 DEF Conversations, OneThreadPerContact, LandersApart, NothingThere

LEMMA ConversationsPoller ==
  ASSUME Shape, Conversations, NEW d \in Deliveries, Poller(d) PROVE Conversations'
<1>1. NoLander
  BY ShapePoller DEF NoLander
<1>2. CASE LandText(d)
  <2>. DEFINE s == routed[d]
              p == PostOf[d]
  <2>1. s \in Seats /\ p \in Posts /\ Channel(p) # "email" /\ threads' = Opened(s, p, Found(s, p))
    BY <1>2, InboundConstants DEF LandText, Shape, Posts, Channel
  <2>. HIDE DEF s, p
  <2>2. CASE Found(s, p) = 0
    BY <1>1, <2>1, <2>2, NoneFound, ThreadsGrow
  <2>3. CASE Found(s, p) # 0
    BY <1>1, <2>1, <2>3, ThreadsKept DEF Opened
  <2>4. QED
    BY <2>2, <2>3
<1>3. CASE ~LandText(d)
  BY <1>1, <1>3, ThreadsKept DEF Poller, RecordNotice, RecordRefusal, RouteText, rows
<1>4. QED
  BY <1>2, <1>3

\* What a decision does to the jobs: the worker's own ends, the others stay.
LEMMA DeciderLeaves ==
  ASSUME Jobs, NEW w \in Workers, NEW o, Decide(w, o)
  PROVE  job'[w].phase = "report" /\ \A v \in Workers : v # w => job'[v] = job[v]
<1>1. job' = [job EXCEPT ![w] = [job[w] EXCEPT !.phase = "report", !.outcome = o, !.found = 0]]
  BY DEF Decide
<1>. DEFINE j == [job[w] EXCEPT !.phase = "report", !.outcome = o, !.found = 0]
<1>2. job[w] \in Job
  BY DEF Jobs
<1>3. j.phase = "report"
  BY <1>2 DEF Job
<1>4. job' = [job EXCEPT ![w] = j]
  BY <1>1
<1>. HIDE DEF j
<1>5. QED
  BY <1>3, <1>4 DEF Jobs

LEMMA ConversationsLand ==
  ASSUME Shape, Conversations, NEW w \in Workers, Land(w) PROVE Conversations'
<1>. DEFINE s == Seat(w)
            p == job[w].mail
<1>1. /\ s \in Seats /\ p \in Posts /\ p \in Mails /\ job[w].phase = "land"
      /\ threads' = Opened(s, p, job[w].found) /\ Scope(w) = <<s, From[p]>>
      /\ Channel(p) = "email" /\ Decide(w, "done")
  BY SeatOfWork DEF Land, Scope, Channel
<1>2. job'[w].phase = "report" /\ \A v \in Workers : v # w => job'[v] = job[v]
  BY <1>1, DeciderLeaves DEF Shape
<1>3. NoLander
  BY <1>2 DEF NoLander
<1>. HIDE DEF s, p
<1>4. CASE job[w].found = 0
  <2>1. ASSUME NEW t \in 1 .. Len(threads), ~threads[t].moved
        PROVE  <<threads[t].owner, threads[t].channel, threads[t].contact>>
                 # <<s, Channel(p), From[p]>>
    BY <1>1, <1>4, <2>1 DEF Conversations, NothingThere
  <2>2. ASSUME NEW v \in Workers, job'[v].phase = "land" PROVE Scope(v) # <<s, From[p]>>
    BY <1>1, <1>2, <2>2 DEF Conversations, LandersApart
  <2>3. QED
    BY <1>1, <1>3, <1>4, <2>1, <2>2, ThreadsGrow
<1>5. CASE job[w].found # 0
  BY <1>1, <1>3, <1>5, ThreadsKept DEF Opened
<1>6. QED
  BY <1>4, <1>5

\* The thread is read under the lock of its scope.
LEMMA ConversationsLock ==
  ASSUME Shape, Conversations, NEW w \in Workers, Lock(w) PROVE Conversations'
<1>. DEFINE f == Found(Seat(w), job[w].mail)
            j == [job[w] EXCEPT !.phase = "land", !.found = f]
<1>1. /\ job[w] \in Job /\ job[w].mail \in Mails /\ UNCHANGED threads
      /\ \A v \in Workers : job[v].phase = "land" => Scope(v) # Scope(w)
  BY SeatOfWork DEF Lock, Locked, rows
<1>2. j.phase = "land" /\ j.found = f /\ j.mail = job[w].mail
  BY <1>1 DEF Job
<1>3. job' = [job EXCEPT ![w] = j]
  BY DEF Lock
<1>. HIDE DEF j
<1>4. job'[w] = j /\ \A v \in Workers : v # w => job'[v] = job[v]
  BY <1>3 DEF Shape, Jobs
<1>5. \A v \in Workers : Scope(v) = <<Addressee[job'[v].mail], From[job'[v].mail]>>
  BY <1>2, <1>4 DEF Scope, Seat
<1>6. LandersApart'
  <2>1. ASSUME NEW u \in Workers, NEW v \in Workers, u # v,
               job'[u].phase = "land", job'[v].phase = "land"
        PROVE  Scope(u) # Scope(v)
    <3>1. CASE u = w
      BY <1>1, <1>4, <2>1, <3>1
    <3>2. CASE v = w
      BY <1>1, <1>4, <2>1, <3>2
    <3>3. CASE u # w /\ v # w
      BY <1>4, <2>1, <3>3 DEF Conversations, LandersApart
    <3>4. QED
      BY <3>1, <3>2, <3>3
  <2>2. QED
    BY <1>5, <2>1 DEF LandersApart, Scope, Seat
<1>7. NothingThere'
  <2>1. ASSUME NEW v \in Workers, NEW t \in 1 .. Len(threads),
               job'[v].phase = "land", job'[v].found = 0,
               ~threads[t].moved, threads[t].channel = "email"
        PROVE  <<threads[t].owner, threads[t].contact>> # Scope(v)
    <3>1. CASE v = w
      <4>1. f = 0 /\ Channel(job[w].mail) = "email"
        BY <1>1, <1>2, <1>4, <2>1, <3>1 DEF Channel
      <4>2. <<threads[t].owner, threads[t].channel, threads[t].contact>>
              # <<Seat(w), Channel(job[w].mail), From[job[w].mail]>>
        BY <4>1, NoneFound
      <4>3. QED
        BY <2>1, <3>1, <4>1, <4>2 DEF Scope
    <3>2. CASE v # w
      BY <1>4, <2>1, <3>2 DEF Conversations, NothingThere
    <3>3. QED
      BY <3>1, <3>2
  <2>2. QED
    BY <1>1, <1>5, <2>1 DEF NothingThere, Scope, Seat
<1>8. OneThreadPerContact'
  BY <1>1 DEF Conversations, OneThreadPerContact
<1>9. QED
  BY <1>6, <1>7, <1>8 DEF Conversations

\* The other steps of a worker take no lock and open nothing.
LEMMA ConversationsWorker ==
  ASSUME Shape, Conversations, NEW w \in Workers,
         Claim(w) \/ Take(w) \/ Crash(w) \/ Look(w) \/ Fetch(w) \/ LandFails(w)
           \/ Record(w) \/ RecordLost(w)
  PROVE  Conversations'
<1>0. job[w] \in Job
  BY DEF Shape, Jobs
<1>1. UNCHANGED threads
  BY DEF Claim, Take, Crash, Look, Fetch, LandFails, Record, RecordLost, rows
<1>2. \A v \in Workers : v # w => job'[v] = job[v]
  BY DEF Claim, Take, Crash, Look, Fetch, LandFails, Record, RecordLost, Finish,
         Decide, Proceed, Shape, Jobs
<1>3. job'[w].phase # "land"
  <2>1. CASE \E o \in {"done", "retry", "park"} : Decide(w, o)
    BY <2>1, DeciderLeaves DEF Shape
  <2>2. CASE \E ph \in {"fetch", "lock"} : Proceed(w, ph)
    BY <2>2, Proceeded DEF Shape
  <2>3. CASE Take(w)
    <3>1. PICK m : job' = [job EXCEPT ![w] = [job[w] EXCEPT !.phase = "look", !.mail = m]]
      BY <2>3 DEF Take
    <3>. DEFINE j == [job[w] EXCEPT !.phase = "look", !.mail = m]
    <3>2. j.phase = "look"
      BY <1>0 DEF Job
    <3>3. job' = [job EXCEPT ![w] = j]
      BY <3>1
    <3>. HIDE DEF j
    <3>4. QED
      BY <3>2, <3>3 DEF Shape, Jobs
  <2>4. CASE Claim(w) \/ Crash(w) \/ Record(w) \/ RecordLost(w)
    <3>1. job' = [job EXCEPT ![w] = Idle]
          \/ \E B : job' = [job EXCEPT ![w] = [Idle EXCEPT !.batch = B]]
      BY <2>4 DEF Claim, Crash, Record, RecordLost, Finish
    <3>2. QED
      BY <3>1 DEF Idle, Shape, Jobs
  <2>5. Look(w) \/ Fetch(w) \/ LandFails(w) =>
          \/ \E o \in {"done", "retry", "park"} : Decide(w, o)
          \/ \E ph \in {"fetch", "lock"} : Proceed(w, ph)
    BY DEF Look, Fetch, LandFails
  <2>6. QED
    BY <2>1, <2>2, <2>3, <2>4, <2>5
<1>4. NoLander
  BY <1>2, <1>3 DEF NoLander
<1>5. QED
  BY <1>1, <1>4, ThreadsKept

\* A thread that is handed over leaves the scope it was opened for.
LEMMA ConversationsOutside ==
  ASSUME Shape, Conversations, Outside PROVE Conversations'
<1>1. NoLander
  BY ShapeOutside DEF NoLander
<1>2. CASE \E t \in 1 .. Len(threads), s \in Seats : HandOver(t, s)
  <2>1. PICK t \in 1 .. Len(threads), s \in Seats : HandOver(t, s)
    BY <1>2
  <2>2. /\ Len(threads') = Len(threads) /\ threads'[t].moved = TRUE
        /\ \A u \in 1 .. Len(threads) : u # t => threads'[u] = threads[u]
    BY <2>1, ThreadHandedOver
  <2>3. \A u \in 1 .. Len(threads) : ~threads'[u].moved => threads'[u] = threads[u]
    BY <2>2
  <2>4. OneThreadPerContact'
    BY <2>2, <2>3 DEF Conversations, OneThreadPerContact
  <2>5. LandersApart'
    BY <1>1 DEF Conversations, LandersApart, NoLander, Scope, Seat
  <2>6. NothingThere'
    BY <1>1, <2>2, <2>3 DEF Conversations, NothingThere, NoLander, Scope, Seat
  <2>7. QED
    BY <2>4, <2>5, <2>6 DEF Conversations
<1>3. CASE ~\E t \in 1 .. Len(threads), s \in Seats : HandOver(t, s)
  BY <1>1, <1>3, ThreadsKept DEF Outside, Deliver, CloseTicket, SetLifecycle,
     Requeue, Halt, Resume, rows
<1>4. QED
  BY <1>2, <1>3

LEMMA ConversationsNext == Shape /\ Conversations /\ [Next]_vars => Conversations'
<1>. SUFFICES ASSUME Shape, Conversations, [Next]_vars PROVE Conversations'
  OBVIOUS
<1>1. CASE UNCHANGED vars
  BY <1>1, ThreadsKept DEF vars, rows, NoLander
<1>2. QED
  BY <1>1, NextCases, ConversationsPoller, ConversationsLand, ConversationsLock,
     ConversationsWorker, ConversationsOutside

\* "pg_advisory_xact_lock" (app/inbound.rs, conversation_for): the lock is held
\* from the read of the thread to the commit that opens one, so two messages of
\* one contact never open two threads.
THEOREM ThreadsAreOne == Spec => []OneThreadPerContact
<1>1. Conversations => OneThreadPerContact
  BY DEF Conversations
<1>2. QED
  BY <1>1, ShapeProved, ConversationsInit, ConversationsNext, PTL DEF Spec
=============================================================================
