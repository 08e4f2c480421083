------------------------------ MODULE Inbound ------------------------------
(***************************************************************************)
(* From a provider's callback to an agent's turn.  A verified delivery is   *)
(* stored as an outbox row (routes/webhooks.rs); the outbox poller reads it *)
(* in the transaction that publishes it (main.rs).  A text carries its body *)
(* and lands there.  A mail only announces an id: the poller files a notice *)
(* and the inbound loop (loops/inbound.rs) fetches the body and lands the   *)
(* message (app/inbound.rs) with its turn, its ticket and its opt-out.      *)
(*                                                                         *)
(* The outbox's leases and fences are the subject of Outbox: here a stored  *)
(* delivery is read by one committed transaction, and the lease of a notice *)
(* may lapse at any moment, so a slow worker meets another on its notice.   *)
(***************************************************************************)
EXTENDS Naturals, Sequences, FiniteSets

CONSTANTS
  Workers,      \* replicas of the inbound loop
  Seats,        \* employees of the company
  Contacts,     \* the third parties that write
  Storable,     \* those whose address `suppressions` can hold
  Mails, Texts, \* what they write, by channel
  Bounces,      \* permanent refusals and complaints a provider reports
  Deliveries,   \* verified callbacks, one per delivery id
  PostOf,       \* the mail, text or bounce a delivery is about
  From,         \* who wrote a post, or whom a bounce names
  Addressee,    \* the seat a mail's address resolves to, or Nobody
  Wording,      \* what a post says: "plain", "auto", "probe" or "optout"
  Desk,         \* the seats of the dialled number, oldest allocation first
  Nobody,       \* no seat, no mail
  Batch,        \* BATCH: notices per claim
  MaxAttempts,  \* outbox::MAX_ATTEMPTS
  MaxActs       \* bound of the model: mishaps, handovers, operator acts, halts

Posts == Mails \cup Texts

ASSUME InboundConstants ==
  /\ Nobody \notin Seats \cup Mails
  /\ Mails \cap Texts = {} /\ Bounces \cap Posts = {}
  /\ PostOf \in [Deliveries -> Posts \cup Bounces]
  /\ From \in [Posts \cup Bounces -> Contacts]
  /\ Storable \subseteq Contacts
  /\ Addressee \in [Mails -> Seats \cup {Nobody}]
  /\ Wording \in [Posts -> {"plain", "auto", "probe", "optout"}]
  /\ Desk \in Seq(Seats)
  /\ Batch \in Nat \ {0} /\ MaxAttempts \in Nat \ {0} /\ MaxActs \in Nat

VARIABLES
  hook,        \* the stored deliveries: "none", "stored", "done" or "dead"
  routed,      \* the seat a poller resolved a text to, before it lands it
  notice,      \* the mails' notices: state and attempts
  threads,     \* the conversations, oldest first
  messages,    \* the messages rows, one per (seat, post)
  turns,       \* the turn events: their id is made of thread and key
  tickets,     \* the threads with an open work item
  suppressed,  \* the contacts nobody may write to any more
  active,      \* the seats whose lifecycle is active
  stopped,     \* the company is halted
  job,         \* what each worker is doing
  spent        \* the mishaps, handovers, operator acts and halts so far

vars == <<hook, routed, notice, threads, messages, turns, tickets,
          suppressed, active, stopped, job, spent>>

rows == <<threads, messages, turns, tickets, suppressed>>

Idle == [phase |-> "idle", batch |-> {}, mail |-> Nobody, found |-> 0,
         outcome |-> "none"]

Init ==
  /\ hook = [d \in Deliveries |-> "none"]
  /\ routed = [d \in Deliveries |-> Nobody]
  /\ notice = [m \in Mails |-> [state |-> "none", attempts |-> 0]]
  /\ threads = <<>>
  /\ messages = {} /\ turns = {} /\ tickets = {} /\ suppressed = {}
  /\ active = Seats
  /\ stopped = FALSE
  /\ job = [w \in Workers |-> Idle]
  /\ spent = 0

-----------------------------------------------------------------------------
(* Threads and landing *)

Channel(p) == IF p \in Mails THEN "email" ELSE "text"

\* The threads a seat holds with a contact on a channel.
Held(s, ch, c) == {t \in 1 .. Len(threads) :
                     /\ threads[t].owner = s
                     /\ threads[t].channel = ch
                     /\ threads[t].contact = c}

Oldest(T) == CHOOSE t \in T : \A u \in T : t <= u

\* conversation_for reads the oldest thread of the scope, 0 standing for none,
Found(s, p) ==
  LET T == Held(s, Channel(p), From[p]) IN IF T = {} THEN 0 ELSE Oldest(T)

\* and opens one when there is none.
Opened(s, p, f) ==
  IF f # 0 THEN threads
  ELSE Append(threads, [owner |-> s, channel |-> Channel(p),
                        contact |-> From[p], moved |-> FALSE])

ThreadAt(f) == IF f # 0 THEN f ELSE Len(threads) + 1

\* Neither the daily probe nor an automatic answer wakes anybody.
Silent(p) == Wording[p] \in {"auto", "probe"}

\* The rows of one key; UNIQUE (tenant_id, idempotency_key), and the key names
\* the seat.
Copies(s, p) == {x \in messages : x.seat = s /\ x.post = p}

TurnsFor(s, p, t) == IF Silent(p) THEN {} ELSE {[thread |-> t, seat |-> s, post |-> p]}

\* resume: the message landed before; its turn is asked for again, on the
\* thread the row names, and the same event comes back.
Resumed(s, p) ==
  UNION {TurnsFor(s, p, x.thread) : x \in Copies(s, p)}

\* suppress, of an address the table can hold; any other is logged, for
\* somebody to record by hand, and the transaction goes on.
Suppressing(c) == suppressed \cup ({c} \cap Storable)

Mut_LandingOnNewThread(s, p, t) ==
  IF Copies(s, p) # {}
  THEN /\ turns' = turns \cup TurnsFor(s, p, t)
       /\ UNCHANGED <<messages, tickets, suppressed>>
  ELSE /\ messages' = messages \cup {[seat |-> s, post |-> p, thread |-> t]}
       /\ turns' = turns \cup TurnsFor(s, p, t)
       /\ tickets' = IF Silent(p) THEN tickets ELSE tickets \cup {t}
       /\ suppressed' = IF Wording[p] = "optout" THEN Suppressing(From[p]) ELSE suppressed

\* land, in the transaction that opened or found thread t.
Landing(s, p, t) ==
  IF Copies(s, p) # {}
  THEN /\ turns' = turns \cup Resumed(s, p)
       /\ UNCHANGED <<messages, tickets, suppressed>>
  ELSE /\ messages' = messages \cup {[seat |-> s, post |-> p, thread |-> t]}
       /\ turns' = turns \cup TurnsFor(s, p, t)
       /\ tickets' = IF Silent(p) THEN tickets ELSE tickets \cup {t}
       /\ suppressed' = IF Wording[p] = "optout" THEN Suppressing(From[p]) ELSE suppressed

-----------------------------------------------------------------------------
(* The edge and the outbox poller's handlers *)

\* The route stores a verified delivery; a redelivery finds its row.
Deliver(d) ==
  /\ hook[d] = "none"
  /\ hook' = [hook EXCEPT ![d] = "stored"]
  /\ UNCHANGED <<routed, notice, rows, active, stopped, job, spent>>

\* record_notice: the notice's key names the seat, so a second delivery of the
\* mail finds the notice of the first.  An unknown recipient is terminal.
RecordNotice(d) ==
  LET m == PostOf[d] IN
  /\ hook[d] = "stored" /\ m \in Mails
  /\ IF Addressee[m] = Nobody
     THEN hook' = [hook EXCEPT ![d] = "dead"] /\ UNCHANGED notice
     ELSE /\ hook' = [hook EXCEPT ![d] = "done"]
          /\ notice' = IF notice[m].state # "none" THEN notice
                       ELSE [notice EXCEPT ![m].state = "open"]
  /\ UNCHANGED <<routed, rows, active, stopped, job, spent>>

\* record_refusal: a permanent refusal or a complaint suppresses the address,
\* unless it does not parse.
RecordRefusal(d) ==
  /\ hook[d] = "stored" /\ PostOf[d] \in Bounces
  /\ hook' = [hook EXCEPT ![d] = "done"]
  /\ suppressed' = Suppressing(From[PostOf[d]])
  /\ UNCHANGED <<routed, notice, threads, messages, turns, tickets,
                 active, stopped, job, spent>>

\* resolve_phone_recipient: the seat of the number that holds the oldest thread
\* with the caller, else the oldest allocation; active seats only.
OnDesk == {i \in 1 .. Len(Desk) : Desk[i] \in active}

Known(c) == UNION {Held(Desk[i], "text", c) : i \in OnDesk}

PhoneRecipient(c) ==
  IF OnDesk = {} THEN Nobody
  ELSE IF Known(c) # {} THEN threads[Oldest(Known(c))].owner
  ELSE Desk[Oldest(OnDesk)]

Mut_PublishOnRoute(d) ==
  /\ hook[d] = "stored" /\ PostOf[d] \in Texts
  /\ LET s == PhoneRecipient(From[PostOf[d]]) IN
     /\ hook' = [hook EXCEPT ![d] = IF s = Nobody THEN "dead" ELSE "done"]
     /\ routed' = [routed EXCEPT ![d] = s]
  /\ UNCHANGED <<notice, rows, active, stopped, job, spent>>

\* The transaction that reads a stored text first resolves who it is for...
RouteText(d) ==
  /\ hook[d] = "stored" /\ PostOf[d] \in Texts
  /\ LET s == PhoneRecipient(From[PostOf[d]]) IN
     /\ hook' = [hook EXCEPT ![d] = IF s = Nobody THEN "dead" ELSE @]
     /\ routed' = [routed EXCEPT ![d] = s]
  /\ UNCHANGED <<notice, rows, active, stopped, job, spent>>

\* ... and lands it, publishing the delivery in the same commit.
LandText(d) ==
  LET p == PostOf[d]
      s == routed[d] IN
  /\ hook[d] = "stored" /\ p \in Texts /\ s # Nobody
  /\ threads' = Opened(s, p, Found(s, p))
  /\ Landing(s, p, ThreadAt(Found(s, p)))
  /\ hook' = [hook EXCEPT ![d] = "done"]
  /\ UNCHANGED <<routed, notice, active, stopped, job, spent>>

-----------------------------------------------------------------------------
(* The inbound loop *)

Open(m) == notice[m].state = "open"

Mut_AttemptUncounted(w) ==
  /\ job[w] = Idle /\ ~stopped
  /\ \E B \in SUBSET {m \in Mails : Open(m) /\ notice[m].attempts < MaxAttempts} :
       /\ B # {} /\ Cardinality(B) <= Batch
       /\ job' = [job EXCEPT ![w] = [Idle EXCEPT !.batch = B]]
  /\ UNCHANGED <<hook, routed, notice, rows, active, stopped, spent>>

\* claim_of(Only(inbound)): a batch of a company that is not halted, of
\* unpublished notices with attempts left whose lease lapsed; the attempt is
\* counted here.
Claim(w) ==
  /\ job[w] = Idle /\ ~stopped
  /\ \E B \in SUBSET {m \in Mails : Open(m) /\ notice[m].attempts < MaxAttempts} :
       /\ B # {} /\ Cardinality(B) <= Batch
       /\ notice' = [m \in Mails |-> IF m \in B THEN [notice[m] EXCEPT !.attempts = @ + 1]
                                     ELSE notice[m]]
       /\ job' = [job EXCEPT ![w] = [Idle EXCEPT !.batch = B]]
  /\ UNCHANGED <<hook, routed, rows, active, stopped, spent>>

\* The next notice of the batch becomes a job.
Take(w) ==
  /\ job[w].phase = "idle"
  /\ \E m \in job[w].batch :
       job' = [job EXCEPT ![w] = [@ EXCEPT !.phase = "look", !.mail = m]]
  /\ UNCHANGED <<hook, routed, notice, rows, active, stopped, spent>>

Seat(w) == Addressee[job[w].mail]

Decide(w, o) ==
  job' = [job EXCEPT ![w] = [@ EXCEPT !.phase = "report", !.outcome = o, !.found = 0]]

Proceed(w, ph) == job' = [job EXCEPT ![w] = [@ EXCEPT !.phase = ph]]

\* ingest_email's first transaction: a mail that landed before is done.
Look(w) ==
  /\ job[w].phase = "look"
  /\ LET m == job[w].mail IN
     /\ turns' = turns \cup Resumed(Seat(w), m)
     /\ IF Copies(Seat(w), m) # {} THEN Decide(w, "done") ELSE Proceed(w, "fetch")
  /\ UNCHANGED <<hook, routed, notice, threads, messages, tickets,
                 suppressed, active, stopped, spent>>

\* The body and the attachments are fetched outside any transaction.  A body
\* the provider has not materialised yet, perhaps never will, and a retryable
\* answer are tried again; anything else the provider refuses is parked.
Fetch(w) ==
  /\ job[w].phase = "fetch"
  /\ \/ Proceed(w, "lock")
     \/ \E o \in {"retry", "park"} : Decide(w, o)
  /\ UNCHANGED <<hook, routed, notice, rows, active, stopped, spent>>

\* conversation_for's advisory lock on (seat, channel, contact) is held until
\* the transaction ends, over the read of the thread and all that follows.
Scope(w) == <<Seat(w), From[job[w].mail]>>

Mut_NoLock(scope) == FALSE

Locked(scope) == \E v \in Workers : job[v].phase = "land" /\ Scope(v) = scope

Lock(w) ==
  /\ job[w].phase = "lock"
  /\ ~Locked(Scope(w))
  /\ job' = [job EXCEPT ![w] = [@ EXCEPT !.phase = "land",
                                        !.found = Found(Seat(w), job[w].mail)]]
  /\ UNCHANGED <<hook, routed, notice, rows, active, stopped, spent>>

\* The rest of the transaction: the thread, the message, its turn, its ticket
\* and its opt-out commit together...
Land(w) ==
  LET m == job[w].mail IN
  /\ job[w].phase = "land"
  /\ threads' = Opened(Seat(w), m, job[w].found)
  /\ Landing(Seat(w), m, ThreadAt(job[w].found))
  /\ Decide(w, "done")
  /\ UNCHANGED <<hook, routed, notice, active, stopped, spent>>

\* ... or not at all: the body does not normalise, or the database says no.
LandFails(w) ==
  /\ job[w].phase = "land"
  /\ \E o \in {"retry", "park"} : Decide(w, o)
  /\ UNCHANGED <<hook, routed, notice, rows, active, stopped, spent>>

Finish(w) ==
  job' = [job EXCEPT ![w] = [Idle EXCEPT !.batch = job[w].batch \ {job[w].mail}]]

\* mark_done, mark_failed or park, all fenced by published_at IS NULL.
Record(w) ==
  /\ job[w].phase = "report"
  /\ LET m == job[w].mail IN
     notice' = IF ~Open(m) THEN notice
               ELSE CASE job[w].outcome = "done" -> [notice EXCEPT ![m].state = "done"]
                      [] job[w].outcome = "park" -> [notice EXCEPT ![m].attempts = MaxAttempts]
                      [] OTHER -> notice
  /\ Finish(w)
  /\ UNCHANGED <<hook, routed, rows, active, stopped, spent>>

Act == spent < MaxActs /\ spent' = spent + 1

\* The outcome could not be written: logged and swallowed.
RecordLost(w) ==
  /\ job[w].phase = "report"
  /\ Finish(w)
  /\ Act
  /\ UNCHANGED <<hook, routed, notice, rows, active, stopped>>

\* The replica dies; its transaction rolls back, its locks and its batch go.
Crash(w) ==
  /\ job[w] # Idle
  /\ job' = [job EXCEPT ![w] = Idle]
  /\ Act
  /\ UNCHANGED <<hook, routed, notice, rows, active, stopped>>

-----------------------------------------------------------------------------
(* The operator, the founder and the employees *)

Dead(m) == Open(m) /\ notice[m].attempts >= MaxAttempts

\* requeue_dead_letters: every dead letter of the company is due again.
Requeue ==
  /\ (\E m \in Mails : Dead(m)) \/ (\E d \in Deliveries : hook[d] = "dead")
  /\ hook' = [d \in Deliveries |-> IF hook[d] = "dead" THEN "stored" ELSE hook[d]]
  /\ notice' = [m \in Mails |-> IF Dead(m) THEN [notice[m] EXCEPT !.attempts = 0]
                                ELSE notice[m]]
  /\ Act
  /\ UNCHANGED <<routed, rows, active, stopped, job>>

\* hand_over: an employee gives a thread of its own to a colleague.
HandOver(t, to) ==
  /\ t \in 1 .. Len(threads)
  /\ threads[t].owner # to
  /\ {threads[t].owner, to} \subseteq active
  /\ threads' = [threads EXCEPT ![t] = [@ EXCEPT !.owner = to, !.moved = TRUE]]
  /\ Act
  /\ UNCHANGED <<hook, routed, notice, messages, turns, tickets,
                 suppressed, active, stopped, job>>

\* An employee closes the ticket of a thread.
CloseTicket(t) ==
  /\ t \in tickets
  /\ tickets' = tickets \ {t}
  /\ Act
  /\ UNCHANGED <<hook, routed, notice, threads, messages, turns,
                 suppressed, active, stopped, job>>

\* A seat is suspended or resumed.
SetLifecycle(s) ==
  /\ active' = IF s \in active THEN active \ {s} ELSE active \cup {s}
  /\ Act
  /\ UNCHANGED <<hook, routed, notice, rows, stopped, job>>

\* The company is halted, and taken up again.
Halt ==
  /\ ~stopped /\ stopped' = TRUE
  /\ Act
  /\ UNCHANGED <<hook, routed, notice, rows, active, job>>

Resume ==
  /\ stopped /\ stopped' = FALSE
  /\ UNCHANGED <<hook, routed, notice, rows, active, job, spent>>

Poller(d) == RecordNotice(d) \/ RecordRefusal(d) \/ RouteText(d) \/ LandText(d)

\* What a replica of the loop does by itself.
Loop(w) ==
  \/ Claim(w) \/ Take(w) \/ Look(w) \/ Fetch(w) \/ Lock(w) \/ Land(w)
  \/ LandFails(w) \/ Record(w)

Next ==
  \/ \E d \in Deliveries : Deliver(d) \/ Poller(d)
  \/ \E w \in Workers : Loop(w) \/ RecordLost(w) \/ Crash(w)
  \/ \E t \in 1 .. Len(threads), s \in Seats : HandOver(t, s)
  \/ \E t \in tickets : CloseTicket(t)
  \/ \E s \in Seats : SetLifecycle(s)
  \/ Requeue \/ Halt \/ Resume

Spec == Init /\ [][Next]_vars

\* Both pollers tick for ever; a replica that dies is started again. A halt
\* does not stop the handler of a delivery claimed before it, but nothing is
\* assumed of the outbox poller while one lasts.
FairSpec ==
  /\ Spec
  /\ WF_vars(~stopped /\ \E d \in Deliveries : Poller(d))
  /\ \A w \in Workers : WF_vars(Loop(w))

-----------------------------------------------------------------------------
(* Properties *)

TypeOK ==
  /\ hook \in [Deliveries -> {"none", "stored", "done", "dead"}]
  /\ routed \in [Deliveries -> Seats \cup {Nobody}]
  /\ notice \in [Mails -> [state : {"none", "open", "done"}, attempts : 0 .. MaxAttempts]]
  /\ threads \in Seq([owner : Seats, channel : {"email", "text"},
                      contact : Contacts, moved : BOOLEAN])
  /\ messages \subseteq [seat : Seats, post : Posts, thread : 1 .. Len(threads)]
  /\ turns \subseteq [thread : 1 .. Len(threads), seat : Seats, post : Posts]
  /\ tickets \subseteq 1 .. Len(threads)
  /\ suppressed \subseteq Contacts
  /\ active \subseteq Seats /\ stopped \in BOOLEAN
  /\ job \in [Workers -> [phase : {"idle", "look", "fetch", "lock", "land", "report"},
                          batch : SUBSET Mails, mail : Mails \cup {Nobody},
                          found : 0 .. Len(threads),
                          outcome : {"none", "done", "retry", "park"}]]
  /\ spent \in 0 .. MaxActs

\* loops/inbound.rs, "Exactly once, across a restart": however often a mail is
\* delivered, claimed again after a lapsed lease or retried after a crash, and
\* whoever holds its thread by then, it is one message and at most one turn.
MailLandsOnce ==
  \A m \in Mails :
    /\ Cardinality({x \in messages : x.post = m}) <= 1
    /\ Cardinality({x \in turns : x.post = m}) <= 1

\* "A message is never dropped": what is published as done has landed, with the
\* turn it owes and the opt-out it states; a delivery read has left a notice,
\* a message or a suppression behind.  A refusal by a contact `suppressions`
\* cannot store is in the log alone (land, record_refusal).
DoneMeansLanded ==
  LET Refused(c)   == c \in Storable => c \in suppressed
      HasLanded(p) ==
        /\ \E x \in messages :
             /\ x.post = p
             /\ Silent(p) \/ [thread |-> x.thread, seat |-> x.seat, post |-> p] \in turns
        /\ Wording[p] = "optout" => Refused(From[p])
  IN /\ \A m \in Mails : notice[m].state = "done" => HasLanded(m)
     /\ \A d \in Deliveries : hook[d] = "done" =>
          CASE PostOf[d] \in Mails -> notice[PostOf[d]].state # "none"
            [] PostOf[d] \in Texts -> HasLanded(PostOf[d])
            [] OTHER -> Refused(From[PostOf[d]])

\* conversation_for: two messages of one contact landing at once share a
\* thread, so a seat holds one thread with a contact on a channel, those it
\* was handed by a colleague apart.
OneThreadPerContact ==
  \A t, u \in 1 .. Len(threads) :
    (t # u /\ ~threads[t].moved /\ ~threads[u].moved) =>
      <<threads[t].owner, threads[t].channel, threads[t].contact>>
        # <<threads[u].owner, threads[u].channel, threads[u].contact>>

\* Nothing is worked on for ever: once nobody revives, and unless the company
\* stays halted, every stored delivery and every notice ends done or among the
\* dead letters an operator reads, however often a body is not there, a landing
\* fails, a lease lapses or a report is lost (claim_of, record).
EveryDeliveryEnds ==
  <>[]~stopped =>
    <>[](/\ \A d \in Deliveries : hook[d] # "stored"
         /\ \A m \in Mails : Open(m) => Dead(m))
=============================================================================
