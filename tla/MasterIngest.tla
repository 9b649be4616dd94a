---------------------------- MODULE MasterIngest ----------------------------
(***************************************************************************)
(* The web tier accepts the signed events of one strategy's master: the    *)
(* Redis nonce, the record of the master's position, the TradeEvent row    *)
(* and the job for the copy worker.  Several requests run at once, and one *)
(* action is the code of ingestMasterEvent between two awaits.             *)
(*                                                                         *)
(* The sender is the master's terminal: it sends the events of a ticket in *)
(* order and sends again what it got no good answer to.                    *)
(***************************************************************************)
EXTENDS Integers, FiniteSets

CONSTANTS
  Events,     \* the master's events, numbered in the order it made them
  Kind, Ticket,
  Volume,     \* Volume[e]: the lots the event carries, in hundredths
  Open,       \* Open[e]: the lots the terminal has open on its ticket just before it
  Tickets,
  Requests,   \* requests the web tier runs at once
  NoEvent,
  MaxSends,   \* bound: deliveries of one event
  MaxRedisErrors, MaxThrows, MaxCrashes, MaxFlips  \* bounds on failures, status changes

Kinds == {"OPEN", "MODIFY", "CLOSE", "PARTIAL_CLOSE", "PENDING_ORDER", "DELETE_PENDING"}

ASSUME LogAssumption ==
  /\ Events \subseteq Nat
  /\ NoEvent \notin Events
  /\ Kind \in [Events -> Kinds]
  /\ Ticket \in [Events -> Tickets]
  /\ Volume \in [Events -> Nat \ {0}]

\* The events that end a ticket.
Ends == {"CLOSE", "DELETE_PENDING"}

\* Events of one ticket, the first made before the second; with none in between.
Before(d, e) == d < e /\ Ticket[d] = Ticket[e]
JustBefore(d, e) == Before(d, e) /\ ~ \E c \in Events : Before(d, c) /\ Before(c, e)

\* What the terminal has left after an event that does not end the ticket: a partial close
\* names the lots it closed, any other event the lots of the position or order.
Left(e) == IF Kind[e] = "PARTIAL_CLOSE" THEN Open[e] - Volume[e] ELSE Volume[e]

\* A terminal closes no more than it has open, and a ticket that has ended is not used again.
ASSUME TerminalAssumption ==
  /\ Open \in [Events -> Nat]
  /\ \A e \in Events : Kind[e] = "PARTIAL_CLOSE" => Volume[e] <= Open[e]
  /\ \A d, e \in Events : JustBefore(d, e) /\ Kind[e] = "PARTIAL_CLOSE" => Open[e] = Left(d)
  /\ \A d, e \in Events : Before(d, e) => Kind[d] \notin Ends
ASSUME BoundsAssumption ==
  {MaxSends, MaxRedisErrors, MaxThrows, MaxCrashes, MaxFlips} \subseteq Nat

VARIABLES
  active,    \* the strategy is ACTIVE
  nonces,    \* event ids Redis has seen
  trade,     \* MasterTrade, by ticket
  stored,    \* TradeEvent, by event
  jobs,      \* events enqueued for the copy worker
  pc, req,   \* each request: its next step and its event
  snap,      \* the strategy's status as authentication read it
  seen,      \* the master trade as storeEvent read it
  sends,     \* deliveries of each event
  answer,    \* the last answer to each event
  accepted,  \* history: QUEUED answers to each event
  hurried,   \* history: the sender gave up waiting for an answer on a ticket
  redisErrors, throws, crashes, flips

store    == <<nonces, trade, stored, jobs>>
request  == <<pc, req, snap, seen>>
sender   == <<sends, answer, accepted, hurried>>
failures == <<redisErrors, throws, crashes>>
vars     == <<active, store, request, sender, failures, flips>>

TradeStatus == {"none", "PENDING", "OPEN", "PARTIALLY_CLOSED", "CLOSED"}
TradeType == [status : TradeStatus, volume : Nat]
NoTrade == [status |-> "none", volume |-> 0]

\* A close fraction is the closed and the open volume; null is NoFraction.
NoFraction == <<0, 0>>
EventStatus == {"none", "QUEUED", "PROCESSED"}
StoredType == [status : EventStatus, fraction : Nat \X Nat]

PC == {"idle", "nonce", "find", "upsert", "create", "enqueue"}
Answers == {"none", "QUEUED", "DUPLICATE", "IGNORED", "ERROR"}

InFlight(e) == \E r \in Requests : pc[r] # "idle" /\ req[r] = e

TypeOK ==
  /\ active \in BOOLEAN
  /\ nonces \subseteq Events
  /\ trade \in [Tickets -> TradeType]
  /\ stored \in [Events -> StoredType]
  /\ jobs \subseteq Events
  /\ pc \in [Requests -> PC]
  /\ req \in [Requests -> Events \cup {NoEvent}]
  /\ \A r \in Requests : pc[r] # "idle" => req[r] \in Events
  /\ snap \in [Requests -> BOOLEAN]
  /\ seen \in [Requests -> TradeType]
  /\ sends \in [Events -> Nat]
  /\ answer \in [Events -> Answers]
  /\ accepted \in [Events -> Nat]
  /\ hurried \in BOOLEAN
  /\ redisErrors \in Nat /\ throws \in Nat /\ crashes \in Nat /\ flips \in Nat

Init ==
  /\ active \in BOOLEAN
  /\ nonces = {}
  /\ trade = [t \in Tickets |-> NoTrade]
  /\ stored = [e \in Events |-> [status |-> "none", fraction |-> NoFraction]]
  /\ jobs = {}
  /\ pc = [r \in Requests |-> "idle"]
  /\ req = [r \in Requests |-> NoEvent]
  /\ snap = [r \in Requests |-> FALSE]
  /\ seen = [r \in Requests |-> NoTrade]
  /\ sends = [e \in Events |-> 0]
  /\ answer = [e \in Events |-> "none"]
  /\ accepted = [e \in Events |-> 0]
  /\ hurried = FALSE
  /\ redisErrors = 0 /\ throws = 0 /\ crashes = 0 /\ flips = 0

Goto(r, step) == pc' = [pc EXCEPT ![r] = step]

\* The request is over and its memory gone.
EndRequest(r) ==
  /\ Goto(r, "idle")
  /\ req' = [req EXCEPT ![r] = NoEvent]
  /\ snap' = [snap EXCEPT ![r] = FALSE]
  /\ seen' = [seen EXCEPT ![r] = NoTrade]

\* The request answers the sender.
Reply(r, status) ==
  /\ answer' = [answer EXCEPT ![req[r]] = status]
  /\ accepted' = [accepted EXCEPT ![req[r]] = IF status = "QUEUED" THEN @ + 1 ELSE @]
  /\ EndRequest(r)
  /\ UNCHANGED <<sends, hurried>>

-----------------------------------------------------------------------------
(* storeEvent: what an event makes of the master's position.               *)

\* Mutant: the fraction is taken of the volume left after the close.
FractionOfRemainder(e, t) ==
  IF Kind[e] = "PARTIAL_CLOSE" /\ t.volume > Volume[e]
  THEN <<Volume[e], t.volume - Volume[e]>>
  ELSE NoFraction

\* The fraction of the position still open that a partial close ends.
CloseFraction(e, t) ==
  IF Kind[e] = "PARTIAL_CLOSE" /\ t.volume > 0
  THEN <<IF Volume[e] < t.volume THEN Volume[e] ELSE t.volume, t.volume>>
  ELSE NoFraction

\* The volume recorded: a partial close leaves the remainder, any other event
\* reports the position's size.
VolumeAfter(e, t) ==
  IF CloseFraction(e, t) = NoFraction THEN Volume[e] ELSE t.volume - CloseFraction(e, t)[1]

NewTrade(e) ==
  [status |-> IF Kind[e] = "PENDING_ORDER" THEN "PENDING" ELSE "OPEN", volume |-> Volume[e]]

\* The row t as it is now, updated from the row as it was read before.
UpdatedTrade(e, t, read) ==
  [status |-> CASE Kind[e] = "CLOSE" -> "CLOSED"
                [] Kind[e] = "PARTIAL_CLOSE" -> "PARTIALLY_CLOSED"
                [] OTHER -> t.status,
   volume |-> VolumeAfter(e, read)]

-----------------------------------------------------------------------------

\* Events before e on its ticket have been answered.
MaySend(e) ==
  /\ sends[e] < MaxSends
  /\ \A d \in Events :
       (d < e /\ Ticket[d] = Ticket[e]) => answer[d] \in {"QUEUED", "DUPLICATE", "IGNORED"}

\* A request is still at work on the ticket of e.
Unanswered(e) == \E d \in Events : Ticket[d] = Ticket[e] /\ InFlight(d)

\* A delivery arrives and is authenticated, which reads the strategy.
Deliver(r, e) ==
  /\ pc[r] = "idle"
  /\ MaySend(e)
  /\ sends' = [sends EXCEPT ![e] = @ + 1]
  /\ req' = [req EXCEPT ![r] = e]
  /\ snap' = [snap EXCEPT ![r] = active]
  /\ hurried' = (hurried \/ Unanswered(e))
  /\ Goto(r, "nonce")
  /\ UNCHANGED <<active, store, seen, answer, accepted, failures, flips>>

ClaimNonce(r) ==
  /\ pc[r] = "nonce"
  /\ req[r] \notin nonces
  /\ nonces' = nonces \cup {req[r]}
  /\ Goto(r, "find")
  /\ UNCHANGED <<active, trade, stored, jobs, req, snap, seen, sender, failures, flips>>

NonceTaken(r) ==
  /\ pc[r] = "nonce"
  /\ req[r] \in nonces
  /\ Reply(r, "DUPLICATE")
  /\ UNCHANGED <<active, store, failures, flips>>

\* Redis refuses the command: the request is let through without a nonce.
NonceUnavailable(r) ==
  /\ pc[r] = "nonce"
  /\ redisErrors < MaxRedisErrors
  /\ redisErrors' = redisErrors + 1
  /\ Goto(r, "find")
  /\ UNCHANGED <<active, store, req, snap, seen, sender, throws, crashes, flips>>

\* The connection drops after Redis set the key: the client sends the command
\* again and finds its own nonce.
NonceResent(r) ==
  /\ pc[r] = "nonce"
  /\ redisErrors < MaxRedisErrors
  /\ redisErrors' = redisErrors + 1
  /\ nonces' = nonces \cup {req[r]}
  /\ Reply(r, "DUPLICATE")
  /\ UNCHANGED <<active, trade, stored, jobs, throws, crashes, flips>>

FindTrade(r) ==
  /\ pc[r] = "find"
  /\ seen' = [seen EXCEPT ![r] = trade[Ticket[req[r]]]]
  /\ Goto(r, "upsert")
  /\ UNCHANGED <<active, store, req, snap, sender, failures, flips>>

UpsertTrade(r) ==
  /\ pc[r] = "upsert"
  /\ trade' = [trade EXCEPT ![Ticket[req[r]]] =
                 IF @.status = "none" THEN NewTrade(req[r])
                 ELSE UpdatedTrade(req[r], @, seen[r])]
  /\ Goto(r, "create")
  /\ UNCHANGED <<active, nonces, stored, jobs, req, snap, seen, sender, failures, flips>>

\* Mutant: the row is overwritten where the unique index would refuse it.
UpsertEvent(r) ==
  /\ pc[r] = "create"
  /\ stored' = [stored EXCEPT ![req[r]] =
                  [status |-> IF snap[r] THEN "QUEUED" ELSE "PROCESSED",
                   fraction |-> CloseFraction(req[r], seen[r])]]
  /\ IF snap[r]
     THEN Goto(r, "enqueue") /\ UNCHANGED <<req, snap, seen, sender>>
     ELSE Reply(r, "IGNORED")
  /\ UNCHANGED <<active, nonces, trade, jobs, failures, flips>>

\* The event is recorded; under an inactive strategy that is the end of it.
CreateEvent(r) ==
  /\ pc[r] = "create"
  /\ stored[req[r]].status = "none"
  /\ stored' = [stored EXCEPT ![req[r]] =
                  [status |-> IF snap[r] THEN "QUEUED" ELSE "PROCESSED",
                   fraction |-> CloseFraction(req[r], seen[r])]]
  /\ IF snap[r]
     THEN Goto(r, "enqueue") /\ UNCHANGED <<req, snap, seen, sender>>
     ELSE Reply(r, "IGNORED")
  /\ UNCHANGED <<active, nonces, trade, jobs, failures, flips>>

\* The unique index refuses a second row.  Only the path of an active strategy
\* catches it.
EventExists(r) ==
  /\ pc[r] = "create"
  /\ stored[req[r]].status # "none"
  /\ Reply(r, IF snap[r] THEN "DUPLICATE" ELSE "ERROR")
  /\ UNCHANGED <<active, store, failures, flips>>

\* Mutant: the answer is given and the job left out.
ReplyOnly(r) ==
  /\ pc[r] = "enqueue"
  /\ Reply(r, "QUEUED")
  /\ UNCHANGED <<active, store, failures, flips>>

\* The job id is the event id: the queue holds one job per event.
Enqueue(r) ==
  /\ pc[r] = "enqueue"
  /\ jobs' = jobs \cup {req[r]}
  /\ Reply(r, "QUEUED")
  /\ UNCHANGED <<active, nonces, trade, stored, failures, flips>>

\* The queue refuses the job: logged, and thrown on to the sender.
EnqueueFails(r) ==
  /\ pc[r] = "enqueue"
  /\ redisErrors < MaxRedisErrors
  /\ redisErrors' = redisErrors + 1
  /\ Reply(r, "ERROR")
  /\ UNCHANGED <<active, store, throws, crashes, flips>>

\* A database call throws.
StoreThrows(r) ==
  /\ pc[r] \in {"find", "upsert", "create"}
  /\ throws < MaxThrows
  /\ throws' = throws + 1
  /\ Reply(r, "ERROR")
  /\ UNCHANGED <<active, store, redisErrors, crashes, flips>>

\* The web process dies under a request: no answer.
Crash(r) ==
  /\ pc[r] # "idle"
  /\ crashes < MaxCrashes
  /\ crashes' = crashes + 1
  /\ EndRequest(r)
  /\ UNCHANGED <<active, store, sender, redisErrors, throws, flips>>

\* The operator pauses the strategy or makes it active.
SetStatus ==
  /\ flips < MaxFlips
  /\ flips' = flips + 1
  /\ active' = ~active
  /\ UNCHANGED <<store, request, sender, failures>>

Step(r) ==
  \/ ClaimNonce(r) \/ NonceTaken(r) \/ FindTrade(r) \/ UpsertTrade(r)
  \/ CreateEvent(r) \/ EventExists(r) \/ Enqueue(r)

Fails(r) ==
  \/ NonceUnavailable(r) \/ NonceResent(r) \/ EnqueueFails(r) \/ StoreThrows(r) \/ Crash(r)

Next ==
  \/ \E r \in Requests : Step(r) \/ Fails(r) \/ \E e \in Events : Deliver(r, e)
  \/ SetStatus

Spec == Init /\ [][Next]_vars

-----------------------------------------------------------------------------
(* Properties that hold whatever fails.                                    *)

\* An event is accepted once: however often it is delivered, with Redis or
\* without, at most one delivery is answered QUEUED.
AcceptedOnce == \A e \in Events : accepted[e] <= 1

\* The worker is never handed an event it cannot load, nor one recorded under an
\* inactive strategy, which must not reach members.
JobMeansQueued == \A e \in jobs : stored[e].status = "QUEUED"

\* However a delivery is repeated, members get the event from one job, of an event that
\* was recorded for them: the nonce and the unique index of ingestMasterEvent together.
DeliveredOnce == AcceptedOnce /\ JobMeansQueued

\* The record of an event stands: no later delivery turns an ignored event into
\* a queued one or gives it another close fraction.
RecordStands ==
  [][\A e \in Events : stored[e].status # "none" => stored'[e] = stored[e]]_vars

-----------------------------------------------------------------------------
(* The inductive invariant behind the first two.                           *)

\* One request at most is about to enqueue an event, the one that stored it, and
\* the event has not been accepted before.
IngestInvariant ==
  /\ \A q, r \in Requests :
       (pc[q] = "enqueue" /\ pc[r] = "enqueue" /\ req[q] = req[r]) => q = r
  /\ \A r \in Requests :
       pc[r] = "enqueue" => /\ stored[req[r]].status = "QUEUED"
                            /\ accepted[req[r]] = 0
  /\ \A e \in Events : stored[e].status = "none" => accepted[e] = 0
  /\ AcceptedOnce
  /\ JobMeansQueued

-----------------------------------------------------------------------------
(* What the documentation says of a delivery.                              *)

\* "A queue outage must not lose it": an event stored for fan-out has its job,
\* once no request is at work on it.
StoredIsEnqueued ==
  \A e \in Events : (stored[e].status = "QUEUED" /\ ~InFlight(e)) => e \in jobs

\* "A duplicate is a success from the EA's point of view: the event is safely
\* recorded exactly once": a DUPLICATE answer is only given for an event that is
\* stored, or that another request is still storing.
DuplicateMeansStored ==
  \A e \in Events :
    (answer[e] = "DUPLICATE" /\ ~InFlight(e)) => stored[e].status # "none"

\* Both hold unless a dependency fails: the first as long as Redis answers and no
\* process dies, whatever the database does and however deliveries race.
EnqueuedUnlessOutage == (redisErrors = 0 /\ crashes = 0) => StoredIsEnqueued

NoFailure == redisErrors = 0 /\ throws = 0 /\ crashes = 0

\* The second when nothing fails, even if deliveries of one event race.
RecordedUnlessFailure == NoFailure => DuplicateMeansStored

\* Short of a failure no event is lost between the sender, the table and the queue.
NothingLost == EnqueuedUnlessOutage /\ RecordedUnlessFailure

\* A request has stored e and is about to enqueue it; a request has passed the nonce
\* of e and is about to store it.
Enqueuing(e) == \E r \in Requests : pc[r] = "enqueue" /\ req[r] = e
Storing(e) == \E r \in Requests : pc[r] \in {"find", "upsert", "create"} /\ req[r] = e

\* The inductive invariant behind it: the table and the queue, and the nonces and the
\* table, differ only by what requests still hold.
LossInvariant ==
  /\ (redisErrors = 0 /\ crashes = 0) =>
       \A e \in Events : stored[e].status = "QUEUED" => e \in jobs \/ Enqueuing(e)
  /\ NoFailure =>
       /\ \A e \in nonces : stored[e].status # "none" \/ Storing(e)
       /\ \A e \in Events :
            answer[e] = "DUPLICATE" => e \in nonces \/ stored[e].status # "none"

-----------------------------------------------------------------------------
(* Properties of a sender that waits for its answers, when nothing fails.  *)

\* The master has reported the size of the position by event e, as it does when it opens it:
\* a position known only from its partial closes has no size to take a fraction of.
Sized(e) == \E d \in Events : (d = e \/ Before(d, e)) /\ Kind[d] # "PARTIAL_CLOSE"

\* "The fraction is computed at ingest ... while the pre-close volume is still
\* known": the stored fraction of a partial close is the volume it closed of the
\* volume open just before it, whatever happens in between to other positions
\* and to the strategy's status.
FractionOfOpenVolume ==
  (NoFailure /\ ~hurried) =>
    \A e \in Events :
      (stored[e].status # "none" /\ Kind[e] = "PARTIAL_CLOSE" /\ Sized(e))
        => stored[e].fraction = <<Volume[e], Open[e]>>

\* After its last event so far the master's recorded position has the volume the terminal
\* has left, however often the events are delivered again.
RecordedVolume ==
  (NoFailure /\ ~hurried) =>
    \A e \in Events :
      (/\ stored[e].status # "none" /\ Sized(e) /\ Kind[e] \notin Ends
       /\ \A d \in Events : Before(e, d) => sends[d] = 0)
        => trade[Ticket[e]].volume = Left(e)

\* The two volumes storeEvent derives, the fraction followers close and the volume left,
\* are the terminal's.
VolumesAreRight == FractionOfOpenVolume /\ RecordedVolume
=============================================================================
