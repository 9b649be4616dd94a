------------------------- MODULE MasterIngestProofs -------------------------
(* Proofs about MasterIngest for every log of events, every number of       *)
(* requests at once and every bound on deliveries and failures.             *)
EXTENDS MasterIngest, TLAPS

LEMMA TypeInit == Init => TypeOK
<1> SUFFICES ASSUME Init PROVE TypeOK
  OBVIOUS
<1>1. /\ active \in BOOLEAN /\ nonces \subseteq Events /\ jobs \subseteq Events
      /\ trade \in [Tickets -> TradeType] /\ stored \in [Events -> StoredType]
  BY DEF Init, TradeType, TradeStatus, NoTrade, StoredType, EventStatus, NoFraction
<1>2. /\ pc \in [Requests -> PC] /\ req \in [Requests -> Events \cup {NoEvent}]
      /\ \A r \in Requests : pc[r] # "idle" => req[r] \in Events
      /\ snap \in [Requests -> BOOLEAN] /\ seen \in [Requests -> TradeType]
  BY DEF Init, PC, TradeType, TradeStatus, NoTrade
<1>3. /\ sends \in [Events -> Nat] /\ answer \in [Events -> Answers]
      /\ accepted \in [Events -> Nat] /\ hurried \in BOOLEAN
      /\ redisErrors \in Nat /\ throws \in Nat /\ crashes \in Nat /\ flips \in Nat
  BY DEF Init, Answers
<1> QED
  BY <1>1, <1>2, <1>3 DEF TypeOK

\* The end of a request leaves the request's memory well typed.
LEMMA EndType ==
  ASSUME TypeOK, NEW r \in Requests, EndRequest(r)
  PROVE  /\ pc' \in [Requests -> PC]
         /\ req' \in [Requests -> Events \cup {NoEvent}]
         /\ \A q \in Requests : pc'[q] # "idle" => req'[q] \in Events
         /\ snap' \in [Requests -> BOOLEAN]
         /\ seen' \in [Requests -> TradeType]
BY DEF TypeOK, EndRequest, Goto, PC, TradeType, TradeStatus, NoTrade

\* So does an answer, which also leaves what the sender knows well typed.
LEMMA ReplyType ==
  ASSUME TypeOK, NEW r \in Requests, pc[r] # "idle", NEW status \in Answers, Reply(r, status)
  PROVE  /\ pc' \in [Requests -> PC]
         /\ req' \in [Requests -> Events \cup {NoEvent}]
         /\ \A q \in Requests : pc'[q] # "idle" => req'[q] \in Events
         /\ snap' \in [Requests -> BOOLEAN]
         /\ seen' \in [Requests -> TradeType]
         /\ sends' \in [Events -> Nat]
         /\ answer' \in [Events -> Answers]
         /\ accepted' \in [Events -> Nat]
         /\ hurried' = hurried
<1>1. EndRequest(r)
  BY DEF Reply
<1>2. req[r] \in Events
  BY DEF TypeOK
<1>3. answer' \in [Events -> Answers] /\ sends' \in [Events -> Nat]
  BY <1>2 DEF Reply, TypeOK
<1>4. accepted' \in [Events -> Nat]
  <2>1. accepted \in [Events -> Nat] /\ accepted[req[r]] + 1 \in Nat
    BY <1>2 DEF TypeOK
  <2>2. accepted' = [accepted EXCEPT ![req[r]] = accepted[req[r]] + 1] \/ accepted' = accepted
    BY <2>1 DEF Reply
  <2> QED
    BY <2>1, <2>2
<1>5. hurried' = hurried
  BY DEF Reply
<1> QED
  BY <1>1, <1>3, <1>4, <1>5, EndType

\* A request that goes on keeps its event.
LEMMA GotoType ==
  ASSUME TypeOK, NEW r \in Requests, pc[r] # "idle", NEW step \in PC, Goto(r, step), req' = req
  PROVE  /\ pc' \in [Requests -> PC]
         /\ req' \in [Requests -> Events \cup {NoEvent}]
         /\ \A q \in Requests : pc'[q] # "idle" => req'[q] \in Events
BY DEF TypeOK, Goto

\* A close fraction is never more than the whole position, so that the volume
\* left after a partial close is not negative.
LEMMA FractionInRange ==
  ASSUME NEW e \in Events, NEW t \in TradeType
  PROVE  /\ CloseFraction(e, t) \in Nat \X Nat
         /\ CloseFraction(e, t) # NoFraction => CloseFraction(e, t)[1] <= t.volume
         /\ VolumeAfter(e, t) \in Nat
<1>1. Volume[e] \in Nat /\ t.volume \in Nat
  BY LogAssumption DEF TradeType
<1>2. CASE Kind[e] = "PARTIAL_CLOSE" /\ t.volume > 0
  <2>1. CASE Volume[e] < t.volume
    <3>1. CloseFraction(e, t) = <<Volume[e], t.volume>>
      BY <1>2, <2>1 DEF CloseFraction
    <3>2. t.volume - Volume[e] \in Nat
      BY <1>1, <2>1
    <3> QED
      BY <1>1, <2>1, <3>1, <3>2 DEF VolumeAfter
  <2>2. CASE ~(Volume[e] < t.volume)
    <3>1. CloseFraction(e, t) = <<t.volume, t.volume>>
      BY <1>2, <2>2 DEF CloseFraction
    <3>2. t.volume - t.volume \in Nat /\ t.volume <= t.volume
      BY <1>1
    <3> QED
      BY <1>1, <3>1, <3>2 DEF VolumeAfter
  <2> QED
    BY <2>1, <2>2
<1>3. CASE ~(Kind[e] = "PARTIAL_CLOSE" /\ t.volume > 0)
  <2>1. CloseFraction(e, t) = NoFraction
    BY <1>3 DEF CloseFraction
  <2> QED
    BY <1>1, <2>1 DEF VolumeAfter, NoFraction
<1> QED
  BY <1>2, <1>3

LEMMA UpsertType ==
  ASSUME NEW e \in Events, NEW t \in TradeType, NEW read \in TradeType
  PROVE  NewTrade(e) \in TradeType /\ UpdatedTrade(e, t, read) \in TradeType
<1>1. VolumeAfter(e, read) \in Nat /\ Volume[e] \in Nat /\ t.status \in TradeStatus
  BY FractionInRange, LogAssumption DEF TradeType
<1>2. NewTrade(e) \in TradeType
  BY <1>1 DEF NewTrade, TradeType, TradeStatus
<1>3. UpdatedTrade(e, t, read).status \in TradeStatus
  BY <1>1 DEF UpdatedTrade, TradeStatus
<1>4. UpdatedTrade(e, t, read) =
        [status |-> UpdatedTrade(e, t, read).status, volume |-> VolumeAfter(e, read)]
  BY DEF UpdatedTrade
<1> QED
  BY <1>1, <1>2, <1>3, <1>4 DEF TradeType

LEMMA TypeNext == TypeOK /\ [Next]_vars => TypeOK'
<1> SUFFICES ASSUME TypeOK, Next PROVE TypeOK'
  BY DEF TypeOK, vars, store, request, sender, failures
<1> USE DEF store, request, sender, failures
<1>1. ASSUME NEW r \in Requests, Step(r) PROVE TypeOK'
  <2>1. CASE ClaimNonce(r)
    <3>1. req[r] \in Events /\ "find" \in PC
      BY <2>1 DEF ClaimNonce, TypeOK, PC
    <3> QED
      BY <2>1, <3>1, GotoType DEF ClaimNonce, TypeOK
  <2>2. CASE NonceTaken(r)
    <3>1. "DUPLICATE" \in Answers
      BY DEF Answers
    <3> QED
      BY <2>2, <3>1, ReplyType DEF NonceTaken, TypeOK
  <2>3. CASE FindTrade(r)
    <3>1. req[r] \in Events /\ "upsert" \in PC
      BY <2>3 DEF FindTrade, TypeOK, PC
    <3>2. trade[Ticket[req[r]]] \in TradeType
      BY <3>1, LogAssumption DEF TypeOK
    <3> QED
      BY <2>3, <3>1, <3>2, GotoType DEF FindTrade, TypeOK
  <2>4. CASE UpsertTrade(r)
    <3>1. req[r] \in Events /\ "create" \in PC
      BY <2>4 DEF UpsertTrade, TypeOK, PC
    <3>2. Ticket[req[r]] \in Tickets /\ trade[Ticket[req[r]]] \in TradeType /\ seen[r] \in TradeType
      BY <3>1, LogAssumption DEF TypeOK
    <3>3. \E t \in TradeType : trade' = [trade EXCEPT ![Ticket[req[r]]] = t]
      <4>1. CASE trade[Ticket[req[r]]].status = "none"
        <5>1. trade' = [trade EXCEPT ![Ticket[req[r]]] = NewTrade(req[r])]
          BY <2>4, <4>1, <3>2 DEF UpsertTrade, TypeOK
        <5> QED
          BY <5>1, <3>1, <3>2, UpsertType
      <4>2. CASE trade[Ticket[req[r]]].status # "none"
        <5>1. trade' = [trade EXCEPT ![Ticket[req[r]]] =
                          UpdatedTrade(req[r], trade[Ticket[req[r]]], seen[r])]
          BY <2>4, <4>2, <3>2 DEF UpsertTrade, TypeOK
        <5> QED
          BY <5>1, <3>1, <3>2, UpsertType
      <4> QED
        BY <4>1, <4>2
    <3>4. trade' \in [Tickets -> TradeType]
      BY <3>3 DEF TypeOK
    <3> QED
      BY <2>4, <3>1, <3>4, GotoType DEF UpsertTrade, TypeOK
  <2>5. CASE CreateEvent(r)
    <3>1. req[r] \in Events /\ seen[r] \in TradeType /\ pc[r] # "idle"
      BY <2>5 DEF CreateEvent, TypeOK
    <3>2. stored' \in [Events -> StoredType]
      <4>1. \A st \in EventStatus :
              [status |-> st, fraction |-> CloseFraction(req[r], seen[r])] \in StoredType
        BY <3>1, FractionInRange DEF StoredType
      <4>2. \E st \in EventStatus :
              stored' = [stored EXCEPT ![req[r]] =
                           [status |-> st, fraction |-> CloseFraction(req[r], seen[r])]]
        BY <2>5 DEF CreateEvent, EventStatus
      <4> QED
        BY <4>1, <4>2 DEF TypeOK
    <3>3. CASE snap[r]
      <4>1. "enqueue" \in PC
        BY DEF PC
      <4> QED
        BY <2>5, <3>1, <3>2, <3>3, <4>1, GotoType DEF CreateEvent, TypeOK
    <3>4. CASE ~snap[r]
      <4>1. "IGNORED" \in Answers
        BY DEF Answers
      <4> QED
        BY <2>5, <3>1, <3>2, <3>4, <4>1, ReplyType DEF CreateEvent, TypeOK
    <3> QED
      BY <3>3, <3>4
  <2>6. CASE EventExists(r)
    <3>1. (IF snap[r] THEN "DUPLICATE" ELSE "ERROR") \in Answers
      BY DEF Answers
    <3> QED
      BY <2>6, <3>1, ReplyType DEF EventExists, TypeOK
  <2>7. CASE Enqueue(r)
    <3>1. "QUEUED" \in Answers /\ req[r] \in Events
      BY <2>7 DEF Answers, Enqueue, TypeOK
    <3> QED
      BY <2>7, <3>1, ReplyType DEF Enqueue, TypeOK
  <2> QED
    BY <1>1, <2>1, <2>2, <2>3, <2>4, <2>5, <2>6, <2>7 DEF Step
<1>2. ASSUME NEW r \in Requests, Fails(r) PROVE TypeOK'
  <2>1. CASE NonceUnavailable(r)
    <3>1. "find" \in PC
      BY DEF PC
    <3> QED
      BY <2>1, <3>1, GotoType DEF NonceUnavailable, TypeOK
  <2>2. CASE NonceResent(r)
    <3>1. "DUPLICATE" \in Answers /\ req[r] \in Events
      BY <2>2 DEF Answers, NonceResent, TypeOK
    <3> QED
      BY <2>2, <3>1, ReplyType DEF NonceResent, TypeOK
  <2>3. CASE EnqueueFails(r)
    <3>1. "ERROR" \in Answers
      BY DEF Answers
    <3> QED
      BY <2>3, <3>1, ReplyType DEF EnqueueFails, TypeOK
  <2>4. CASE StoreThrows(r)
    <3>1. "ERROR" \in Answers /\ pc[r] # "idle"
      BY <2>4 DEF Answers, StoreThrows
    <3> QED
      BY <2>4, <3>1, ReplyType DEF StoreThrows, TypeOK
  <2>5. CASE Crash(r)
    BY <2>5, EndType DEF Crash, TypeOK
  <2> QED
    BY <1>2, <2>1, <2>2, <2>3, <2>4, <2>5 DEF Fails
<1>3. ASSUME NEW r \in Requests, NEW e \in Events, Deliver(r, e) PROVE TypeOK'
  <2>1. pc' \in [Requests -> PC]
    BY <1>3 DEF Deliver, Goto, TypeOK, PC
  <2>2. req' \in [Requests -> Events \cup {NoEvent}] /\ req'[r] = e
    BY <1>3 DEF Deliver, TypeOK
  <2>3. \A q \in Requests : pc'[q] # "idle" => req'[q] \in Events
    BY <1>3 DEF Deliver, Goto, TypeOK
  <2>4. /\ snap' \in [Requests -> BOOLEAN] /\ sends' \in [Events -> Nat]
        /\ hurried' \in BOOLEAN
    BY <1>3 DEF Deliver, TypeOK
  <2> QED
    BY <1>3, <2>1, <2>2, <2>3, <2>4 DEF Deliver, TypeOK
<1>4. CASE SetStatus
  BY <1>4 DEF SetStatus, TypeOK
<1> QED
  BY <1>1, <1>2, <1>3, <1>4 DEF Next

\* Every reachable state of the ingest path is well typed; in particular no
\* recorded volume ever goes below zero, whatever order events are stored in.
THEOREM IngestTypeCorrect == Spec => []TypeOK
<1> QED
  BY TypeInit, TypeNext, PTL DEF Spec

-----------------------------------------------------------------------------
(* The record of an event is written once.  The request that wrote it is the *)
(* one that enqueues and accepts the event.                                  *)

LEMMA InvariantInit == Init => IngestInvariant
BY DEF Init, IngestInvariant, AcceptedOnce, JobMeansQueued

\* An answer other than QUEUED, and any other end of a request, keeps the
\* invariant when nothing is stored or enqueued.
LEMMA EndKeeps ==
  ASSUME TypeOK, IngestInvariant, NEW r \in Requests, EndRequest(r),
         accepted' = accepted, stored' = stored, jobs' = jobs
  PROVE  IngestInvariant'
BY DEF TypeOK, IngestInvariant, AcceptedOnce, JobMeansQueued, EndRequest, Goto

LEMMA AnswerKeeps ==
  ASSUME TypeOK, IngestInvariant, NEW r \in Requests, pc[r] # "idle",
         NEW status \in Answers \ {"QUEUED"}, Reply(r, status), stored' = stored, jobs' = jobs
  PROVE  IngestInvariant'
<1>1. req[r] \in Events /\ accepted \in [Events -> Nat]
  BY DEF TypeOK
<1>2. accepted' = accepted
  BY <1>1 DEF Reply
<1> QED
  BY <1>2, EndKeeps DEF Reply

\* A request that goes on to a step before the enqueue keeps it too.
LEMMA GotoKeeps ==
  ASSUME TypeOK, IngestInvariant, NEW r \in Requests,
         NEW step \in PC \ {"enqueue"}, Goto(r, step), req' = req,
         accepted' = accepted, stored' = stored, jobs' = jobs
  PROVE  IngestInvariant'
BY DEF TypeOK, IngestInvariant, AcceptedOnce, JobMeansQueued, Goto

LEMMA InvariantNext == TypeOK /\ IngestInvariant /\ [Next]_vars => IngestInvariant'
<1> SUFFICES ASSUME TypeOK, IngestInvariant, Next PROVE IngestInvariant'
  BY DEF IngestInvariant, AcceptedOnce, JobMeansQueued, vars, store, request, sender
<1> USE DEF store, request, sender, failures
<1>1. ASSUME NEW r \in Requests, Step(r) PROVE IngestInvariant'
  <2>1. CASE ClaimNonce(r)
    BY <2>1, GotoKeeps DEF ClaimNonce, PC
  <2>2. CASE NonceTaken(r)
    BY <2>2, AnswerKeeps DEF NonceTaken, Answers
  <2>3. CASE FindTrade(r)
    BY <2>3, GotoKeeps DEF FindTrade, PC
  <2>4. CASE UpsertTrade(r)
    BY <2>4, GotoKeeps DEF UpsertTrade, PC
  <2>5. CASE CreateEvent(r)
    <3>1. /\ req[r] \in Events /\ stored[req[r]].status = "none"
          /\ accepted[req[r]] = 0 /\ req[r] \notin jobs
      BY <2>5 DEF CreateEvent, TypeOK, IngestInvariant, JobMeansQueued
    <3>2. \A q \in Requests : pc[q] = "enqueue" => req[q] # req[r]
      BY <3>1 DEF IngestInvariant
    <3>3. \A e \in Events \ {req[r]} : stored'[e] = stored[e]
      BY <2>5 DEF CreateEvent, TypeOK
    <3>4. CASE snap[r]
      <4>1. /\ pc' = [pc EXCEPT ![r] = "enqueue"]
            /\ req' = req /\ accepted' = accepted /\ jobs' = jobs
        BY <2>5, <3>4 DEF CreateEvent, Goto
      <4>2. stored'[req[r]].status = "QUEUED"
        BY <2>5, <3>1, <3>4 DEF CreateEvent, TypeOK
      <4>3. \A q \in Requests : pc'[q] = "enqueue" => q = r \/ pc[q] = "enqueue"
        BY <4>1 DEF TypeOK
      <4>4. \A p, q \in Requests :
              (pc'[p] = "enqueue" /\ pc'[q] = "enqueue" /\ req'[p] = req'[q]) => p = q
        BY <3>2, <4>1, <4>3 DEF IngestInvariant
      <4>5. \A q \in Requests :
              pc'[q] = "enqueue" => /\ stored'[req'[q]].status = "QUEUED"
                                    /\ accepted'[req'[q]] = 0
        <5> TAKE q \in Requests
        <5> HAVE pc'[q] = "enqueue"
        <5>1. CASE q = r
          BY <3>1, <4>1, <4>2, <5>1
        <5>2. CASE q # r
          <6>1. pc[q] = "enqueue" /\ req[q] # req[r] /\ req[q] \in Events
            BY <3>2, <4>3, <5>2 DEF TypeOK
          <6> QED
            BY <3>3, <4>1, <6>1 DEF IngestInvariant
        <5> QED
          BY <5>1, <5>2
      <4>6. \A e \in Events : stored'[e].status = "none" => accepted'[e] = 0
        BY <3>3, <4>1, <4>2 DEF IngestInvariant
      <4>7. AcceptedOnce' /\ JobMeansQueued'
        BY <3>1, <3>3, <4>1, <4>2 DEF IngestInvariant, AcceptedOnce, JobMeansQueued, TypeOK
      <4> QED
        BY <4>4, <4>5, <4>6, <4>7 DEF IngestInvariant
    <3>5. CASE ~snap[r]
      <4>1. EndRequest(r) /\ jobs' = jobs
        BY <2>5, <3>5 DEF CreateEvent, Reply
      <4>2. accepted' = accepted
        BY <2>5, <3>1, <3>5 DEF CreateEvent, Reply, TypeOK
      <4>3. \A q \in Requests :
              pc'[q] = "enqueue" => pc[q] = "enqueue" /\ req'[q] = req[q] /\ q # r
        BY <4>1 DEF EndRequest, Goto, TypeOK
      <4>4. \A q \in Requests : pc[q] = "enqueue" => stored'[req[q]] = stored[req[q]]
        BY <3>2, <3>3 DEF TypeOK
      <4>5. \A p, q \in Requests :
              (pc'[p] = "enqueue" /\ pc'[q] = "enqueue" /\ req'[p] = req'[q]) => p = q
        BY <4>3 DEF IngestInvariant
      <4>6. \A q \in Requests :
              pc'[q] = "enqueue" => /\ stored'[req'[q]].status = "QUEUED"
                                    /\ accepted'[req'[q]] = 0
        BY <4>2, <4>3, <4>4 DEF IngestInvariant
      <4>7. \A e \in Events : stored'[e].status = "none" => accepted'[e] = 0
        BY <3>1, <3>3, <4>2 DEF IngestInvariant
      <4>8. AcceptedOnce' /\ JobMeansQueued'
        BY <3>1, <3>3, <4>1, <4>2 DEF IngestInvariant, AcceptedOnce, JobMeansQueued, TypeOK
      <4> QED
        BY <4>5, <4>6, <4>7, <4>8 DEF IngestInvariant
    <3> QED
      BY <3>4, <3>5
  <2>6. CASE EventExists(r)
    <3>1. (IF snap[r] THEN "DUPLICATE" ELSE "ERROR") \in Answers \ {"QUEUED"}
      BY DEF Answers
    <3> QED
      BY <2>6, <3>1, AnswerKeeps DEF EventExists
  <2>7. CASE Enqueue(r)
    <3>1. /\ req[r] \in Events /\ stored[req[r]].status = "QUEUED"
          /\ accepted[req[r]] = 0 /\ pc[r] = "enqueue"
      BY <2>7 DEF Enqueue, TypeOK, IngestInvariant
    <3>2. /\ EndRequest(r) /\ stored' = stored /\ jobs' = jobs \cup {req[r]}
          /\ accepted' = [accepted EXCEPT ![req[r]] = 1]
      BY <2>7, <3>1 DEF Enqueue, Reply, TypeOK
    <3>3. \A q \in Requests :
            pc'[q] = "enqueue" => /\ pc[q] = "enqueue" /\ req'[q] = req[q] /\ q # r
                                  /\ req[q] # req[r] /\ req[q] \in Events
      BY <3>1, <3>2 DEF EndRequest, Goto, TypeOK, IngestInvariant
    <3>4. \A p, q \in Requests :
            (pc'[p] = "enqueue" /\ pc'[q] = "enqueue" /\ req'[p] = req'[q]) => p = q
      BY <3>3 DEF IngestInvariant
    <3>5. \A q \in Requests :
            pc'[q] = "enqueue" => /\ stored'[req'[q]].status = "QUEUED"
                                  /\ accepted'[req'[q]] = 0
      BY <3>2, <3>3 DEF IngestInvariant, TypeOK
    <3>6. \A e \in Events : stored'[e].status = "none" => accepted'[e] = 0
      BY <3>1, <3>2 DEF IngestInvariant, TypeOK
    <3>7. AcceptedOnce' /\ JobMeansQueued'
      BY <3>1, <3>2 DEF IngestInvariant, AcceptedOnce, JobMeansQueued, TypeOK
    <3> QED
      BY <3>4, <3>5, <3>6, <3>7 DEF IngestInvariant
  <2> QED
    BY <1>1, <2>1, <2>2, <2>3, <2>4, <2>5, <2>6, <2>7 DEF Step
<1>2. ASSUME NEW r \in Requests, Fails(r) PROVE IngestInvariant'
  <2>1. CASE NonceUnavailable(r)
    BY <2>1, GotoKeeps DEF NonceUnavailable, PC
  <2>2. CASE NonceResent(r)
    BY <2>2, AnswerKeeps DEF NonceResent, Answers
  <2>3. CASE EnqueueFails(r)
    BY <2>3, AnswerKeeps DEF EnqueueFails, Answers
  <2>4. CASE StoreThrows(r)
    <3>1. pc[r] # "idle"
      BY <2>4 DEF StoreThrows
    <3> QED
      BY <2>4, <3>1, AnswerKeeps DEF StoreThrows, Answers
  <2>5. CASE Crash(r)
    BY <2>5, EndKeeps DEF Crash
  <2> QED
    BY <1>2, <2>1, <2>2, <2>3, <2>4, <2>5 DEF Fails
<1>3. ASSUME NEW r \in Requests, NEW e \in Events, Deliver(r, e) PROVE IngestInvariant'
  <2>1. \A q \in Requests : pc'[q] = "enqueue" => pc[q] = "enqueue" /\ req'[q] = req[q]
    BY <1>3 DEF Deliver, Goto, TypeOK
  <2>2. stored' = stored /\ jobs' = jobs /\ accepted' = accepted
    BY <1>3 DEF Deliver
  <2> QED
    BY <2>1, <2>2 DEF IngestInvariant, AcceptedOnce, JobMeansQueued
<1>4. CASE SetStatus
  BY <1>4 DEF SetStatus, IngestInvariant, AcceptedOnce, JobMeansQueued
<1> QED
  BY <1>1, <1>2, <1>3, <1>4 DEF Next

THEOREM IngestInvariantHolds == Spec => []IngestInvariant
<1>1. Spec => []TypeOK
  BY IngestTypeCorrect
<1> QED
  BY <1>1, InvariantInit, InvariantNext, PTL DEF Spec

\* At most one delivery of an event is answered QUEUED.
THEOREM AcceptedAtMostOnce == Spec => []AcceptedOnce
<1>1. IngestInvariant => AcceptedOnce
  BY DEF IngestInvariant
<1> QED
  BY <1>1, IngestInvariantHolds, PTL

\* The worker is only handed events stored for fan-out.
THEOREM JobsAreQueued == Spec => []JobMeansQueued
<1>1. IngestInvariant => JobMeansQueued
  BY DEF IngestInvariant
<1> QED
  BY <1>1, IngestInvariantHolds, PTL

\* However a delivery is repeated, members get the event from one job, of an event that
\* was recorded for them.
THEOREM DeliveredAtMostOnce == Spec => []DeliveredOnce
BY AcceptedAtMostOnce, JobsAreQueued, PTL DEF DeliveredOnce

-----------------------------------------------------------------------------

LEMMA RecordNext ==
  ASSUME TypeOK, [Next]_vars, NEW e \in Events, stored[e].status # "none"
  PROVE  stored'[e] = stored[e]
<1> USE DEF store
<1>1. ASSUME NEW r \in Requests, CreateEvent(r) PROVE stored'[e] = stored[e]
  <2>1. req[r] # e
    BY <1>1 DEF CreateEvent
  <2> QED
    BY <1>1, <2>1 DEF CreateEvent, TypeOK
<1>2. ASSUME NEW r \in Requests, Step(r), ~CreateEvent(r) PROVE stored' = stored
  BY <1>2 DEF Step, ClaimNonce, NonceTaken, FindTrade, UpsertTrade, EventExists, Enqueue
<1>3. ASSUME NEW r \in Requests, Fails(r) PROVE stored' = stored
  BY <1>3 DEF Fails, NonceUnavailable, NonceResent, EnqueueFails, StoreThrows, Crash
<1>4. ASSUME NEW r \in Requests, NEW d \in Events, Deliver(r, d) PROVE stored' = stored
  BY <1>4 DEF Deliver
<1>5. CASE SetStatus
  BY <1>5 DEF SetStatus
<1>6. CASE UNCHANGED vars
  BY <1>6 DEF vars
<1> QED
  BY <1>1, <1>2, <1>3, <1>4, <1>5, <1>6 DEF Next

\* No later delivery changes what was recorded of an event.
THEOREM RecordIsFinal == Spec => RecordStands
<1>1. TypeOK /\ [Next]_vars
        => [\A e \in Events : stored[e].status # "none" => stored'[e] = stored[e]]_vars
  BY RecordNext
<1> QED
  BY <1>1, IngestTypeCorrect, PTL DEF Spec, RecordStands

-----------------------------------------------------------------------------
(* Short of a failure nothing is lost: what the table says and the queue or  *)
(* the nonces do not is still in the hands of a request.                     *)

\* The two halves of LossInvariant, named.
TableAndQueue ==
  \A e \in Events : stored[e].status = "QUEUED" => e \in jobs \/ Enqueuing(e)
NoncesAndTable ==
  /\ \A e \in nonces : stored[e].status # "none" \/ Storing(e)
  /\ \A e \in Events : answer[e] = "DUPLICATE" => e \in nonces \/ stored[e].status # "none"

LEMMA LossInit == Init => LossInvariant
BY DEF Init, LossInvariant

\* A step of one request leaves what the others hold.
LEMMA OthersHold ==
  ASSUME NEW r \in Requests, \A q \in Requests \ {r} : pc'[q] = pc[q] /\ req'[q] = req[q],
         NEW e
  PROVE  /\ Enqueuing(e) => Enqueuing(e)' \/ (pc[r] = "enqueue" /\ req[r] = e)
         /\ Storing(e) => Storing(e)' \/ (pc[r] \in {"find", "upsert", "create"} /\ req[r] = e)
BY DEF Enqueuing, Storing

\* The end of a request, and its going on, leave the other requests.
LEMMA EndFrame ==
  ASSUME TypeOK, NEW r \in Requests, EndRequest(r)
  PROVE  \A q \in Requests \ {r} : pc'[q] = pc[q] /\ req'[q] = req[q]
BY DEF TypeOK, EndRequest, Goto

LEMMA GotoFrame ==
  ASSUME TypeOK, NEW r \in Requests, NEW step, Goto(r, step), req' = req
  PROVE  /\ \A q \in Requests \ {r} : pc'[q] = pc[q] /\ req'[q] = req[q]
         /\ pc'[r] = step /\ req'[r] = req[r]
BY DEF TypeOK, Goto

\* A request that answers without having stored anything keeps both halves, if the event
\* is stored or claimed where it says DUPLICATE and it was not about to enqueue.
LEMMA AnswerLoses ==
  ASSUME TypeOK, NEW r \in Requests, pc[r] # "idle", pc[r] # "enqueue",
         NEW status, Reply(r, status), UNCHANGED <<stored, jobs, nonces>>
  PROVE  /\ TableAndQueue => TableAndQueue'
         /\ (/\ NoncesAndTable
             /\ pc[r] = "nonce" \/ stored[req[r]].status # "none"
             /\ status = "DUPLICATE" => req[r] \in nonces \/ stored[req[r]].status # "none")
            => NoncesAndTable'
<1>1. /\ \A q \in Requests \ {r} : pc'[q] = pc[q] /\ req'[q] = req[q]
      /\ req[r] \in Events
  BY EndFrame DEF Reply, TypeOK
<1>2. \A e : Enqueuing(e) => Enqueuing(e)'
  BY <1>1, OthersHold
<1>3. \A e : Storing(e) => Storing(e)' \/ (pc[r] # "nonce" /\ req[r] = e)
  BY <1>1, OthersHold
<1>4. \A e \in Events : answer'[e] = IF e = req[r] THEN status ELSE answer[e]
  BY <1>1 DEF Reply, TypeOK
<1>5. TableAndQueue => TableAndQueue'
  BY <1>2 DEF TableAndQueue
<1>6. ASSUME NoncesAndTable, pc[r] = "nonce" \/ stored[req[r]].status # "none",
             status = "DUPLICATE" => req[r] \in nonces \/ stored[req[r]].status # "none"
      PROVE  NoncesAndTable'
  <2>1. \A e \in nonces' : stored'[e].status # "none" \/ Storing(e)'
    BY <1>3, <1>6 DEF NoncesAndTable
  <2>2. \A e \in Events :
          answer'[e] = "DUPLICATE" => e \in nonces' \/ stored'[e].status # "none"
    BY <1>4, <1>6 DEF NoncesAndTable
  <2> QED
    BY <2>1, <2>2 DEF NoncesAndTable
<1> QED
  BY <1>5, <1>6

\* A request on its way from the nonce to the table keeps both halves.
LEMMA GoingOnLoses ==
  ASSUME TypeOK, NEW r \in Requests, pc[r] # "idle", pc[r] # "enqueue",
         NEW step \in {"find", "upsert", "create"}, Goto(r, step), req' = req,
         UNCHANGED <<stored, jobs, answer>>,
         nonces' = nonces \/ nonces' = nonces \cup {req[r]}
  PROVE  /\ TableAndQueue => TableAndQueue'
         /\ NoncesAndTable => NoncesAndTable'
<1>1. /\ \A q \in Requests \ {r} : pc'[q] = pc[q] /\ req'[q] = req[q]
      /\ pc'[r] = step /\ req'[r] = req[r]
  BY GotoFrame
<1>2. \A e : Enqueuing(e) => Enqueuing(e)'
  BY <1>1, OthersHold
<1>3. \A e : Storing(e) \/ e = req[r] => Storing(e)'
  <2>1. Storing(req[r])'
    BY <1>1 DEF Storing
  <2> QED
    BY <1>1, <2>1, OthersHold
<1>4. TableAndQueue => TableAndQueue'
  BY <1>2 DEF TableAndQueue
<1>5. NoncesAndTable => NoncesAndTable'
  BY <1>3 DEF NoncesAndTable
<1> QED
  BY <1>4, <1>5

LEMMA TableAndQueueNext ==
  ASSUME TypeOK, Next, TableAndQueue, redisErrors' = 0, crashes' = 0
  PROVE  TableAndQueue'
<1> USE DEF store, request, sender, failures
<1>1. ASSUME NEW r \in Requests, Step(r) PROVE TableAndQueue'
  <2>1. CASE ClaimNonce(r)
    BY <2>1, GoingOnLoses DEF ClaimNonce
  <2>2. CASE NonceTaken(r)
    BY <2>2, AnswerLoses DEF NonceTaken
  <2>3. CASE FindTrade(r)
    BY <2>3, GoingOnLoses DEF FindTrade
  <2>4. CASE UpsertTrade(r)
    BY <2>4, GoingOnLoses DEF UpsertTrade
  <2>5. CASE CreateEvent(r)
    <3>1. req[r] \in Events /\ jobs' = jobs
      BY <2>5 DEF CreateEvent, TypeOK
    <3>2. \A q \in Requests \ {r} : pc'[q] = pc[q] /\ req'[q] = req[q]
      BY <2>5, EndFrame, GotoFrame DEF CreateEvent, Reply
    <3>3. \A e : Enqueuing(e) => Enqueuing(e)'
      BY <2>5, <3>2, OthersHold DEF CreateEvent
    <3>4. ASSUME NEW e \in Events, e = req[r], stored'[e].status = "QUEUED"
          PROVE  Enqueuing(e)'
      <4>1. CASE snap[r]
        BY <2>5, <3>4, <4>1, GotoFrame DEF CreateEvent, Enqueuing
      <4>2. CASE ~snap[r]
        BY <2>5, <3>1, <3>4, <4>2 DEF CreateEvent, TypeOK
      <4> QED
        BY <4>1, <4>2
    <3>5. \A e \in Events : e # req[r] => stored'[e] = stored[e]
      BY <2>5 DEF CreateEvent, TypeOK
    <3>6. ASSUME NEW e \in Events, stored'[e].status = "QUEUED"
          PROVE  e \in jobs \/ Enqueuing(e)'
      <4>1. CASE e = req[r]
        BY <3>4, <3>6, <4>1
      <4>2. CASE e # req[r]
        <5>1. stored[e].status = "QUEUED"
          BY <3>5, <3>6, <4>2
        <5> QED
          BY <3>3, <5>1 DEF TableAndQueue
      <4> QED
        BY <4>1, <4>2
    <3> QED
      BY <3>1, <3>6 DEF TableAndQueue
  <2>6. CASE EventExists(r)
    BY <2>6, AnswerLoses DEF EventExists
  <2>7. CASE Enqueue(r)
    <3>1. \A q \in Requests \ {r} : pc'[q] = pc[q] /\ req'[q] = req[q]
      BY <2>7, EndFrame DEF Enqueue, Reply
    <3>2. \A e : Enqueuing(e) => Enqueuing(e)' \/ e \in jobs'
      BY <2>7, <3>1, OthersHold DEF Enqueue
    <3> QED
      BY <2>7, <3>2 DEF Enqueue, TableAndQueue
  <2> QED
    BY <1>1, <2>1, <2>2, <2>3, <2>4, <2>5, <2>6, <2>7 DEF Step
<1>2. ASSUME NEW r \in Requests, Fails(r) PROVE TableAndQueue'
  <2>1. ~NonceUnavailable(r) /\ ~NonceResent(r) /\ ~EnqueueFails(r)
    BY DEF NonceUnavailable, NonceResent, EnqueueFails, TypeOK
  <2>2. ~Crash(r)
    BY DEF Crash, TypeOK
  <2>3. StoreThrows(r)
    BY <1>2, <2>1, <2>2 DEF Fails
  <2> QED
    BY <2>3, AnswerLoses DEF StoreThrows
<1>3. ASSUME NEW r \in Requests, NEW e \in Events, Deliver(r, e) PROVE TableAndQueue'
  <2>1. \A q \in Requests \ {r} : pc'[q] = pc[q] /\ req'[q] = req[q]
    BY <1>3 DEF Deliver, Goto, TypeOK
  <2>2. \A d : Enqueuing(d) => Enqueuing(d)'
    BY <1>3, <2>1, OthersHold DEF Deliver
  <2> QED
    BY <1>3, <2>2 DEF Deliver, TableAndQueue
<1>4. CASE SetStatus
  BY <1>4 DEF SetStatus, TableAndQueue, Enqueuing
<1> QED
  BY <1>1, <1>2, <1>3, <1>4 DEF Next

LEMMA NoncesAndTableNext ==
  ASSUME TypeOK, Next, NoncesAndTable, NoFailure'
  PROVE  NoncesAndTable'
<1> USE DEF store, request, sender, failures
<1>1. ASSUME NEW r \in Requests, Step(r) PROVE NoncesAndTable'
  <2>1. CASE ClaimNonce(r)
    BY <2>1, GoingOnLoses DEF ClaimNonce
  <2>2. CASE NonceTaken(r)
    BY <2>2, AnswerLoses DEF NonceTaken
  <2>3. CASE FindTrade(r)
    BY <2>3, GoingOnLoses DEF FindTrade
  <2>4. CASE UpsertTrade(r)
    BY <2>4, GoingOnLoses DEF UpsertTrade
  <2>5. CASE CreateEvent(r)
    <3>1. req[r] \in Events /\ nonces' = nonces /\ pc[r] = "create"
      BY <2>5 DEF CreateEvent, TypeOK
    <3>2. \A q \in Requests \ {r} : pc'[q] = pc[q] /\ req'[q] = req[q]
      BY <2>5, EndFrame, GotoFrame DEF CreateEvent, Reply
    <3>3. \A e : Storing(e) => Storing(e)' \/ e = req[r]
      BY <3>2, OthersHold
    <3>4. stored'[req[r]].status # "none"
      BY <2>5, <3>1 DEF CreateEvent, TypeOK
    <3>5. \A e \in Events : e # req[r] => stored'[e] = stored[e]
      BY <2>5 DEF CreateEvent, TypeOK
    <3>6. \A e \in Events : answer'[e] = "DUPLICATE" => answer[e] = "DUPLICATE"
      BY <2>5, <3>1 DEF CreateEvent, Reply, TypeOK
    <3>7. nonces \subseteq Events
      BY DEF TypeOK
    <3> QED
      BY <3>1, <3>3, <3>4, <3>5, <3>6, <3>7 DEF NoncesAndTable
  <2>6. CASE EventExists(r)
    BY <2>6, AnswerLoses DEF EventExists
  <2>7. CASE Enqueue(r)
    <3>1. req[r] \in Events /\ nonces' = nonces /\ stored' = stored /\ pc[r] = "enqueue"
      BY <2>7 DEF Enqueue, TypeOK
    <3>2. \A q \in Requests \ {r} : pc'[q] = pc[q] /\ req'[q] = req[q]
      BY <2>7, EndFrame DEF Enqueue, Reply
    <3>3. \A e : Storing(e) => Storing(e)'
      BY <3>1, <3>2, OthersHold
    <3>4. \A e \in Events : answer'[e] = "DUPLICATE" => answer[e] = "DUPLICATE"
      BY <2>7, <3>1 DEF Enqueue, Reply, TypeOK
    <3> QED
      BY <3>1, <3>3, <3>4 DEF NoncesAndTable
  <2> QED
    BY <1>1, <2>1, <2>2, <2>3, <2>4, <2>5, <2>6, <2>7 DEF Step
<1>2. ASSUME NEW r \in Requests, Fails(r) PROVE NoncesAndTable'
  <2>1. redisErrors' # 0 \/ throws' # 0 \/ crashes' # 0
    BY <1>2 DEF Fails, NonceUnavailable, NonceResent, EnqueueFails, StoreThrows, Crash, TypeOK
  <2> QED
    BY <2>1 DEF NoFailure
<1>3. ASSUME NEW r \in Requests, NEW e \in Events, Deliver(r, e) PROVE NoncesAndTable'
  <2>1. \A q \in Requests \ {r} : pc'[q] = pc[q] /\ req'[q] = req[q]
    BY <1>3 DEF Deliver, Goto, TypeOK
  <2>2. \A d : Storing(d) => Storing(d)'
    BY <1>3, <2>1, OthersHold DEF Deliver
  <2> QED
    BY <1>3, <2>2 DEF Deliver, NoncesAndTable
<1>4. CASE SetStatus
  BY <1>4 DEF SetStatus, NoncesAndTable, Storing
<1> QED
  BY <1>1, <1>2, <1>3, <1>4 DEF Next

\* A failure is counted for good.
LEMMA FailuresStay ==
  ASSUME TypeOK, [Next]_vars
  PROVE  /\ redisErrors' = 0 => redisErrors = 0
         /\ throws' = 0 => throws = 0
         /\ crashes' = 0 => crashes = 0
<1> USE DEF failures
<1>1. ASSUME NEW r \in Requests, Step(r) PROVE UNCHANGED failures
  BY <1>1 DEF Step, ClaimNonce, NonceTaken, FindTrade, UpsertTrade, CreateEvent, EventExists, Enqueue
<1>2. ASSUME NEW r \in Requests, Fails(r)
      PROVE  redisErrors' >= redisErrors /\ throws' >= throws /\ crashes' >= crashes
  BY <1>2 DEF Fails, NonceUnavailable, NonceResent, EnqueueFails, StoreThrows, Crash, TypeOK
<1>3. ASSUME NEW r \in Requests, NEW e \in Events, Deliver(r, e) PROVE UNCHANGED failures
  BY <1>3 DEF Deliver
<1>4. CASE SetStatus
  BY <1>4 DEF SetStatus
<1>5. CASE UNCHANGED vars
  BY <1>5 DEF vars
<1>6. /\ redisErrors \in Nat /\ throws \in Nat /\ crashes \in Nat
  BY DEF TypeOK
<1> QED
  BY <1>1, <1>2, <1>3, <1>4, <1>5, <1>6 DEF Next

LEMMA LossNext == TypeOK /\ LossInvariant /\ [Next]_vars => LossInvariant'
<1> SUFFICES ASSUME TypeOK, LossInvariant, [Next]_vars PROVE LossInvariant'
  OBVIOUS
<1>1. CASE UNCHANGED vars
  BY <1>1 DEF LossInvariant, Enqueuing, Storing, NoFailure, vars, store, request, sender, failures
<1>2. CASE Next
  <2>1. (redisErrors = 0 /\ crashes = 0 => TableAndQueue) /\ (NoFailure => NoncesAndTable)
    BY DEF LossInvariant, TableAndQueue, NoncesAndTable
  <2>2. redisErrors' = 0 /\ crashes' = 0 => TableAndQueue'
    BY <1>2, <2>1, FailuresStay, TableAndQueueNext
  <2>3. NoFailure' => NoncesAndTable'
    BY <1>2, <2>1, FailuresStay, NoncesAndTableNext DEF NoFailure
  <2> QED
    BY <2>2, <2>3 DEF LossInvariant, TableAndQueue, NoncesAndTable
<1> QED
  BY <1>1, <1>2

LEMMA LossImplies == TypeOK /\ LossInvariant => NothingLost
BY DEF TypeOK, LossInvariant, NothingLost, EnqueuedUnlessOutage, StoredIsEnqueued,
       RecordedUnlessFailure, DuplicateMeansStored, InFlight, Enqueuing, Storing

\* As long as Redis answers and no process dies, an event stored for fan-out has its job
\* or a request about to enqueue it; when nothing fails at all, a DUPLICATE is only said of
\* an event that is stored or being stored, however its deliveries race.
THEOREM NothingIsLost == Spec => []NothingLost
<1>1. Spec => []LossInvariant
  BY IngestTypeCorrect, LossInit, LossNext, PTL DEF Spec
<1> QED
  BY <1>1, IngestTypeCorrect, LossImplies, PTL

-----------------------------------------------------------------------------
(* A sender that waits, and nothing fails: the events of a ticket are told   *)
(* one after another, and the recorded position is the terminal's.           *)

\* What has been put into the master's position: the event is stored, or its request has
\* written the position and not yet the event.
Recorded(e) == stored[e].status # "none" \/ \E r \in Requests : pc[r] = "create" /\ req[r] = e

OneAtWork ==
  \A q, r \in Requests : pc[q] # "idle" /\ pc[r] # "idle" /\ Ticket[req[q]] = Ticket[req[r]] => q = r
ToldInOrder ==
  /\ \A d, e \in Events : Before(d, e) /\ sends[e] > 0 => stored[d].status # "none"
  /\ \A e \in Events : stored[e].status # "none" \/ InFlight(e) => sends[e] > 0
  /\ \A e \in Events : answer[e] # "none" => stored[e].status # "none"
ClaimedOnce ==
  /\ \A e \in Events : stored[e].status # "none" => e \in nonces
  /\ \A e \in nonces : stored[e].status # "none" \/ Storing(e)
  /\ \A r \in Requests : pc[r] \in {"find", "upsert", "create"} =>
                           req[r] \in nonces /\ stored[req[r]].status = "none"

\* The last event put into the position of a ticket, and what the record says then.
LastRecorded(e) == Recorded(e) /\ \A d \in Events : Before(e, d) => ~Recorded(d)
TradeKnown ==
  /\ \A e \in Events : Recorded(e) => trade[Ticket[e]].status # "none"
  /\ \A t \in Tickets : trade[t].status # "none" =>
       \E e \in Events : Ticket[e] = t /\ LastRecorded(e) /\ (Sized(e) => trade[t].volume = Left(e))

\* What a request has read of the position, and the fractions taken of it.
PartOf(e) == <<Volume[e], Open[e]>>
ReadKnown ==
  \A r \in Requests :
    /\ pc[r] = "upsert" => seen[r] = trade[Ticket[req[r]]]
    /\ pc[r] = "create" /\ Kind[req[r]] = "PARTIAL_CLOSE" /\ Sized(req[r]) =>
         CloseFraction(req[r], seen[r]) = PartOf(req[r])
FractionKnown ==
  \A e \in Events : stored[e].status # "none" /\ Kind[e] = "PARTIAL_CLOSE" /\ Sized(e) =>
                      stored[e].fraction = PartOf(e)

Told == OneAtWork /\ ToldInOrder /\ ClaimedOnce
VolumesKnown == Told /\ TradeKnown /\ ReadKnown /\ FractionKnown
VolumeInvariant == NoFailure /\ ~hurried => VolumesKnown

LEMMA VolumeInit == Init => VolumeInvariant
BY DEF Init, VolumeInvariant, VolumesKnown, Told, OneAtWork, ToldInOrder, ClaimedOnce, InFlight, TradeKnown, ReadKnown,
       FractionKnown, Recorded, NoTrade

\* The events of a ticket, one after another.
LEMMA Order ==
  ASSUME NEW c \in Events, NEW d \in Events, NEW e \in Events
  PROVE  /\ Before(c, d) /\ Before(d, e) => Before(c, e)
         /\ Ticket[d] = Ticket[e] => d = e \/ Before(d, e) \/ Before(e, d)
         /\ ~Before(d, d) /\ ~(Before(d, e) /\ Before(e, d))
<1>1. c \in Int /\ d \in Int /\ e \in Int
  BY LogAssumption
<1> QED
  BY <1>1 DEF Before

\* What a request at work on an event says of the log.
LEMMA AtWorkSent ==
  ASSUME TypeOK, Told, NEW r \in Requests, pc[r] # "idle"
  PROVE  /\ req[r] \in Events /\ Ticket[req[r]] \in Tickets /\ sends[req[r]] > 0
         /\ \A d \in Events : Before(d, req[r]) => stored[d].status # "none"
         /\ \A d \in Events : Before(req[r], d) /\ stored[req[r]].status = "none" =>
                                ~Recorded(d) /\ sends[d] = 0
         /\ \A q \in Requests : pc[q] # "idle" /\ Ticket[req[q]] = Ticket[req[r]] => q = r
<1>1. req[r] \in Events /\ Ticket[req[r]] \in Tickets
  BY LogAssumption DEF TypeOK
<1>2. sends[req[r]] > 0
  BY <1>1 DEF Told, ToldInOrder, InFlight
<1>3. ASSUME NEW d \in Events, Before(req[r], d), stored[req[r]].status = "none"
      PROVE  ~Recorded(d) /\ sends[d] = 0
  <2>1. ~(sends[d] > 0) /\ sends[d] \in Nat
    BY <1>1, <1>3 DEF Told, ToldInOrder, TypeOK
  <2>2. stored[d].status = "none" /\ ~InFlight(d)
    BY <2>1 DEF Told, ToldInOrder
  <2> QED
    BY <2>1, <2>2 DEF Recorded, InFlight
<1> QED
  BY <1>1, <1>2, <1>3 DEF Told, ToldInOrder, OneAtWork

\* A step of a request that stores nothing and writes no position keeps what is known of the
\* positions.
LEMMA TradesStand ==
  ASSUME TypeOK, VolumesKnown, stored' = stored, trade' = trade, \A e \in Events : Recorded(e)' <=> Recorded(e)
  PROVE  TradeKnown' /\ FractionKnown'
<1>1. \A e \in Events : LastRecorded(e)' <=> LastRecorded(e)
  BY DEF LastRecorded
<1> QED
  BY <1>1 DEF VolumesKnown, TradeKnown, FractionKnown

LEMMA DeliverKeeps ==
  ASSUME TypeOK, VolumesKnown, NEW r \in Requests, NEW e \in Events, Deliver(r, e), ~hurried'
  PROVE  VolumesKnown'
<1>1. /\ pc' = [pc EXCEPT ![r] = "nonce"] /\ req' = [req EXCEPT ![r] = e] /\ sends' = [sends EXCEPT ![e] = @ + 1]
      /\ UNCHANGED <<nonces, trade, stored, seen, answer>> /\ pc[r] = "idle"
      /\ pc \in [Requests -> PC] /\ req \in [Requests -> Events \cup {NoEvent}] /\ sends \in [Events -> Nat]
  BY DEF Deliver, Goto, TypeOK, store
<1>2. \A d \in Events : Ticket[d] = Ticket[e] => ~InFlight(d)
  BY DEF Deliver, Unanswered
<1>3. \A d \in Events : Before(d, e) => stored[d].status # "none"
  BY DEF Deliver, MaySend, Before, VolumesKnown, Told, ToldInOrder
<1>4. OneAtWork'
  <2>1. ASSUME NEW q \in Requests, pc[q] # "idle", Ticket[req[q]] = Ticket[e] PROVE FALSE
    BY <1>2, <2>1 DEF InFlight, TypeOK
  <2> QED
    BY <1>1, <2>1 DEF VolumesKnown, Told, OneAtWork
<1>5. \A d \in Events : InFlight(d)' => InFlight(d) \/ d = e
  BY <1>1 DEF InFlight
<1>6. \A d \in Events : sends'[d] > 0 <=> sends[d] > 0 \/ d = e
  BY <1>1
<1>7. ToldInOrder'
  BY <1>1, <1>3, <1>5, <1>6 DEF VolumesKnown, Told, ToldInOrder
<1>8. ClaimedOnce'
  <2>1. \A d : Storing(d) => Storing(d)'
    BY <1>1 DEF Storing
  <2> QED
    BY <1>1, <2>1 DEF VolumesKnown, Told, ClaimedOnce
<1>9. \A d \in Events : Recorded(d)' <=> Recorded(d)
  BY <1>1 DEF Recorded
<1>10. ReadKnown'
  BY <1>1 DEF VolumesKnown, ReadKnown
<1> QED
  BY <1>1, <1>4, <1>7, <1>8, <1>9, <1>10, TradesStand DEF VolumesKnown, Told

\* A request that goes on, or answers, without writing the position or the event.
LEMMA GoingOnKeeps ==
  ASSUME TypeOK, VolumesKnown, NEW r \in Requests, pc[r] \notin {"idle", "create"}, NEW step \in PC, pc' = [pc EXCEPT ![r] = step],
         step \notin {"create", "upsert"}, step # "idle" => req' = req, \A q \in Requests \ {r} : req'[q] = req[q],
         \A q \in Requests \ {r} : seen'[q] = seen[q], UNCHANGED <<stored, trade, sends>>,
         answer' = answer \/ (answer' = [answer EXCEPT ![req[r]] = answer'[req[r]]] /\ stored[req[r]].status # "none"),
         ClaimedOnce'
  PROVE  VolumesKnown'
<1>1. pc \in [Requests -> PC] /\ req \in [Requests -> Events \cup {NoEvent}] /\ req[r] \in Events /\ answer \in [Events -> Answers]
  BY DEF TypeOK
<1>2. \A q \in Requests : pc'[q] # "idle" => pc[q] # "idle" /\ req'[q] = req[q]
  BY <1>1
<1>3. OneAtWork'
  BY <1>2 DEF VolumesKnown, Told, OneAtWork
<1>4. ToldInOrder'
  <2>1. \A e \in Events : InFlight(e)' => InFlight(e)
    BY <1>2 DEF InFlight
  <2>2. \A e \in Events : answer'[e] = answer[e] \/ stored[e].status # "none"
    BY <1>1
  <2> QED
    BY <2>1, <2>2 DEF VolumesKnown, Told, ToldInOrder
<1>5. \A e \in Events : Recorded(e)' <=> Recorded(e)
  <2>1. \A q \in Requests : pc'[q] = "create" <=> pc[q] = "create"
    BY <1>1
  <2> QED
    BY <1>2, <2>1 DEF Recorded
<1>6. ReadKnown'
  BY <1>1, <1>2 DEF VolumesKnown, ReadKnown
<1> QED
  BY <1>3, <1>4, <1>5, <1>6, TradesStand DEF VolumesKnown, Told

LEMMA ClaimKeeps ==
  ASSUME TypeOK, VolumesKnown, NEW r \in Requests, ClaimNonce(r)
  PROVE  VolumesKnown'
<1>1. /\ pc' = [pc EXCEPT ![r] = "find"] /\ nonces' = nonces \cup {req[r]} /\ req[r] \notin nonces /\ pc[r] = "nonce"
      /\ UNCHANGED <<trade, stored, req, seen, answer, sends>> /\ req[r] \in Events /\ pc \in [Requests -> PC]
  BY DEF ClaimNonce, Goto, TypeOK, sender
<1>2. ClaimedOnce'
  <2>1. \A e : Storing(e) \/ e = req[r] => Storing(e)'
    BY <1>1 DEF Storing
  <2>2. \A q \in Requests : pc'[q] \in {"find", "upsert", "create"} => q = r \/ pc[q] \in {"find", "upsert", "create"}
    BY <1>1
  <2>3. stored[req[r]].status = "none"
    BY <1>1 DEF VolumesKnown, Told, ClaimedOnce
  <2> QED
    BY <1>1, <2>1, <2>2, <2>3 DEF VolumesKnown, Told, ClaimedOnce
<1>3. "find" \in PC
  BY DEF PC
<1> QED
  BY <1>1, <1>2, <1>3, GoingOnKeeps

\* The answers: nothing is left to store.
LEMMA AnswerKeepsVolumes ==
  ASSUME TypeOK, VolumesKnown, NEW r \in Requests, pc[r] \in {"nonce", "enqueue"}, NEW status, Reply(r, status),
         stored[req[r]].status # "none", UNCHANGED <<nonces, trade, stored>>
  PROVE  VolumesKnown'
<1>1. /\ pc' = [pc EXCEPT ![r] = "idle"] /\ \A q \in Requests \ {r} : req'[q] = req[q] /\ seen'[q] = seen[q]
      /\ pc \in [Requests -> PC] /\ req[r] \in Events /\ sends' = sends
      /\ answer' = [answer EXCEPT ![req[r]] = answer'[req[r]]]
  BY DEF Reply, EndRequest, Goto, TypeOK
<1>2. \A e : Storing(e)' <=> Storing(e)
  BY <1>1 DEF Storing
<1>3. ClaimedOnce'
  BY <1>1, <1>2 DEF VolumesKnown, Told, ClaimedOnce
<1>4. "idle" \in PC
  BY DEF PC
<1> QED
  BY <1>1, <1>3, <1>4, GoingOnKeeps

LEMMA RepliesKeep ==
  ASSUME TypeOK, VolumesKnown, IngestInvariant, NEW r \in Requests, NonceTaken(r) \/ Enqueue(r)
  PROVE  VolumesKnown'
<1>1. CASE NonceTaken(r)
  <2>1. pc[r] = "nonce" /\ req[r] \in nonces /\ UNCHANGED <<nonces, trade, stored>> /\ req[r] \in Events
    BY <1>1 DEF NonceTaken, store, TypeOK
  <2>2. stored[req[r]].status # "none"
    <3>1. ASSUME NEW q \in Requests, pc[q] \in {"find", "upsert", "create"}, req[q] = req[r] PROVE FALSE
      BY <2>1, <3>1 DEF VolumesKnown, Told, OneAtWork
    <3> QED
      BY <2>1, <3>1 DEF VolumesKnown, Told, ClaimedOnce, Storing
  <2> QED
    BY <1>1, <2>1, <2>2, AnswerKeepsVolumes DEF NonceTaken
<1>2. CASE Enqueue(r)
  <2>1. pc[r] = "enqueue" /\ stored[req[r]].status # "none" /\ UNCHANGED <<nonces, trade, stored>>
    BY <1>2 DEF Enqueue, IngestInvariant
  <2> QED
    BY <1>2, <2>1, AnswerKeepsVolumes DEF Enqueue
<1> QED
  BY <1>1, <1>2

LEMMA FindKeeps ==
  ASSUME TypeOK, VolumesKnown, NEW r \in Requests, FindTrade(r)
  PROVE  VolumesKnown'
<1>1. /\ pc' = [pc EXCEPT ![r] = "upsert"] /\ seen' = [seen EXCEPT ![r] = trade[Ticket[req[r]]]] /\ pc[r] = "find"
      /\ UNCHANGED <<nonces, trade, stored, req, answer, sends>> /\ req[r] \in Events
      /\ pc \in [Requests -> PC] /\ seen \in [Requests -> TradeType]
  BY DEF FindTrade, Goto, TypeOK, sender, store
<1>2. OneAtWork' /\ ToldInOrder'
  BY <1>1 DEF VolumesKnown, Told, OneAtWork, ToldInOrder, InFlight
<1>3. ClaimedOnce'
  <2>1. \A e : Storing(e)' <=> Storing(e)
    BY <1>1 DEF Storing
  <2> QED
    BY <1>1, <2>1 DEF VolumesKnown, Told, ClaimedOnce
<1>4. \A e \in Events : Recorded(e)' <=> Recorded(e)
  BY <1>1 DEF Recorded
<1>5. ReadKnown'
  BY <1>1 DEF VolumesKnown, ReadKnown
<1> QED
  BY <1>1, <1>2, <1>3, <1>4, <1>5, TradesStand DEF VolumesKnown, Told

\* The fraction of a partial close of what is open, and what it leaves.
LEMMA PartOfOpen ==
  ASSUME NEW e \in Events, Kind[e] = "PARTIAL_CLOSE", NEW t \in TradeType, t.volume = Open[e]
  PROVE  CloseFraction(e, t) = PartOf(e) /\ VolumeAfter(e, t) = Left(e)
<1>1. Volume[e] \in Nat \ {0} /\ Open[e] \in Nat /\ Volume[e] <= Open[e]
  BY LogAssumption, TerminalAssumption
<1>2. CloseFraction(e, t) = PartOf(e)
  BY <1>1 DEF CloseFraction, PartOf
<1>3. PartOf(e)[1] = Volume[e] /\ PartOf(e) # NoFraction
  BY <1>1 DEF PartOf, NoFraction
<1> QED
  BY <1>2, <1>3 DEF VolumeAfter, Left

\* What the upsert leaves on the record is what the terminal has left, and its fraction is of
\* what the terminal had open.
LEMMA UpsertIsRight ==
  ASSUME TypeOK, VolumesKnown, NEW r \in Requests, UpsertTrade(r), Sized(req[r])
  PROVE  /\ trade'[Ticket[req[r]]].volume = Left(req[r])
         /\ Kind[req[r]] = "PARTIAL_CLOSE" => CloseFraction(req[r], seen[r]) = PartOf(req[r])
<1> DEFINE e == req[r]  t == Ticket[req[r]]
<1>1. /\ pc[r] = "upsert" /\ e \in Events /\ t \in Tickets /\ seen[r] = trade[t] /\ trade[t] \in TradeType
      /\ stored[e].status = "none" /\ trade \in [Tickets -> TradeType]
  BY LogAssumption DEF UpsertTrade, TypeOK, VolumesKnown, Told, ClaimedOnce, ReadKnown
<1>2. trade'[t] = IF trade[t].status = "none" THEN NewTrade(e) ELSE UpdatedTrade(e, trade[t], seen[r])
  BY <1>1 DEF UpsertTrade
<1>3. CASE Kind[e] # "PARTIAL_CLOSE"
  <2>1. VolumeAfter(e, seen[r]) = Volume[e]
    BY <1>3 DEF VolumeAfter, CloseFraction
  <2> QED
    BY <1>2, <1>3, <2>1 DEF NewTrade, UpdatedTrade, Left
<1>4. CASE Kind[e] = "PARTIAL_CLOSE"
  <2>1. PICK c \in Events : Before(c, e) /\ Kind[c] # "PARTIAL_CLOSE"
    BY <1>4 DEF Sized
  <2>2. stored[c].status # "none" /\ Ticket[c] = t
    BY <1>1, <2>1, AtWorkSent DEF VolumesKnown, Before
  <2>3. trade[t].status # "none"
    BY <2>2 DEF VolumesKnown, TradeKnown, Recorded
  <2>4. PICK d \in Events : Ticket[d] = t /\ LastRecorded(d) /\ (Sized(d) => trade[t].volume = Left(d))
    BY <1>1, <2>3 DEF VolumesKnown, TradeKnown
  <2>5. ~Recorded(e)
    <3>1. ~\E q \in Requests : pc[q] = "create" /\ req[q] = e
      BY <1>1, AtWorkSent DEF VolumesKnown
    <3> QED
      BY <1>1, <3>1 DEF Recorded
  <2>6. \A x \in Events : Before(e, x) => ~Recorded(x)
    BY <1>1, AtWorkSent DEF VolumesKnown
  <2>7. \A x \in Events : Before(x, e) => Recorded(x)
    BY <1>1, AtWorkSent DEF VolumesKnown, Recorded
  <2>8. Before(d, e)
    BY <1>1, <2>4, <2>5, <2>6, Order DEF LastRecorded
  <2>9. JustBefore(d, e)
    BY <2>4, <2>7, <2>8 DEF JustBefore, LastRecorded
  <2>10. c = d \/ Before(c, d)
    BY <2>1, <2>2, <2>4, <2>7, Order DEF LastRecorded
  <2>11. trade[t].volume = Left(d)
    BY <2>1, <2>4, <2>10 DEF Sized
  <2>12. seen[r].volume = Open[e]
    BY <1>1, <1>4, <2>9, <2>11, TerminalAssumption
  <2>13. CloseFraction(e, seen[r]) = PartOf(e) /\ VolumeAfter(e, seen[r]) = Left(e)
    BY <1>1, <1>4, <2>12, PartOfOpen
  <2> QED
    BY <1>2, <2>3, <2>13 DEF UpdatedTrade
<1> QED
  BY <1>3, <1>4

LEMMA UpsertKeeps ==
  ASSUME TypeOK, VolumesKnown, NEW r \in Requests, UpsertTrade(r)
  PROVE  VolumesKnown'
<1> DEFINE e == req[r]
<1>1. /\ pc' = [pc EXCEPT ![r] = "create"] /\ pc[r] = "upsert" /\ UNCHANGED <<nonces, stored, req, seen, answer, sends>>
      /\ e \in Events /\ Ticket[e] \in Tickets /\ pc \in [Requests -> PC] /\ trade \in [Tickets -> TradeType]
      /\ \A t \in Tickets \ {Ticket[e]} : trade'[t] = trade[t]
      /\ stored[e].status = "none"
  BY LogAssumption DEF UpsertTrade, Goto, TypeOK, sender, VolumesKnown, Told, ClaimedOnce
<1>2. OneAtWork' /\ ToldInOrder'
  BY <1>1 DEF VolumesKnown, Told, OneAtWork, ToldInOrder, InFlight
<1>3. ClaimedOnce'
  <2>1. \A d : Storing(d)' <=> Storing(d)
    BY <1>1 DEF Storing
  <2> QED
    BY <1>1, <2>1 DEF VolumesKnown, Told, ClaimedOnce
<1>4. \A d \in Events : Recorded(d)' <=> Recorded(d) \/ d = e
  BY <1>1 DEF Recorded
<1>5. trade'[Ticket[e]].status # "none"
  <2>1. trade'[Ticket[e]] = IF trade[Ticket[e]].status = "none" THEN NewTrade(e)
                            ELSE UpdatedTrade(e, trade[Ticket[e]], seen[r])
    BY <1>1 DEF UpsertTrade
  <2> QED
    BY <2>1 DEF NewTrade, UpdatedTrade
<1>6. TradeKnown'
  <2>1. \A d \in Events : Recorded(d)' => trade'[Ticket[d]].status # "none"
    BY <1>1, <1>4, <1>5, LogAssumption DEF VolumesKnown, TradeKnown
  <2>2. \A d \in Events : Before(e, d) => ~Recorded(d)
    BY <1>1, AtWorkSent DEF VolumesKnown
  <2>3. LastRecorded(e)'
    BY <1>1, <1>4, <2>2, Order DEF LastRecorded
  <2>4. ASSUME NEW t \in Tickets, t # Ticket[e], trade'[t].status # "none"
        PROVE  \E d \in Events : Ticket[d] = t /\ LastRecorded(d)' /\ (Sized(d) => trade'[t].volume = Left(d))
    <3>1. PICK d \in Events : Ticket[d] = t /\ LastRecorded(d) /\ (Sized(d) => trade[t].volume = Left(d))
      BY <1>1, <2>4 DEF VolumesKnown, TradeKnown
    <3>2. LastRecorded(d)'
      BY <1>4, <2>4, <3>1 DEF LastRecorded, Before
    <3> QED
      BY <1>1, <2>4, <3>1, <3>2
  <2> QED
    BY <1>1, <2>1, <2>3, <2>4, UpsertIsRight DEF TradeKnown
<1>7. ReadKnown'
  <2>1. ASSUME NEW q \in Requests, q # r, pc[q] = "upsert" PROVE trade'[Ticket[req[q]]] = trade[Ticket[req[q]]]
    <3>1. req[q] \in Events /\ Ticket[req[q]] # Ticket[e] /\ Ticket[req[q]] \in Tickets
      BY <1>1, <2>1, AtWorkSent DEF VolumesKnown
    <3> QED
      BY <1>1, <3>1
  <2> QED
    BY <1>1, <2>1, UpsertIsRight DEF VolumesKnown, ReadKnown
<1>8. FractionKnown'
  BY <1>1 DEF VolumesKnown, FractionKnown
<1> QED
  BY <1>2, <1>3, <1>6, <1>7, <1>8 DEF VolumesKnown, Told

LEMMA CreateKeeps ==
  ASSUME TypeOK, VolumesKnown, NEW r \in Requests, CreateEvent(r)
  PROVE  VolumesKnown'
<1> DEFINE e == req[r]
<1>1. /\ pc[r] = "create" /\ e \in Events /\ UNCHANGED <<nonces, trade, sends>> /\ e \in nonces
      /\ pc \in [Requests -> PC] /\ stored \in [Events -> StoredType] /\ answer \in [Events -> Answers]
      /\ \A q \in Requests \ {r} : pc'[q] = pc[q] /\ req'[q] = req[q] /\ seen'[q] = seen[q]
      /\ pc'[r] = "idle" \/ (pc'[r] = "enqueue" /\ req'[r] = e)
      /\ \A d \in Events \ {e} : answer'[d] = answer[d]
  BY DEF CreateEvent, Reply, EndRequest, Goto, TypeOK, sender, VolumesKnown, Told, ClaimedOnce
<1>2. /\ \A d \in Events \ {e} : stored'[d] = stored[d]
      /\ stored'[e].status # "none" /\ stored'[e].fraction = CloseFraction(e, seen[r])
  BY <1>1 DEF CreateEvent
<1>3. \A q \in Requests : pc'[q] # "idle" => pc[q] # "idle" /\ req'[q] = req[q]
  BY <1>1
<1>4. OneAtWork'
  BY <1>3 DEF VolumesKnown, Told, OneAtWork
<1>5. ToldInOrder'
  <2>1. \A d \in Events : InFlight(d)' => InFlight(d)
    BY <1>3 DEF InFlight
  <2>2. sends[e] > 0
    BY <1>1, AtWorkSent DEF VolumesKnown
  <2> QED
    BY <1>1, <1>2, <2>1, <2>2 DEF VolumesKnown, Told, ToldInOrder
<1>6. ClaimedOnce'
  <2>1. \A d : Storing(d) => Storing(d)' \/ d = e
    BY <1>1 DEF Storing
  <2>2. \A q \in Requests : pc'[q] \in {"find", "upsert", "create"} => q # r /\ pc[q] = pc'[q] /\ req'[q] = req[q]
    BY <1>1
  <2>3. \A q \in Requests : pc'[q] \in {"find", "upsert", "create"} => req[q] # e
    BY <1>1, <2>2, AtWorkSent DEF VolumesKnown
  <2>4. nonces \subseteq Events
    BY DEF TypeOK
  <2>5. \A d \in Events : stored'[d].status # "none" => d \in nonces
    BY <1>1, <1>2 DEF VolumesKnown, Told, ClaimedOnce
  <2>6. \A d \in nonces : stored'[d].status # "none" \/ Storing(d)'
    BY <1>1, <1>2, <2>1, <2>4 DEF VolumesKnown, Told, ClaimedOnce
  <2>7. \A q \in Requests : pc'[q] \in {"find", "upsert", "create"} => req'[q] \in nonces /\ stored'[req'[q]].status = "none"
    BY <1>1, <1>2, <2>2, <2>3, <2>4 DEF VolumesKnown, Told, ClaimedOnce
  <2> QED
    BY <1>1, <2>5, <2>6, <2>7 DEF ClaimedOnce
<1>7. \A d \in Events : Recorded(d)' <=> Recorded(d)
  <2>1. ASSUME NEW d \in Events, d = e PROVE Recorded(d) /\ Recorded(d)'
    BY <1>1, <1>2, <2>1 DEF Recorded
  <2>2. ASSUME NEW d \in Events, d # e PROVE Recorded(d)' <=> Recorded(d)
    BY <1>1, <1>2, <2>2 DEF Recorded
  <2> QED
    BY <1>1, <2>1, <2>2
<1>8. TradeKnown'
  <2>1. \A d \in Events : LastRecorded(d)' <=> LastRecorded(d)
    BY <1>7 DEF LastRecorded
  <2> QED
    BY <1>1, <1>7, <2>1 DEF VolumesKnown, TradeKnown
<1>9. ReadKnown'
  BY <1>1 DEF VolumesKnown, ReadKnown
<1>10. FractionKnown'
  BY <1>1, <1>2 DEF VolumesKnown, FractionKnown, ReadKnown
<1> QED
  BY <1>4, <1>5, <1>6, <1>8, <1>9, <1>10 DEF VolumesKnown, Told

LEMMA VolumeNext == TypeOK /\ IngestInvariant /\ VolumeInvariant /\ [Next]_vars => VolumeInvariant'
<1> SUFFICES ASSUME TypeOK, IngestInvariant, VolumeInvariant, [Next]_vars, NoFailure', ~hurried'
             PROVE  VolumesKnown'
  BY DEF VolumeInvariant, VolumesKnown
<1>1. NoFailure
  BY FailuresStay DEF NoFailure
<1>2. ASSUME NEW r \in Requests, Fails(r) PROVE FALSE
  BY <1>2 DEF Fails, NonceUnavailable, NonceResent, EnqueueFails, StoreThrows, Crash, TypeOK, NoFailure
<1>3. hurried => hurried'
  <2>1. ASSUME NEW r \in Requests, Step(r) PROVE hurried' = hurried
    BY <2>1 DEF Step, ClaimNonce, NonceTaken, FindTrade, UpsertTrade, CreateEvent, EventExists, Enqueue, Reply, sender
  <2> QED
    BY <1>2, <2>1 DEF Next, Deliver, SetStatus, sender, vars
<1>4. VolumesKnown
  BY <1>1, <1>3 DEF VolumeInvariant, VolumesKnown
<1>5. ASSUME NEW r \in Requests PROVE ~EventExists(r)
  BY <1>4 DEF EventExists, VolumesKnown, Told, ClaimedOnce
<1>6. ASSUME NEW r \in Requests, Step(r) PROVE VolumesKnown'
  BY <1>4, <1>5, <1>6, ClaimKeeps, RepliesKeep, FindKeeps, UpsertKeeps, CreateKeeps DEF Step
<1>7. ASSUME NEW r \in Requests, NEW e \in Events, Deliver(r, e) PROVE VolumesKnown'
  BY <1>4, <1>7, DeliverKeeps
<1>8. CASE SetStatus \/ UNCHANGED vars
  <2>1. UNCHANGED <<nonces, trade, stored, pc, req, seen, sends, answer>>
    BY <1>8 DEF SetStatus, vars, store, request, sender
  <2>2. \A e : Storing(e)' <=> Storing(e)
    BY <2>1 DEF Storing
  <2>3. \A e \in Events : (Recorded(e)' <=> Recorded(e)) /\ (InFlight(e)' <=> InFlight(e))
    BY <2>1 DEF Recorded, InFlight
  <2>4. Told'
    BY <1>4, <2>1, <2>2, <2>3 DEF VolumesKnown, Told, OneAtWork, ToldInOrder, ClaimedOnce
  <2>5. ReadKnown'
    BY <1>4, <2>1 DEF VolumesKnown, ReadKnown
  <2> QED
    BY <1>4, <2>1, <2>3, <2>4, <2>5, TradesStand DEF VolumesKnown
<1> QED
  BY <1>2, <1>6, <1>7, <1>8 DEF Next

LEMMA VolumesFollow == TypeOK /\ VolumeInvariant => VolumesAreRight
<1> SUFFICES ASSUME TypeOK, VolumeInvariant, NoFailure, ~hurried PROVE VolumesAreRight
  BY DEF VolumesAreRight, FractionOfOpenVolume, RecordedVolume
<1>1. VolumesKnown
  BY DEF VolumeInvariant, VolumesKnown
<1>2. FractionOfOpenVolume
  BY <1>1 DEF VolumesKnown, FractionKnown, FractionOfOpenVolume, PartOf
<1>3. ASSUME NEW e \in Events, stored[e].status # "none", Sized(e), \A d \in Events : Before(e, d) => sends[d] = 0
      PROVE  trade[Ticket[e]].volume = Left(e)
  <2>1. Recorded(e) /\ Ticket[e] \in Tickets
    BY <1>3, LogAssumption DEF Recorded
  <2>2. PICK d \in Events : Ticket[d] = Ticket[e] /\ LastRecorded(d) /\ (Sized(d) => trade[Ticket[e]].volume = Left(d))
    BY <1>1, <2>1 DEF VolumesKnown, TradeKnown
  <2>3. \A x \in Events : Recorded(x) => sends[x] > 0
    BY <1>1 DEF VolumesKnown, Told, ToldInOrder, Recorded, InFlight
  <2>4. ~Before(d, e) /\ ~Before(e, d)
    BY <1>3, <2>1, <2>2, <2>3 DEF LastRecorded
  <2>5. d = e
    BY <2>2, <2>4, Order
  <2> QED
    BY <1>3, <2>2, <2>5
<1> QED
  BY <1>2, <1>3 DEF VolumesAreRight, RecordedVolume

\* When nothing fails and the sender waits for its answers, for every log of a terminal, any
\* number of tickets and requests and any change of the strategy's status: the close fraction
\* stored of a partial close is what it closed of what was open just before it, and the recorded
\* position is the terminal's (storeEvent).
THEOREM VolumesAreAlwaysRight == Spec => []VolumesAreRight
<1>1. Spec => []VolumeInvariant
  BY IngestTypeCorrect, IngestInvariantHolds, VolumeInit, VolumeNext, PTL DEF Spec
<1> QED
  BY <1>1, IngestTypeCorrect, VolumesFollow, PTL
=============================================================================
