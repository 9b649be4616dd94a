----------------------------- MODULE CopyEngine -----------------------------
(***************************************************************************)
(* The copy worker of the platform: BullMQ jobs, one per master event, are *)
(* taken by Workers (the concurrent slots of every worker process) and     *)
(* fanned out to the accounts that copy the strategy.  One action is the   *)
(* code between two awaits of copy-engine.service.ts, so that workers      *)
(* interleave, crash and fail between any two database or broker calls.    *)
(*                                                                         *)
(* A copy is a pair <<event, account>>: the key of the unique constraint   *)
(* on CopyTrade, and the comment an order carries at the broker.           *)
(***************************************************************************)
EXTENDS Integers, Sequences, FiniteSets

CONSTANTS
  Events,        \* master events, numbered in the order the master sent them
  Kind,          \* Kind[e]: OPEN, MODIFY, PARTIAL_CLOSE or CLOSE
  Ticket,        \* Ticket[e]: the master ticket the event is about
  Tickets,
  Accounts,      \* member accounts, one subscription each
  MT4,           \* the accounts whose partial close issues a new ticket
  Workers,
  NoAccount, NoWorker, NoPosition,
  Attempts,      \* COPY_JOB_OPTIONS.attempts
  MaxStalled,    \* stalls BullMQ forgives before it fails the job
  MaxCrashes,    \* bound: worker processes that die
  MaxLostLocks,  \* bound: job locks that expire under a worker still running
  MaxThrows      \* bound: database or broker calls that throw

\* PENDING_ORDER takes the path of OPEN and DELETE_PENDING that of CLOSE.
Kinds == {"OPEN", "MODIFY", "PARTIAL_CLOSE", "CLOSE"}

ASSUME EventsAssumption ==
  /\ Events \subseteq Nat \ {0}
  /\ Kind \in [Events -> Kinds]
  /\ Ticket \in [Events -> Tickets]
ASSUME AccountsAssumption == NoAccount \notin Accounts /\ MT4 \subseteq Accounts
ASSUME WorkersAssumption == NoWorker \notin Workers
ASSUME BoundsAssumption ==
  /\ Attempts \in Nat \ {0}
  /\ {MaxStalled, MaxCrashes, MaxLostLocks, MaxThrows} \subseteq Nat

Copies == Events \X Accounts

\* A broker position: the copy whose order opened it, which order of that copy
\* it was, and how many partial closes have re-issued its ticket.
Position == [copy : Copies, nth : Nat, gen : Nat]

ASSUME PositionAssumption == NoPosition \notin Position

VARIABLES
  eventStatus,   \* TradeEvent.status
  row,           \* CopyTrade.status, by copy
  mapping,       \* PositionMapping, by account and master ticket
  openTrades,    \* TradingAccount.openTrades
  copyStatus,    \* StrategySubscription.copyStatus
  breached,      \* RiskState.breached
  queue,         \* the wait list of the copy queue
  jobState, attemptsMade, stalls, lock,
  live,          \* the positions open at the broker
  orders,        \* history: orders executed for a copy
  pc, ev, todo, mem, seen,
  crashes, lostLocks, throws

db     == <<eventStatus, row, mapping, openTrades, copyStatus, breached>>
jobs   == <<queue, jobState, attemptsMade, stalls, lock>>
broker == <<live, orders>>
local  == <<ev, todo, mem, seen>>
budget == <<crashes, lostLocks, throws>>
vars   == <<db, jobs, broker, pc, local, budget>>

RowStatus == {"none", "PENDING", "SUCCESS", "FAILED", "SKIPPED"}
MappingStatus == {"none", "OPEN", "PARTIALLY_CLOSED", "CLOSED"}
MappingType == [ticket : Position \cup {NoPosition}, status : MappingStatus]
JobState == {"none", "waiting", "delayed", "active", "completed", "failed"}

\* Steps of processTradeEvent outside the member loop's body.
JobPC == {"load", "mark", "snapshot", "loop", "finish", "done"}
\* Steps after the CopyTrade row is created, up to its last update.
BeforeOrder == {"open", "risk", "breach", "send"}
AfterOrder == {"fill", "map", "count"}
AdjustPC == {"adjust", "act", "remap", "partial", "close", "uncount", "settle"}
BodyPC == BeforeOrder \cup AfterOrder \cup AdjustPC \cup {"skip", "reject", "stamp"}
HoldPC == BodyPC \cup {"failrow"}
PC == {"idle", "claim"} \cup JobPC \cup HoldPC

Copy(w) == <<ev[w], mem[w]>>
Slot(w) == <<mem[w], Ticket[ev[w]]>>

\* A worker is between creating the row of copy c and its last update of it.
Holds(w, c) == pc[w] \in HoldPC /\ Copy(w) = c
Held(c) == \E w \in Workers : Holds(w, c)
\* Some worker is copying an event to account a.
Busy(a) == \E w \in Workers : pc[w] \in HoldPC /\ mem[w] = a

\* What the database, the queue and the broker hold.
StoreType ==
  /\ eventStatus \in [Events -> {"none", "QUEUED", "PROCESSING", "PROCESSED"}]
  /\ row \in [Copies -> RowStatus]
  /\ mapping \in [Accounts \X Tickets -> MappingType]
  /\ openTrades \in [Accounts -> Int]
  /\ copyStatus \in [Accounts -> {"COPYING", "PAUSED"}]
  /\ breached \in [Accounts -> BOOLEAN]
  /\ queue \in Seq(Events)
  /\ jobState \in [Events -> JobState]
  /\ attemptsMade \in [Events -> Nat]
  /\ stalls \in [Events -> Nat]
  /\ lock \in [Events -> Workers \cup {NoWorker}]
  /\ live \in SUBSET Position
  /\ orders \in [Copies -> Nat]
  /\ crashes \in Nat /\ lostLocks \in Nat /\ throws \in Nat

\* What a worker holds in memory.
WorkerType ==
  /\ pc \in [Workers -> PC]
  /\ ev \in [Workers -> Events \cup {0}]
  /\ todo \in [Workers -> SUBSET Accounts]
  /\ mem \in [Workers -> Accounts \cup {NoAccount}]
  /\ seen \in [Workers -> Position \cup {NoPosition}]
  /\ \A w \in Workers : pc[w] # "idle" => ev[w] \in Events
  /\ \A w \in Workers : pc[w] \in HoldPC \cup {"claim"} => mem[w] \in Accounts

TypeOK == StoreType /\ WorkerType

Init ==
  /\ eventStatus = [e \in Events |-> "none"]
  /\ row = [c \in Copies |-> "none"]
  /\ mapping = [m \in Accounts \X Tickets |-> [ticket |-> NoPosition, status |-> "none"]]
  /\ openTrades = [a \in Accounts |-> 0]
  /\ copyStatus = [a \in Accounts |-> "COPYING"]
  /\ breached = [a \in Accounts |-> FALSE]
  /\ queue = <<>>
  /\ jobState = [e \in Events |-> "none"]
  /\ attemptsMade = [e \in Events |-> 0]
  /\ stalls = [e \in Events |-> 0]
  /\ lock = [e \in Events |-> NoWorker]
  /\ live = {}
  /\ orders = [c \in Copies |-> 0]
  /\ pc = [w \in Workers |-> "idle"]
  /\ ev = [w \in Workers |-> 0]
  /\ todo = [w \in Workers |-> {}]
  /\ mem = [w \in Workers |-> NoAccount]
  /\ seen = [w \in Workers |-> NoPosition]
  /\ crashes = 0 /\ lostLocks = 0 /\ throws = 0

Goto(w, step) == pc' = [pc EXCEPT ![w] = step]

\* Back to the member loop, the member done with.
NextMember(w) ==
  /\ Goto(w, "loop")
  /\ mem' = [mem EXCEPT ![w] = NoAccount]
  /\ seen' = [seen EXCEPT ![w] = NoPosition]
  /\ UNCHANGED <<ev, todo>>

\* The worker's slot is free again, nothing of the job left in its memory.
Release(w) ==
  /\ Goto(w, "idle")
  /\ ev' = [ev EXCEPT ![w] = 0]
  /\ todo' = [todo EXCEPT ![w] = {}]
  /\ mem' = [mem EXCEPT ![w] = NoAccount]
  /\ seen' = [seen EXCEPT ![w] = NoPosition]

-----------------------------------------------------------------------------
(* The queue.                                                              *)

\* ingestMasterEvent has stored event e and enqueued its job.
Publish(e) ==
  /\ eventStatus[e] = "none"
  /\ \A d \in Events : d < e => eventStatus[d] # "none"
  /\ eventStatus' = [eventStatus EXCEPT ![e] = "QUEUED"]
  /\ jobState' = [jobState EXCEPT ![e] = "waiting"]
  /\ queue' = Append(queue, e)
  /\ UNCHANGED <<row, mapping, openTrades, copyStatus, breached, attemptsMade, stalls, lock>>
  /\ UNCHANGED <<broker, pc, local, budget>>

\* A free slot takes the job at the head of the wait list and locks it.
TakeJob(w) ==
  /\ pc[w] = "idle"
  /\ queue # <<>>
  /\ queue' = Tail(queue)
  /\ jobState' = [jobState EXCEPT ![Head(queue)] = "active"]
  /\ lock' = [lock EXCEPT ![Head(queue)] = w]
  /\ ev' = [ev EXCEPT ![w] = Head(queue)]
  /\ Goto(w, "load")
  /\ UNCHANGED <<db, broker, attemptsMade, stalls, todo, mem, seen, budget>>

\* processTradeEvent returned: the job completes if the worker still has its lock.
CompleteJob(w) ==
  /\ pc[w] = "done"
  /\ IF lock[ev[w]] = w
     THEN /\ jobState' = [jobState EXCEPT ![ev[w]] = "completed"]
          /\ lock' = [lock EXCEPT ![ev[w]] = NoWorker]
     ELSE UNCHANGED <<jobState, lock>>
  /\ Release(w)
  /\ UNCHANGED <<db, broker, queue, attemptsMade, stalls, budget>>

\* processTradeEvent threw: retried after a backoff while attempts remain.
FailJob(w) ==
  /\ IF lock[ev[w]] = w
     THEN /\ attemptsMade' = [attemptsMade EXCEPT ![ev[w]] = @ + 1]
          /\ jobState' = [jobState EXCEPT ![ev[w]] =
                            IF attemptsMade[ev[w]] + 1 < Attempts THEN "delayed" ELSE "failed"]
          /\ lock' = [lock EXCEPT ![ev[w]] = NoWorker]
     ELSE UNCHANGED <<attemptsMade, jobState, lock>>
  /\ Release(w)
  /\ UNCHANGED <<queue, stalls>>

\* The backoff of a delayed job is over.
Promote(e) ==
  /\ jobState[e] = "delayed"
  /\ jobState' = [jobState EXCEPT ![e] = "waiting"]
  /\ queue' = Append(queue, e)
  /\ UNCHANGED <<db, broker, attemptsMade, stalls, lock, pc, local, budget>>

\* The stalled check finds an active job without a lock: back to the head of the
\* wait list, or failed once it has stalled too often.
RecoverStalled(e) ==
  /\ jobState[e] = "active"
  /\ lock[e] = NoWorker
  /\ stalls' = [stalls EXCEPT ![e] = @ + 1]
  /\ IF stalls[e] + 1 > MaxStalled
     THEN /\ jobState' = [jobState EXCEPT ![e] = "failed"]
          /\ UNCHANGED queue
     ELSE /\ jobState' = [jobState EXCEPT ![e] = "waiting"]
          /\ queue' = <<e>> \o queue
  /\ UNCHANGED <<db, broker, attemptsMade, lock, pc, local, budget>>

-----------------------------------------------------------------------------
(* processTradeEvent.                                                      *)

\* Mutant: the early return for a processed event is missing.
LoadEventAlways(w) ==
  /\ pc[w] = "load"
  /\ Goto(w, "mark")
  /\ UNCHANGED <<db, jobs, broker, local, budget>>

\* Mutant: an event another run has started is left alone too.
LoadEventOnce(w) ==
  /\ pc[w] = "load"
  /\ Goto(w, IF eventStatus[ev[w]] \in {"PROCESSING", "PROCESSED"} THEN "done" ELSE "mark")
  /\ UNCHANGED <<db, jobs, broker, local, budget>>

\* The event is read; one already processed is left alone.
LoadEvent(w) ==
  /\ pc[w] = "load"
  /\ Goto(w, IF eventStatus[ev[w]] = "PROCESSED" THEN "done" ELSE "mark")
  /\ UNCHANGED <<db, jobs, broker, local, budget>>

MarkProcessing(w) ==
  /\ pc[w] = "mark"
  /\ eventStatus' = [eventStatus EXCEPT ![ev[w]] = "PROCESSING"]
  /\ Goto(w, "snapshot")
  /\ UNCHANGED <<row, mapping, openTrades, copyStatus, breached, jobs, broker, local, budget>>

\* The subscriptions that copy now; the loop works from this list to its end.
Snapshot(w) ==
  /\ pc[w] = "snapshot"
  /\ todo' = [todo EXCEPT ![w] = {a \in Accounts : copyStatus[a] = "COPYING"}]
  /\ Goto(w, "loop")
  /\ UNCHANGED <<db, jobs, broker, ev, mem, seen, budget>>

\* The next member, whose provider session is established first.
NextCopy(w) ==
  /\ pc[w] = "loop"
  /\ \E a \in todo[w] :
       /\ todo' = [todo EXCEPT ![w] = @ \ {a}]
       /\ mem' = [mem EXCEPT ![w] = a]
  /\ Goto(w, "claim")
  /\ UNCHANGED <<db, jobs, broker, ev, seen, budget>>

\* No member left.
EndLoop(w) ==
  /\ pc[w] = "loop"
  /\ todo[w] = {}
  /\ Goto(w, "finish")
  /\ UNCHANGED <<db, jobs, broker, local, budget>>

MarkProcessed(w) ==
  /\ pc[w] = "finish"
  /\ eventStatus' = [eventStatus EXCEPT ![ev[w]] = "PROCESSED"]
  /\ Goto(w, "done")
  /\ UNCHANGED <<row, mapping, openTrades, copyStatus, breached, jobs, broker, local, budget>>

-----------------------------------------------------------------------------
(* copyToMember: the row is the lock.                                      *)

\* Mutant: the row is upserted, as if the constraint were not there.
UpsertRow(w) ==
  /\ pc[w] = "claim"
  /\ row' = [row EXCEPT ![Copy(w)] = "PENDING"]
  /\ Goto(w, IF Kind[ev[w]] = "OPEN" THEN "open" ELSE "adjust")
  /\ UNCHANGED <<eventStatus, mapping, openTrades, copyStatus, breached>>
  /\ UNCHANGED <<jobs, broker, local, budget>>

CreateRow(w) ==
  /\ pc[w] = "claim"
  /\ row[Copy(w)] = "none"
  /\ row' = [row EXCEPT ![Copy(w)] = "PENDING"]
  /\ Goto(w, IF Kind[ev[w]] = "OPEN" THEN "open" ELSE "adjust")
  /\ UNCHANGED <<eventStatus, mapping, openTrades, copyStatus, breached>>
  /\ UNCHANGED <<jobs, broker, local, budget>>

\* The unique constraint refuses a second row: no order is sent.
DuplicateSuppressed(w) ==
  /\ pc[w] = "claim"
  /\ row[Copy(w)] # "none"
  /\ NextMember(w)
  /\ UNCHANGED <<db, jobs, broker, budget>>

\* One update of the row's status.
WriteRow(w, from, status, step) ==
  /\ pc[w] = from
  /\ row' = [row EXCEPT ![Copy(w)] = status]
  /\ Goto(w, step)
  /\ UNCHANGED <<eventStatus, mapping, openTrades, copyStatus, breached>>
  /\ UNCHANGED <<jobs, broker, local, budget>>

SkipRow(w) == WriteRow(w, "skip", "SKIPPED", "stamp")

\* Mutant: any answer of the broker is taken for a fill.
AcceptRow(w) == WriteRow(w, "reject", "SUCCESS", "stamp")

RejectRow(w) == WriteRow(w, "reject", "FAILED", "stamp")

\* The latency update that ends copyToMember.
StampLatency(w) ==
  /\ pc[w] = "stamp"
  /\ NextMember(w)
  /\ UNCHANGED <<db, jobs, broker, budget>>

\* The catch of copyToMember: whatever the row said, it is FAILED now.
FailRow(w) ==
  /\ pc[w] = "failrow"
  /\ row' = [row EXCEPT ![Copy(w)] = "FAILED"]
  /\ NextMember(w)
  /\ UNCHANGED <<eventStatus, mapping, openTrades, copyStatus, breached, jobs, broker, budget>>

-----------------------------------------------------------------------------
(* openForMember.                                                          *)

\* Live positions are read: one that carries this copy's id is the order of an
\* earlier attempt.  Otherwise settings, symbol and lot size admit it or not.
ReadPositions(w) ==
  /\ pc[w] = "open"
  /\ LET landed == {p \in live : p.copy = Copy(w)} IN
     IF landed # {}
     THEN /\ \E p \in landed : seen' = [seen EXCEPT ![w] = p]
          /\ Goto(w, "fill")
     ELSE /\ \E step \in {"risk", "skip"} : Goto(w, step)
          /\ UNCHANGED seen
  /\ UNCHANGED <<db, jobs, broker, ev, todo, mem, budget>>

\* loadRiskState, which clears a breach of an earlier trading day, and
\* evaluateRisk, which refuses a breached account whatever else it finds.
CheckRisk(w) ==
  /\ pc[w] = "risk"
  /\ \E newDay \in BOOLEAN :
       LET standing == breached[mem[w]] /\ ~newDay IN
       /\ breached' = [breached EXCEPT ![mem[w]] = standing]
       /\ \E step \in (IF standing THEN {"skip"} ELSE {"send", "skip", "breach"}) : Goto(w, step)
  /\ UNCHANGED <<eventStatus, row, mapping, openTrades, copyStatus, jobs, broker, local, budget>>

\* pauseForBreach: the subscription and the risk state in one transaction.
PauseForBreach(w) ==
  /\ pc[w] = "breach"
  /\ copyStatus' = [copyStatus EXCEPT ![mem[w]] = "PAUSED"]
  /\ breached' = [breached EXCEPT ![mem[w]] = TRUE]
  /\ Goto(w, "skip")
  /\ UNCHANGED <<eventStatus, row, mapping, openTrades, jobs, broker, local, budget>>

NewPosition(w) == [copy |-> Copy(w), nth |-> orders[Copy(w)] + 1, gen |-> 0]

\* The broker executes the order, whether or not the answer comes back.
Execute(w) ==
  /\ live' = live \cup {NewPosition(w)}
  /\ orders' = [orders EXCEPT ![Copy(w)] = @ + 1]

OrderExecuted(w) ==
  /\ pc[w] = "send"
  /\ Execute(w)
  /\ seen' = [seen EXCEPT ![w] = NewPosition(w)]
  /\ Goto(w, "fill")
  /\ UNCHANGED <<db, jobs, ev, todo, mem, budget>>

OrderRejected(w) ==
  /\ pc[w] = "send"
  /\ Goto(w, "reject")
  /\ UNCHANGED <<db, jobs, broker, local, budget>>

\* The order is executed and the call throws: the connection dropped.
OrderAnswerLost(w) ==
  /\ pc[w] = "send"
  /\ throws < MaxThrows
  /\ throws' = throws + 1
  /\ Execute(w)
  /\ Goto(w, "failrow")
  /\ UNCHANGED <<db, jobs, local, crashes, lostLocks>>

\* recordFill: three writes, no transaction.
FillRow(w) == WriteRow(w, "fill", "SUCCESS", "map")

FillMapping(w) ==
  /\ pc[w] = "map"
  /\ mapping' = [mapping EXCEPT ![Slot(w)] = [ticket |-> seen[w], status |-> "OPEN"]]
  /\ Goto(w, "count")
  /\ UNCHANGED <<eventStatus, row, openTrades, copyStatus, breached, jobs, broker, local, budget>>

FillCount(w) ==
  /\ pc[w] = "count"
  /\ openTrades' = [openTrades EXCEPT ![mem[w]] = @ + 1]
  /\ Goto(w, "stamp")
  /\ UNCHANGED <<eventStatus, row, mapping, copyStatus, breached, jobs, broker, local, budget>>

-----------------------------------------------------------------------------
(* adjustForMember.                                                        *)

\* Mutant: only an OPEN mapping counts, not one partly closed.
ReadOpenMapping(w) ==
  /\ pc[w] = "adjust"
  /\ IF mapping[Slot(w)].status # "OPEN"
     THEN Goto(w, "skip") /\ UNCHANGED seen
     ELSE /\ Goto(w, "act")
          /\ seen' = [seen EXCEPT ![w] = mapping[Slot(w)].ticket]
  /\ UNCHANGED <<db, jobs, broker, ev, todo, mem, budget>>

ReadMapping(w) ==
  /\ pc[w] = "adjust"
  /\ IF mapping[Slot(w)].status \in {"none", "CLOSED"}
     THEN Goto(w, "skip") /\ UNCHANGED seen
     ELSE /\ Goto(w, "act")
          /\ seen' = [seen EXCEPT ![w] = mapping[Slot(w)].ticket]
  /\ UNCHANGED <<db, jobs, broker, ev, todo, mem, budget>>

\* The position is gone, or the broker declines.
AdjustRejected(w) ==
  /\ pc[w] = "act"
  /\ Goto(w, "reject")
  /\ UNCHANGED <<db, jobs, broker, local, budget>>

Remainder(p) == [p EXCEPT !.gen = @ + 1]

\* The broker's answer to a modify, close or partial close of live position p:
\* what is live after it, the ticket that goes on, and the code's next step.  A
\* partial close of the whole volume closes the ticket without a remainder.
AdjustOutcomes(p, kind, account) ==
  CASE kind = "MODIFY" -> {<<live, p, "settle">>}
    [] kind = "CLOSE"  -> {<<live \ {p}, p, "close">>}
    [] OTHER ->
         {<<live \ {p}, p, "partial">>,
          IF account \in MT4
          THEN <<(live \ {p}) \cup {Remainder(p)}, Remainder(p), "remap">>
          ELSE <<live, p, "partial">>}

AdjustExecuted(w) ==
  /\ pc[w] = "act"
  /\ seen[w] \in live
  /\ \E o \in AdjustOutcomes(seen[w], Kind[ev[w]], mem[w]) :
       /\ live' = o[1]
       /\ seen' = [seen EXCEPT ![w] = o[2]]
       /\ Goto(w, o[3])
  /\ UNCHANGED <<db, jobs, orders, ev, todo, mem, budget>>

\* The broker acts and the call throws.
AdjustAnswerLost(w) ==
  /\ pc[w] = "act"
  /\ seen[w] \in live
  /\ throws < MaxThrows
  /\ throws' = throws + 1
  /\ \E o \in AdjustOutcomes(seen[w], Kind[ev[w]], mem[w]) : live' = o[1]
  /\ Goto(w, "failrow")
  /\ UNCHANGED <<db, jobs, orders, local, crashes, lostLocks>>

WriteMapping(w, from, m, step) ==
  /\ pc[w] = from
  /\ mapping' = [mapping EXCEPT ![Slot(w)] = m]
  /\ Goto(w, step)
  /\ UNCHANGED <<eventStatus, row, openTrades, copyStatus, breached, jobs, broker, local, budget>>

\* Mutant: the mapping keeps the ticket the broker retired.
KeepTicket(w) ==
  WriteMapping(w, "remap", [mapping[Slot(w)] EXCEPT !.status = "PARTIALLY_CLOSED"], "settle")

RemapTicket(w) ==
  WriteMapping(w, "remap", [ticket |-> seen[w], status |-> "PARTIALLY_CLOSED"], "settle")

ReduceMapping(w) ==
  WriteMapping(w, "partial", [mapping[Slot(w)] EXCEPT !.status = "PARTIALLY_CLOSED"], "settle")

CloseMapping(w) ==
  WriteMapping(w, "close", [mapping[Slot(w)] EXCEPT !.status = "CLOSED"], "uncount")

CloseCount(w) ==
  /\ pc[w] = "uncount"
  /\ openTrades' = [openTrades EXCEPT ![mem[w]] = @ - 1]
  /\ Goto(w, "settle")
  /\ UNCHANGED <<eventStatus, row, mapping, copyStatus, breached, jobs, broker, local, budget>>

SettleRow(w) == WriteRow(w, "settle", "SUCCESS", "stamp")

-----------------------------------------------------------------------------
(* Failures.                                                               *)

\* A database call throws in processTradeEvent itself: the job fails.
JobThrows(w) ==
  /\ pc[w] \in {"load", "mark", "snapshot", "finish"}
  /\ throws < MaxThrows
  /\ throws' = throws + 1
  /\ FailJob(w)
  /\ UNCHANGED <<db, broker, crashes, lostLocks>>

\* A call throws before the row exists (session, symbol, insert) or in the
\* catch of copyToMember: the loop counts the member as failed and goes on.
MemberThrows(w) ==
  /\ pc[w] \in {"claim", "failrow"}
  /\ throws < MaxThrows
  /\ throws' = throws + 1
  /\ NextMember(w)
  /\ UNCHANGED <<db, jobs, broker, crashes, lostLocks>>

\* A call throws inside the try of copyToMember, without effect.
CopyThrows(w) ==
  /\ pc[w] \in BodyPC
  /\ throws < MaxThrows
  /\ throws' = throws + 1
  /\ Goto(w, "failrow")
  /\ UNCHANGED <<db, jobs, broker, local, crashes, lostLocks>>

\* The worker process dies: its memory is lost and its job locks expire.
Crash(w) ==
  /\ pc[w] # "idle"
  /\ crashes < MaxCrashes
  /\ crashes' = crashes + 1
  /\ lock' = [e \in Events |-> IF lock[e] = w THEN NoWorker ELSE lock[e]]
  /\ Release(w)
  /\ UNCHANGED <<db, broker, queue, jobState, attemptsMade, stalls, lostLocks, throws>>

\* The lock of a job expires under a worker that is merely slow.
LoseLock(w) ==
  /\ pc[w] # "idle"
  /\ lock[ev[w]] = w
  /\ lostLocks < MaxLostLocks
  /\ lostLocks' = lostLocks + 1
  /\ lock' = [lock EXCEPT ![ev[w]] = NoWorker]
  /\ UNCHANGED <<db, broker, queue, jobState, attemptsMade, stalls, pc, local, crashes, throws>>

-----------------------------------------------------------------------------
(* Members and broker.                                                     *)

MemberPauses(a) ==
  /\ copyStatus[a] = "COPYING"
  /\ copyStatus' = [copyStatus EXCEPT ![a] = "PAUSED"]
  /\ UNCHANGED <<eventStatus, row, mapping, openTrades, breached, jobs, broker, pc, local, budget>>

MemberStarts(a) ==
  /\ copyStatus[a] = "PAUSED"
  /\ copyStatus' = [copyStatus EXCEPT ![a] = "COPYING"]
  /\ UNCHANGED <<eventStatus, row, mapping, openTrades, breached, jobs, broker, pc, local, budget>>

\* A stop, a target or the member's own terminal ends a position.
ClosedOutside ==
  /\ \E p \in live : live' = live \ {p}
  /\ UNCHANGED <<db, jobs, orders, pc, local, budget>>

-----------------------------------------------------------------------------

\* What a worker does when nothing fails.
WorkerStep(w) ==
  \/ LoadEvent(w) \/ MarkProcessing(w) \/ Snapshot(w) \/ NextCopy(w) \/ EndLoop(w)
  \/ MarkProcessed(w) \/ CompleteJob(w)
  \/ CreateRow(w) \/ DuplicateSuppressed(w) \/ SkipRow(w) \/ RejectRow(w)
  \/ StampLatency(w) \/ FailRow(w)
  \/ ReadPositions(w) \/ CheckRisk(w) \/ PauseForBreach(w)
  \/ OrderExecuted(w) \/ OrderRejected(w) \/ FillRow(w) \/ FillMapping(w) \/ FillCount(w)
  \/ ReadMapping(w) \/ AdjustExecuted(w) \/ AdjustRejected(w) \/ RemapTicket(w)
  \/ ReduceMapping(w) \/ CloseMapping(w) \/ CloseCount(w) \/ SettleRow(w)

WorkerFails(w) ==
  \/ OrderAnswerLost(w) \/ AdjustAnswerLost(w) \/ JobThrows(w) \/ MemberThrows(w)
  \/ CopyThrows(w) \/ Crash(w) \/ LoseLock(w)

Next ==
  \/ \E e \in Events : Publish(e) \/ Promote(e) \/ RecoverStalled(e)
  \/ \E w \in Workers : TakeJob(w) \/ WorkerStep(w) \/ WorkerFails(w)
  \/ \E a \in Accounts : MemberPauses(a) \/ MemberStarts(a)
  \/ ClosedOutside

Spec == Init /\ [][Next]_vars

\* Live workers take jobs and finish what they started; BullMQ promotes delayed
\* jobs and checks for stalled ones.  Nothing obliges a member, the master, the
\* broker or a failure to act.
Fairness ==
  /\ \A w \in Workers : WF_vars(TakeJob(w)) /\ WF_vars(WorkerStep(w))
  /\ \A e \in Events : WF_vars(Promote(e)) /\ WF_vars(RecoverStalled(e))

FairSpec == Spec /\ Fairness
-----------------------------------------------------------------------------
(* Properties that hold whatever fails, at any concurrency.                *)

\* At most one order is ever executed for a copy, across duplicate jobs,
\* retries, crashed workers and lost locks: what the unique constraint on
\* (eventId, accountId), taken before the order is sent, is there for.
AtMostOneOrder == \A c \in Copies : orders[c] <= 1

\* A copy shown to the member as SKIPPED never had an order executed.
SkippedMeansNoOrder == \A c \in Copies : row[c] = "SKIPPED" => orders[c] = 0

\* A copied open is recorded SUCCESS only if an order was executed for it.
SuccessMeansFilled ==
  \A c \in Copies : (Kind[c[1]] = "OPEN" /\ row[c] = "SUCCESS") => orders[c] > 0

\* The history a member reads (CopyTrade.status) is true of the broker: a skipped copy was
\* never ordered, a successful open was.
RowsAreTrue == SkippedMeansNoOrder /\ SuccessMeansFilled

\* A verdict is given once: no later run of the event, nor a retry, takes a
\* FAILED copy back to PENDING or SUCCESS or re-opens a skipped one.  (A throw
\* after the verdict still turns it into FAILED.)
VerdictStands ==
  [][\A c \in Copies :
       row[c] \in {"SUCCESS", "SKIPPED", "FAILED"} => row'[c] \in {row[c], "FAILED"}]_vars

\* Crashes alone (no lock lost by a live worker) never take a processed event
\* back into processing, even when the job is run again after the crash.
ProcessedIsFinal ==
  [][\A e \in Events : eventStatus[e] = "PROCESSED" => eventStatus'[e] = "PROCESSED"]_vars

\* Row by row and order by order, the engine does what CopyLedger allows.
Promise == INSTANCE CopyLedger WITH Opens <- {c \in Copies : Kind[c[1]] = "OPEN"}

PromiseKept == Promise!Spec

-----------------------------------------------------------------------------
(* The inductive invariant behind the three invariants above: what a worker *)
(* at each step relies on about the copy it holds.                          *)

\* Steps from which the row is still to be given its verdict.
PendingPC == BodyPC \ {"map", "count", "stamp"}
\* Steps before any order of the copy.
UnsentPC == BeforeOrder \cup {"adjust", "skip"}

Duty(step, c) ==
  /\ step \in HoldPC => row[c] # "none"
  /\ step \in PendingPC => row[c] = "PENDING"
  /\ step \in UnsentPC => orders[c] = 0
  /\ step \in AfterOrder => orders[c] > 0
  /\ step \in AdjustPC => Kind[c[1]] # "OPEN"

Ledger(c) ==
  /\ row[c] = "none" => orders[c] = 0
  /\ orders[c] <= 1
  /\ row[c] = "SKIPPED" => orders[c] = 0
  /\ (Kind[c[1]] = "OPEN" /\ row[c] = "SUCCESS") => orders[c] > 0

\* A copy is held by one worker, who keeps its duty; the ledger is right for
\* every copy; and a position at the broker comes from an order of its copy.
CopyInvariant ==
  /\ \A v, w \in Workers :
       (pc[v] \in HoldPC /\ pc[w] \in HoldPC /\ Copy(v) = Copy(w)) => v = w
  /\ \A w \in Workers : pc[w] \in HoldPC => Duty(pc[w], Copy(w))
  /\ \A c \in Copies : Ledger(c)
  /\ \A p \in live : orders[p.copy] > 0

-----------------------------------------------------------------------------
(* Properties of the engine when no call throws and no worker dies.        *)

\* Between two copies on an account, every position the platform opened there
\* is the one the account's mapping names, so a later CLOSE can find it.
Tracked ==
  \A p \in live :
    LET m == mapping[<<p.copy[2], Ticket[p.copy[1]]>>] IN
    ~Busy(p.copy[2]) => m.ticket = p /\ m.status \in {"OPEN", "PARTIALLY_CLOSED"}

\* Between two copies, the cached count of open trades is the number of
\* mappings that are open.
OpenTradesCountMappings ==
  \A a \in Accounts :
    ~Busy(a) => openTrades[a] =
      Cardinality({t \in Tickets : mapping[<<a, t>>].status \in {"OPEN", "PARTIALLY_CLOSED"}})

\* An adjustment is skipped for a member only if the member holds nothing of
\* that master position.
SkippedMeansNothingHeld ==
  \A e \in Events, p \in live :
    (/\ Kind[e] # "OPEN"
     /\ row[<<e, p.copy[2]>>] = "SKIPPED"
     /\ Ticket[e] = Ticket[p.copy[1]]) => e < p.copy[1]

\* What the database says of an account agrees with the broker and with itself, so that
\* the limits read from it (openForMember, maxOpenTrades) are taken of the truth.
BooksAgree == Tracked /\ OpenTradesCountMappings

-----------------------------------------------------------------------------
(* Liveness.                                                               *)

\* Every published event is processed, or its job is failed by the queue after
\* its attempts or stalls are used up: crashes and throws never strand it.
EventuallySettled ==
  \A e \in Events :
    eventStatus[e] # "none" ~> (eventStatus[e] = "PROCESSED" \/ jobState[e] = "failed")

\* A copy is left PENDING for ever only by a crash, or by two throws in one copy
\* (the second in the catch that would record the first).
PendingIsSettled ==
  \A c \in Copies :
    row[c] = "PENDING" ~> (row[c] # "PENDING" \/ crashes > 0 \/ throws > 1)

\* The worker leaves nothing behind: the events of processTradeEvent and the copies of
\* copyToMember both come to an end.
JobsSettle == EventuallySettled /\ PendingIsSettled
=============================================================================
