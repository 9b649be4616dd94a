-------------------------- MODULE CopyEngineProofs --------------------------
(* Proofs about CopyEngine for every number of events, accounts, tickets and *)
(* workers, and every bound on the failures.                                 *)
EXTENDS CopyEngine, FiniteSetTheorems, TLAPS

LEMMA TypeInit == Init => TypeOK
BY EventsAssumption
   DEF Init, TypeOK, StoreType, WorkerType, RowStatus, MappingStatus, MappingType, JobState,
       PC, JobPC, HoldPC, BodyPC, AdjustPC, BeforeOrder, AfterOrder, Copies

\* The names of the steps of a worker, one set inside the other.
LEMMA Steps ==
  /\ {"idle", "claim"} \cup JobPC \cup HoldPC = PC
  /\ HoldPC = BodyPC \cup {"failrow"}
  /\ "idle" \notin HoldPC /\ "claim" \notin HoldPC
  /\ JobPC \cap HoldPC = {}
  /\ {"skip", "reject", "stamp"} \cup BeforeOrder \cup AfterOrder \cup AdjustPC = BodyPC
BY DEF PC, HoldPC, BodyPC, AdjustPC, BeforeOrder, AfterOrder, JobPC

\* A worker that goes on to another step keeps its memory well typed, if it has
\* an event and, in the body of the member loop, a member.
LEMMA GotoType ==
  ASSUME WorkerType, NEW w \in Workers, NEW step \in PC, Goto(w, step),
         step # "idle" => ev[w] \in Events,
         step \in HoldPC \cup {"claim"} => mem[w] \in Accounts,
         UNCHANGED <<ev, todo, mem>>,
         seen' \in [Workers -> Position \cup {NoPosition}]
  PROVE  WorkerType'
BY DEF WorkerType, Goto

LEMMA NextMemberType ==
  ASSUME WorkerType, NEW w \in Workers, NextMember(w), ev[w] \in Events
  PROVE  WorkerType'
BY Steps DEF WorkerType, Goto, NextMember, JobPC

LEMMA ReleaseType ==
  ASSUME WorkerType, NEW w \in Workers, Release(w)
  PROVE  WorkerType'
BY Steps DEF WorkerType, Goto, Release

LEMMA MemoryType ==
  ASSUME TypeOK, NEW w \in Workers
  PROVE  /\ pc[w] # "idle" => ev[w] \in Events
         /\ pc[w] \in HoldPC \cup {"claim"} => mem[w] \in Accounts
         /\ pc[w] \in PC /\ pc \in [Workers -> PC]
BY DEF TypeOK, WorkerType

\* What the broker answers to an adjustment is a set of positions, a position
\* and a step of adjustForMember.
LEMMA OutcomeType ==
  ASSUME live \in SUBSET Position, NEW p \in live, NEW kind, NEW account,
         NEW o \in AdjustOutcomes(p, kind, account)
  PROVE  /\ o[1] \in SUBSET Position
         /\ o[2] \in Position
         /\ o[3] \in {"settle", "close", "partial", "remap"}
<1>1. p \in Position /\ Remainder(p) \in Position
  BY DEF Position, Remainder
<1> QED
  BY <1>1 DEF AdjustOutcomes

LEMMA TypeNext == TypeOK /\ [Next]_vars => TypeOK'
<1> SUFFICES ASSUME TypeOK, Next PROVE TypeOK'
  BY DEF TypeOK, StoreType, WorkerType, vars, db, jobs, broker, local, budget
<1> USE DEF TypeOK
<1>1. ASSUME NEW e \in Events, Publish(e) PROVE TypeOK'
  <2>1. StoreType'
    BY <1>1 DEF Publish, StoreType, db, jobs, broker, local, budget, JobState
  <2>2. WorkerType'
    BY <1>1 DEF Publish, WorkerType, local
  <2> QED
    BY <2>1, <2>2
<1>2. ASSUME NEW e \in Events, Promote(e) PROVE TypeOK'
  <2>1. StoreType'
    BY <1>2 DEF Promote, StoreType, db, jobs, broker, local, budget, JobState
  <2>2. WorkerType'
    BY <1>2 DEF Promote, WorkerType, local
  <2> QED
    BY <2>1, <2>2
<1>3. ASSUME NEW e \in Events, RecoverStalled(e) PROVE TypeOK'
  <2>1. queue \in Seq(Events) /\ <<e>> \o queue \in Seq(Events)
    BY DEF StoreType
  <2>2. queue' \in Seq(Events)
    <3>1. queue' = queue \/ queue' = <<e>> \o queue
      BY <1>3 DEF RecoverStalled
    <3> QED
      BY <2>1, <3>1
  <2>3. jobState' \in [Events -> JobState]
    <3>1. \E s \in {"failed", "waiting"} : jobState' = [jobState EXCEPT ![e] = s]
      BY <1>3 DEF RecoverStalled
    <3> QED
      BY <3>1 DEF StoreType, JobState
  <2>6. stalls' \in [Events -> Nat]
    BY <1>3 DEF RecoverStalled, StoreType
  <2>4. StoreType'
    BY <1>3, <2>2, <2>3, <2>6 DEF RecoverStalled, StoreType, db, broker, budget
  <2>5. WorkerType'
    BY <1>3 DEF RecoverStalled, WorkerType, local
  <2> QED
    BY <2>4, <2>5
<1>4. ASSUME NEW w \in Workers, TakeJob(w) PROVE TypeOK'
  <2>1. queue \in Seq(Events) /\ queue # <<>> /\ Head(queue) \in Events /\ Tail(queue) \in Seq(Events)
    BY <1>4 DEF TakeJob, StoreType
  <2>2. StoreType'
    BY <1>4, <2>1 DEF TakeJob, StoreType, db, jobs, broker, local, budget, JobState
  <2>3. WorkerType'
    BY <1>4, <2>1 DEF TakeJob, WorkerType, Goto, PC, JobPC, HoldPC, BodyPC, AdjustPC,
                      BeforeOrder, AfterOrder
  <2> QED
    BY <2>2, <2>3
<1>5. ASSUME NEW w \in Workers, WorkerStep(w) PROVE TypeOK'
  <2>1. CASE LoadEvent(w)
    <3>1. StoreType'
      BY <2>1, MemoryType DEF LoadEvent, StoreType, db, jobs, broker, local, budget, PC,
         JobPC, HoldPC, BodyPC, AdjustPC, BeforeOrder, AfterOrder
    <3>2. WorkerType'
      BY <2>1, MemoryType, GotoType DEF LoadEvent, WorkerType, local, PC, JobPC, HoldPC,
         BodyPC, AdjustPC, BeforeOrder, AfterOrder
    <3> QED
      BY <3>1, <3>2 DEF TypeOK
  <2>2. CASE MarkProcessing(w)
    <3>1. StoreType'
      BY <2>2, MemoryType DEF MarkProcessing, StoreType, db, jobs, broker, local, budget,
         PC, JobPC, HoldPC, BodyPC, AdjustPC, BeforeOrder, AfterOrder
    <3>2. WorkerType'
      BY <2>2, MemoryType, GotoType DEF MarkProcessing, WorkerType, local, PC, JobPC,
         HoldPC, BodyPC, AdjustPC, BeforeOrder, AfterOrder
    <3> QED
      BY <3>1, <3>2 DEF TypeOK
  <2>3. CASE Snapshot(w)
    <3>1. StoreType'
      BY <2>3, MemoryType DEF Snapshot, StoreType, db, jobs, broker, local, budget, PC,
         JobPC, HoldPC, BodyPC, AdjustPC, BeforeOrder, AfterOrder
    <3>2. WorkerType'
      BY <2>3 DEF Snapshot, WorkerType, Goto, PC, JobPC, HoldPC, BodyPC, AdjustPC,
         BeforeOrder, AfterOrder
    <3> QED
      BY <3>1, <3>2 DEF TypeOK
  <2>4. CASE NextCopy(w)
    <3>1. StoreType'
      BY <2>4, MemoryType DEF NextCopy, StoreType, db, jobs, broker, local, budget, PC,
         JobPC, HoldPC, BodyPC, AdjustPC, BeforeOrder, AfterOrder
    <3>2. WorkerType'
      BY <2>4 DEF NextCopy, WorkerType, Goto, PC, JobPC, HoldPC, BodyPC, AdjustPC,
         BeforeOrder, AfterOrder
    <3> QED
      BY <3>1, <3>2 DEF TypeOK
  <2>5. CASE EndLoop(w)
    <3>1. StoreType'
      BY <2>5, MemoryType DEF EndLoop, StoreType, db, jobs, broker, local, budget, PC,
         JobPC, HoldPC, BodyPC, AdjustPC, BeforeOrder, AfterOrder
    <3>2. WorkerType'
      BY <2>5, MemoryType, GotoType DEF EndLoop, WorkerType, local, PC, JobPC, HoldPC,
         BodyPC, AdjustPC, BeforeOrder, AfterOrder
    <3> QED
      BY <3>1, <3>2 DEF TypeOK
  <2>6. CASE MarkProcessed(w)
    <3>1. StoreType'
      BY <2>6, MemoryType DEF MarkProcessed, StoreType, db, jobs, broker, local, budget,
         PC, JobPC, HoldPC, BodyPC, AdjustPC, BeforeOrder, AfterOrder
    <3>2. WorkerType'
      BY <2>6, MemoryType, GotoType DEF MarkProcessed, WorkerType, local, PC, JobPC,
         HoldPC, BodyPC, AdjustPC, BeforeOrder, AfterOrder
    <3> QED
      BY <3>1, <3>2 DEF TypeOK
  <2>7. CASE CompleteJob(w)
    <3>1. StoreType'
      BY <2>7, MemoryType DEF CompleteJob, StoreType, db, jobs, broker, local, budget,
         JobState, PC, JobPC, HoldPC, BodyPC, AdjustPC, BeforeOrder, AfterOrder
    <3>2. WorkerType'
      BY <2>7, ReleaseType DEF CompleteJob
    <3> QED
      BY <3>1, <3>2 DEF TypeOK
  <2>8. CASE CreateRow(w)
    <3>1. StoreType'
      BY <2>8, MemoryType DEF CreateRow, StoreType, db, jobs, broker, local, budget,
         RowStatus, Copies, Copy, PC, JobPC, HoldPC, BodyPC, AdjustPC, BeforeOrder,
         AfterOrder
    <3>2. WorkerType'
      BY <2>8, MemoryType, GotoType DEF CreateRow, WorkerType, local, PC, JobPC, HoldPC,
         BodyPC, AdjustPC, BeforeOrder, AfterOrder
    <3> QED
      BY <3>1, <3>2 DEF TypeOK
  <2>9. CASE DuplicateSuppressed(w)
    <3>1. StoreType'
      BY <2>9, MemoryType DEF DuplicateSuppressed, StoreType, db, jobs, broker, local,
         budget, PC, JobPC, HoldPC, BodyPC, AdjustPC, BeforeOrder, AfterOrder
    <3>2. WorkerType'
      BY <2>9, MemoryType, NextMemberType DEF DuplicateSuppressed, PC, JobPC, HoldPC,
         BodyPC, AdjustPC, BeforeOrder, AfterOrder
    <3> QED
      BY <3>1, <3>2 DEF TypeOK
  <2>10. CASE SkipRow(w)
    <3>1. StoreType'
      BY <2>10, MemoryType DEF SkipRow, WriteRow, StoreType, db, jobs, broker, local,
         budget, RowStatus, Copies, Copy, PC, JobPC, HoldPC, BodyPC, AdjustPC,
         BeforeOrder, AfterOrder
    <3>2. WorkerType'
      BY <2>10, MemoryType, GotoType DEF SkipRow, WriteRow, WorkerType, local, PC, JobPC,
         HoldPC, BodyPC, AdjustPC, BeforeOrder, AfterOrder
    <3> QED
      BY <3>1, <3>2 DEF TypeOK
  <2>11. CASE RejectRow(w)
    <3>1. StoreType'
      BY <2>11, MemoryType DEF RejectRow, WriteRow, StoreType, db, jobs, broker, local,
         budget, RowStatus, Copies, Copy, PC, JobPC, HoldPC, BodyPC, AdjustPC,
         BeforeOrder, AfterOrder
    <3>2. WorkerType'
      BY <2>11, MemoryType, GotoType DEF RejectRow, WriteRow, WorkerType, local, PC,
         JobPC, HoldPC, BodyPC, AdjustPC, BeforeOrder, AfterOrder
    <3> QED
      BY <3>1, <3>2 DEF TypeOK
  <2>12. CASE StampLatency(w)
    <3>1. StoreType'
      BY <2>12, MemoryType DEF StampLatency, StoreType, db, jobs, broker, local, budget,
         PC, JobPC, HoldPC, BodyPC, AdjustPC, BeforeOrder, AfterOrder
    <3>2. WorkerType'
      BY <2>12, MemoryType, NextMemberType DEF StampLatency, PC, JobPC, HoldPC, BodyPC,
         AdjustPC, BeforeOrder, AfterOrder
    <3> QED
      BY <3>1, <3>2 DEF TypeOK
  <2>13. CASE FailRow(w)
    <3>1. StoreType'
      BY <2>13, MemoryType DEF FailRow, StoreType, db, jobs, broker, local, budget,
         RowStatus, Copies, Copy, PC, JobPC, HoldPC, BodyPC, AdjustPC, BeforeOrder,
         AfterOrder
    <3>2. WorkerType'
      BY <2>13, MemoryType, NextMemberType DEF FailRow, PC, JobPC, HoldPC, BodyPC,
         AdjustPC, BeforeOrder, AfterOrder
    <3> QED
      BY <3>1, <3>2 DEF TypeOK
  <2>14. CASE ReadPositions(w)
    <3>1. StoreType'
      BY <2>14 DEF ReadPositions, StoreType, db, jobs, broker, budget
    <3>2. PICK step \in {"fill", "risk", "skip"} : Goto(w, step)
      BY <2>14 DEF ReadPositions
    <3>3. seen' \in [Workers -> Position \cup {NoPosition}]
      BY <2>14 DEF ReadPositions, WorkerType, StoreType
    <3>4. WorkerType'
      BY <2>14, <3>2, <3>3, MemoryType, GotoType
         DEF ReadPositions, PC, JobPC, HoldPC, BodyPC, AdjustPC, BeforeOrder, AfterOrder
    <3> QED
      BY <3>1, <3>4 DEF TypeOK
  <2>15. CASE CheckRisk(w)
    <3>1. StoreType'
      BY <2>15, MemoryType DEF CheckRisk, StoreType, db, jobs, broker, local, budget, PC,
         JobPC, HoldPC, BodyPC, AdjustPC, BeforeOrder, AfterOrder
    <3>2. WorkerType'
      BY <2>15, MemoryType, GotoType DEF CheckRisk, WorkerType, local, PC, JobPC, HoldPC,
         BodyPC, AdjustPC, BeforeOrder, AfterOrder
    <3> QED
      BY <3>1, <3>2 DEF TypeOK
  <2>16. CASE PauseForBreach(w)
    <3>1. StoreType'
      BY <2>16, MemoryType DEF PauseForBreach, StoreType, db, jobs, broker, local, budget,
         PC, JobPC, HoldPC, BodyPC, AdjustPC, BeforeOrder, AfterOrder
    <3>2. WorkerType'
      BY <2>16, MemoryType, GotoType DEF PauseForBreach, WorkerType, local, PC, JobPC,
         HoldPC, BodyPC, AdjustPC, BeforeOrder, AfterOrder
    <3> QED
      BY <3>1, <3>2 DEF TypeOK
  <2>17. CASE OrderExecuted(w)
    <3>1. NewPosition(w) \in Position
      BY <2>17, MemoryType DEF OrderExecuted, NewPosition, Position, StoreType, Copies,
         Copy, PC, JobPC, HoldPC, BodyPC, AdjustPC, BeforeOrder, AfterOrder
    <3>2. StoreType'
      BY <2>17, <3>1, MemoryType DEF OrderExecuted, Execute, StoreType, db, jobs, broker,
         local, budget, Copies, Copy, PC, JobPC, HoldPC, BodyPC, AdjustPC, BeforeOrder,
         AfterOrder
    <3>3. WorkerType'
      BY <2>17, <3>1, MemoryType, GotoType DEF OrderExecuted, WorkerType, local, PC,
         JobPC, HoldPC, BodyPC, AdjustPC, BeforeOrder, AfterOrder
    <3> QED
      BY <3>2, <3>3 DEF TypeOK
  <2>18. CASE OrderRejected(w)
    <3>1. StoreType'
      BY <2>18, MemoryType DEF OrderRejected, StoreType, db, jobs, broker, local, budget,
         PC, JobPC, HoldPC, BodyPC, AdjustPC, BeforeOrder, AfterOrder
    <3>2. WorkerType'
      BY <2>18, MemoryType, GotoType DEF OrderRejected, WorkerType, local, PC, JobPC,
         HoldPC, BodyPC, AdjustPC, BeforeOrder, AfterOrder
    <3> QED
      BY <3>1, <3>2 DEF TypeOK
  <2>19. CASE FillRow(w)
    <3>1. StoreType'
      BY <2>19, MemoryType DEF FillRow, WriteRow, StoreType, db, jobs, broker, local,
         budget, RowStatus, Copies, Copy, PC, JobPC, HoldPC, BodyPC, AdjustPC,
         BeforeOrder, AfterOrder
    <3>2. WorkerType'
      BY <2>19, MemoryType, GotoType DEF FillRow, WriteRow, WorkerType, local, PC, JobPC,
         HoldPC, BodyPC, AdjustPC, BeforeOrder, AfterOrder
    <3> QED
      BY <3>1, <3>2 DEF TypeOK
  <2>20. CASE FillMapping(w)
    <3>1. StoreType'
      BY <2>20, MemoryType, EventsAssumption DEF FillMapping, StoreType, db, jobs, broker,
         local, budget, MappingType, MappingStatus, WorkerType, Slot, PC, JobPC, HoldPC,
         BodyPC, AdjustPC, BeforeOrder, AfterOrder
    <3>2. WorkerType'
      BY <2>20, MemoryType, GotoType DEF FillMapping, WorkerType, local, PC, JobPC,
         HoldPC, BodyPC, AdjustPC, BeforeOrder, AfterOrder
    <3> QED
      BY <3>1, <3>2 DEF TypeOK
  <2>21. CASE FillCount(w)
    <3>1. StoreType'
      BY <2>21, MemoryType DEF FillCount, StoreType, db, jobs, broker, local, budget, PC,
         JobPC, HoldPC, BodyPC, AdjustPC, BeforeOrder, AfterOrder
    <3>2. WorkerType'
      BY <2>21, MemoryType, GotoType DEF FillCount, WorkerType, local, PC, JobPC, HoldPC,
         BodyPC, AdjustPC, BeforeOrder, AfterOrder
    <3> QED
      BY <3>1, <3>2 DEF TypeOK
  <2>22. CASE ReadMapping(w)
    <3>1. StoreType'
      BY <2>22 DEF ReadMapping, StoreType, db, jobs, broker, budget
    <3>2. PICK step \in {"act", "skip"} : Goto(w, step)
      BY <2>22 DEF ReadMapping
    <3>3. mapping[Slot(w)] \in MappingType
      BY <2>22, MemoryType, EventsAssumption
         DEF ReadMapping, Slot, StoreType, HoldPC, BodyPC, AdjustPC
    <3>4. seen' \in [Workers -> Position \cup {NoPosition}]
      BY <2>22, <3>3 DEF ReadMapping, WorkerType, MappingType
    <3>5. WorkerType'
      BY <2>22, <3>2, <3>4, MemoryType, GotoType
         DEF ReadMapping, PC, JobPC, HoldPC, BodyPC, AdjustPC, BeforeOrder, AfterOrder
    <3> QED
      BY <3>1, <3>5 DEF TypeOK
  <2>23. CASE AdjustExecuted(w)
    <3>1. seen[w] \in live /\ live \in SUBSET Position
      BY <2>23 DEF AdjustExecuted, StoreType
    <3>2. PICK o \in AdjustOutcomes(seen[w], Kind[ev[w]], mem[w]) :
             /\ live' = o[1] /\ seen' = [seen EXCEPT ![w] = o[2]]
             /\ Goto(w, o[3])
      BY <2>23 DEF AdjustExecuted
    <3>3. /\ o[1] \in SUBSET Position /\ o[2] \in Position
          /\ o[3] \in {"settle", "close", "partial", "remap"}
      BY <3>1, OutcomeType
    <3>4. StoreType'
      BY <2>23, <3>2, <3>3 DEF AdjustExecuted, StoreType, db, jobs, broker, local, budget
    <3>5. WorkerType'
      BY <2>23, <3>2, <3>3, MemoryType, GotoType DEF AdjustExecuted, WorkerType, local,
         PC, JobPC, HoldPC, BodyPC, AdjustPC, BeforeOrder, AfterOrder
    <3> QED
      BY <3>4, <3>5 DEF TypeOK
  <2>24. CASE AdjustRejected(w)
    <3>1. StoreType'
      BY <2>24, MemoryType DEF AdjustRejected, StoreType, db, jobs, broker, local, budget,
         PC, JobPC, HoldPC, BodyPC, AdjustPC, BeforeOrder, AfterOrder
    <3>2. WorkerType'
      BY <2>24, MemoryType, GotoType DEF AdjustRejected, WorkerType, local, PC, JobPC,
         HoldPC, BodyPC, AdjustPC, BeforeOrder, AfterOrder
    <3> QED
      BY <3>1, <3>2 DEF TypeOK
  <2>25. CASE RemapTicket(w)
    <3>1. StoreType'
      BY <2>25, MemoryType, EventsAssumption DEF RemapTicket, WriteMapping, StoreType, db,
         jobs, broker, local, budget, MappingType, MappingStatus, WorkerType, Slot, PC,
         JobPC, HoldPC, BodyPC, AdjustPC, BeforeOrder, AfterOrder
    <3>2. WorkerType'
      BY <2>25, MemoryType, GotoType DEF RemapTicket, WriteMapping, WorkerType, local, PC,
         JobPC, HoldPC, BodyPC, AdjustPC, BeforeOrder, AfterOrder
    <3> QED
      BY <3>1, <3>2 DEF TypeOK
  <2>26. CASE ReduceMapping(w)
    <3>1. mapping[Slot(w)] \in MappingType
      BY <2>26, MemoryType, EventsAssumption
         DEF ReduceMapping, WriteMapping, Slot, StoreType, HoldPC, BodyPC, AdjustPC
    <3>2. [mapping[Slot(w)] EXCEPT !.status = "PARTIALLY_CLOSED"] \in MappingType
      BY <3>1 DEF MappingType, MappingStatus
    <3>3. StoreType'
      BY <2>26, <3>2 DEF ReduceMapping, WriteMapping, StoreType, jobs, broker, budget
    <3>4. WorkerType'
      BY <2>26, MemoryType, GotoType
         DEF ReduceMapping, WriteMapping, WorkerType, local, PC, JobPC, HoldPC, BodyPC, AdjustPC,
             BeforeOrder, AfterOrder
    <3> QED
      BY <3>3, <3>4 DEF TypeOK
  <2>27. CASE CloseMapping(w)
    <3>1. mapping[Slot(w)] \in MappingType
      BY <2>27, MemoryType, EventsAssumption
         DEF CloseMapping, WriteMapping, Slot, StoreType, HoldPC, BodyPC, AdjustPC
    <3>2. [mapping[Slot(w)] EXCEPT !.status = "CLOSED"] \in MappingType
      BY <3>1 DEF MappingType, MappingStatus
    <3>3. StoreType'
      BY <2>27, <3>2 DEF CloseMapping, WriteMapping, StoreType, jobs, broker, budget
    <3>4. WorkerType'
      BY <2>27, MemoryType, GotoType
         DEF CloseMapping, WriteMapping, WorkerType, local, PC, JobPC, HoldPC, BodyPC, AdjustPC,
             BeforeOrder, AfterOrder
    <3> QED
      BY <3>3, <3>4 DEF TypeOK
  <2>28. CASE CloseCount(w)
    <3>1. StoreType'
      BY <2>28, MemoryType DEF CloseCount, StoreType, db, jobs, broker, local, budget, PC,
         JobPC, HoldPC, BodyPC, AdjustPC, BeforeOrder, AfterOrder
    <3>2. WorkerType'
      BY <2>28, MemoryType, GotoType DEF CloseCount, WorkerType, local, PC, JobPC, HoldPC,
         BodyPC, AdjustPC, BeforeOrder, AfterOrder
    <3> QED
      BY <3>1, <3>2 DEF TypeOK
  <2>29. CASE SettleRow(w)
    <3>1. StoreType'
      BY <2>29, MemoryType DEF SettleRow, WriteRow, StoreType, db, jobs, broker, local,
         budget, RowStatus, Copies, Copy, PC, JobPC, HoldPC, BodyPC, AdjustPC,
         BeforeOrder, AfterOrder
    <3>2. WorkerType'
      BY <2>29, MemoryType, GotoType DEF SettleRow, WriteRow, WorkerType, local, PC,
         JobPC, HoldPC, BodyPC, AdjustPC, BeforeOrder, AfterOrder
    <3> QED
      BY <3>1, <3>2 DEF TypeOK
  <2> QED
    BY <1>5, <2>1, <2>2, <2>3, <2>4, <2>5, <2>6, <2>7, <2>8, <2>9, <2>10, <2>11, <2>12,
       <2>13, <2>14, <2>15, <2>16, <2>17, <2>18, <2>19, <2>20, <2>21, <2>22, <2>23,
       <2>24, <2>25, <2>26, <2>27, <2>28, <2>29 DEF WorkerStep
<1>6. ASSUME NEW w \in Workers, WorkerFails(w) PROVE TypeOK'
  <2>1. CASE OrderAnswerLost(w)
    <3>1. NewPosition(w) \in Position
      BY <2>1, MemoryType DEF OrderAnswerLost, NewPosition, Position, StoreType, Copies, Copy,
         PC, JobPC, HoldPC, BodyPC, AdjustPC, BeforeOrder, AfterOrder
    <3>2. live' \in SUBSET Position /\ orders' \in [Copies -> Nat]
      <4>1. live' = live \cup {NewPosition(w)} /\ orders' = [orders EXCEPT ![Copy(w)] = @ + 1]
        BY <2>1 DEF OrderAnswerLost, Execute
      <4>2. live \in SUBSET Position /\ orders \in [Copies -> Nat]
        BY DEF StoreType
      <4>4. Copy(w) \in Copies
        BY <3>1 DEF NewPosition, Position
      <4>5. orders[Copy(w)] + 1 \in Nat
        BY <4>2, <4>4
      <4>3. orders' \in [Copies -> Nat]
        BY <4>1, <4>2, <4>4, <4>5
      <4> QED
        BY <4>1, <4>2, <4>3, <3>1
    <3>4. StoreType'
      BY <2>1, <3>2 DEF OrderAnswerLost, StoreType, db, jobs
    <3>3. WorkerType'
      BY <2>1, <3>1, MemoryType, GotoType DEF OrderAnswerLost, WorkerType, local, PC,
         JobPC, HoldPC, BodyPC, AdjustPC, BeforeOrder, AfterOrder
    <3> QED
      BY <3>4, <3>3 DEF TypeOK
  <2>2. CASE AdjustAnswerLost(w)
    <3>1. seen[w] \in live /\ live \in SUBSET Position
      BY <2>2 DEF AdjustAnswerLost, StoreType
    <3>2. PICK o \in AdjustOutcomes(seen[w], Kind[ev[w]], mem[w]) :
             live' = o[1]
      BY <2>2 DEF AdjustAnswerLost
    <3>3. /\ o[1] \in SUBSET Position /\ o[2] \in Position
          /\ o[3] \in {"settle", "close", "partial", "remap"}
      BY <3>1, OutcomeType
    <3>4. StoreType'
      BY <2>2, <3>2, <3>3 DEF AdjustAnswerLost, StoreType, db, jobs, broker, local, budget
    <3>5. WorkerType'
      BY <2>2, <3>2, <3>3, MemoryType, GotoType DEF AdjustAnswerLost, WorkerType, local,
         PC, JobPC, HoldPC, BodyPC, AdjustPC, BeforeOrder, AfterOrder
    <3> QED
      BY <3>4, <3>5 DEF TypeOK
  <2>3. CASE JobThrows(w)
    <3>3. /\ jobState' \in [Events -> JobState]
          /\ attemptsMade' \in [Events -> Nat]
          /\ lock' \in [Events -> Workers \cup {NoWorker}]
      <4>1. CASE lock[ev[w]] = w
        <5>1. ev[w] \in Events
          BY <2>3, MemoryType DEF JobThrows
        <5>2. \E s \in {"delayed", "failed"} : jobState' = [jobState EXCEPT ![ev[w]] = s]
          BY <2>3, <4>1 DEF JobThrows, FailJob
        <5>3. attemptsMade' = [attemptsMade EXCEPT ![ev[w]] = @ + 1]
              /\ lock' = [lock EXCEPT ![ev[w]] = NoWorker]
          BY <2>3, <4>1 DEF JobThrows, FailJob
        <5> QED
          BY <5>1, <5>2, <5>3 DEF StoreType, JobState
      <4>2. CASE lock[ev[w]] # w
        BY <2>3, <4>2 DEF JobThrows, FailJob, StoreType
      <4> QED
        BY <4>1, <4>2
    <3>1. StoreType'
      BY <2>3, <3>3 DEF JobThrows, FailJob, StoreType, db, broker
    <3>2. WorkerType'
      BY <2>3, ReleaseType DEF JobThrows, FailJob
    <3> QED
      BY <3>1, <3>2 DEF TypeOK
  <2>4. CASE MemberThrows(w)
    <3>1. StoreType'
      BY <2>4, MemoryType DEF MemberThrows, StoreType, db, jobs, broker, local, budget,
         PC, JobPC, HoldPC, BodyPC, AdjustPC, BeforeOrder, AfterOrder
    <3>2. WorkerType'
      BY <2>4, MemoryType, NextMemberType DEF MemberThrows, PC, JobPC, HoldPC, BodyPC,
         AdjustPC, BeforeOrder, AfterOrder
    <3> QED
      BY <3>1, <3>2 DEF TypeOK
  <2>5. CASE CopyThrows(w)
    <3>1. StoreType'
      BY <2>5, MemoryType DEF CopyThrows, StoreType, db, jobs, broker, local, budget, PC,
         JobPC, HoldPC, BodyPC, AdjustPC, BeforeOrder, AfterOrder
    <3>2. WorkerType'
      BY <2>5, MemoryType, GotoType DEF CopyThrows, WorkerType, local, PC, JobPC, HoldPC,
         BodyPC, AdjustPC, BeforeOrder, AfterOrder
    <3> QED
      BY <3>1, <3>2 DEF TypeOK
  <2>6. CASE Crash(w)
    <3>1. StoreType'
      BY <2>6, MemoryType DEF Crash, StoreType, db, jobs, broker, local, budget, PC,
         JobPC, HoldPC, BodyPC, AdjustPC, BeforeOrder, AfterOrder
    <3>2. WorkerType'
      BY <2>6, ReleaseType DEF Crash
    <3> QED
      BY <3>1, <3>2 DEF TypeOK
  <2>7. CASE LoseLock(w)
    <3>1. StoreType'
      BY <2>7, MemoryType DEF LoseLock, StoreType, db, jobs, broker, local, budget, PC,
         JobPC, HoldPC, BodyPC, AdjustPC, BeforeOrder, AfterOrder
    <3>2. WorkerType'
      BY <2>7 DEF LoseLock, WorkerType, local
    <3> QED
      BY <3>1, <3>2 DEF TypeOK
  <2> QED
    BY <1>6, <2>1, <2>2, <2>3, <2>4, <2>5, <2>6, <2>7 DEF WorkerFails
<1>7. ASSUME NEW a \in Accounts, MemberPauses(a) \/ MemberStarts(a) PROVE TypeOK'
  <2>1. StoreType'
    BY <1>7 DEF MemberPauses, MemberStarts, StoreType, jobs, broker, local, budget
  <2>2. WorkerType'
    BY <1>7 DEF MemberPauses, MemberStarts, WorkerType, local
  <2> QED
    BY <2>1, <2>2
<1>8. CASE ClosedOutside
  BY <1>8 DEF ClosedOutside, StoreType, WorkerType, db, jobs, local, budget
<1> QED
  BY <1>1, <1>2, <1>3, <1>4, <1>5, <1>6, <1>7, <1>8 DEF Next
\* Every variable keeps its type: the queue and the database hold what the
\* schema allows, and a worker in the member loop has an event and a member.
THEOREM TypeCorrect == Spec => []TypeOK
<1>1. Init => TypeOK
  BY TypeInit
<1>2. TypeOK /\ [Next]_vars => TypeOK'
  BY TypeNext
<1> QED
  BY <1>1, <1>2, PTL DEF Spec

-----------------------------------------------------------------------------
(* The copy invariant.                                                     *)

LEMMA CopyInit == Init => CopyInvariant
BY DEF Init, CopyInvariant, Ledger, HoldPC, BodyPC, AdjustPC, BeforeOrder, AfterOrder

\* A worker that holds a copy holds one of the copies.
LEMMA HeldCopy ==
  ASSUME TypeOK, NEW w \in Workers, pc[w] \in HoldPC
  PROVE  Copy(w) \in Copies /\ Copy(w)[1] = ev[w]
<1>1. pc[w] # "idle"
  BY Steps
<1> QED
  BY <1>1, MemoryType DEF Copy, Copies

\* The core of the argument.  A step of worker w that touches the ledger of no
\* copy but its own, which it holds or is the first to claim, cannot disturb the
\* duty of another worker: two workers never hold the same copy.
LEMMA OwnCopyOnly ==
  ASSUME TypeOK, CopyInvariant, NEW w \in Workers,
         \A v \in Workers \ {w} : pc'[v] = pc[v] /\ ev'[v] = ev[v] /\ mem'[v] = mem[v],
         \A c \in Copies : c # Copy(w) => row'[c] = row[c] /\ orders'[c] = orders[c],
         pc[w] \in HoldPC \/ row[Copy(w)] = "none",
         pc'[w] \in HoldPC => Copy(w)' = Copy(w) /\ Duty(pc[w], Copy(w))',
         \A c \in Copies : c = Copy(w) => Ledger(c)',
         \A p \in live' : orders'[p.copy] > 0
  PROVE  CopyInvariant'
<1>1. ASSUME NEW v \in Workers \ {w}, pc'[v] \in HoldPC
      PROVE  /\ pc[v] \in HoldPC /\ Copy(v)' = Copy(v) /\ Copy(v) \in Copies
             /\ Copy(v) # Copy(w)
  <2>1. pc[v] \in HoldPC /\ Copy(v)' = Copy(v)
    BY <1>1 DEF Copy
  <2>2. Copy(v) \in Copies
    BY <2>1, HeldCopy
  <2>3. row[Copy(v)] # "none"
    BY <2>1 DEF CopyInvariant, Duty
  <2>4. Copy(v) # Copy(w)
    BY <2>1, <2>3 DEF CopyInvariant
  <2> QED
    BY <2>1, <2>2, <2>4
<1>2. ASSUME NEW u \in Workers, NEW v \in Workers,
             pc'[u] \in HoldPC, pc'[v] \in HoldPC, Copy(u)' = Copy(v)'
      PROVE  u = v
  <2>1. CASE u = w /\ v # w
    BY <1>1, <1>2, <2>1
  <2>2. CASE u # w /\ v = w
    BY <1>1, <1>2, <2>2
  <2>3. CASE u # w /\ v # w
    BY <1>1, <1>2, <2>3 DEF CopyInvariant
  <2> QED
    BY <2>1, <2>2, <2>3
<1>3. ASSUME NEW v \in Workers, pc'[v] \in HoldPC PROVE Duty(pc[v], Copy(v))'
  <2>1. CASE v # w
    <3>1. pc[v] \in HoldPC /\ pc'[v] = pc[v] /\ Copy(v)' = Copy(v)
      BY <1>1, <1>3, <2>1
    <3>2. row'[Copy(v)] = row[Copy(v)] /\ orders'[Copy(v)] = orders[Copy(v)]
      BY <1>1, <1>3, <2>1
    <3>3. Duty(pc[v], Copy(v))
      BY <3>1 DEF CopyInvariant
    <3> QED
      BY <3>1, <3>2, <3>3 DEF Duty
  <2> QED
    BY <1>3, <2>1
<1>4. ASSUME NEW c \in Copies PROVE Ledger(c)'
  <2>1. CASE c # Copy(w)
    BY <2>1 DEF CopyInvariant, Ledger
  <2>2. CASE c = Copy(w)
    BY <2>2
  <2> QED
    BY <2>1, <2>2
<1> QED
  BY <1>2, <1>3, <1>4 DEF CopyInvariant

\* A step that leaves rows and orders alone and, if it holds a copy after it,
\* held it before, with the duty of its new step.
LEMMA QuietStep ==
  ASSUME TypeOK, CopyInvariant, NEW w \in Workers,
         \A v \in Workers \ {w} : pc'[v] = pc[v] /\ ev'[v] = ev[v] /\ mem'[v] = mem[v],
         UNCHANGED <<row, orders>>,
         pc'[w] \in HoldPC => /\ pc[w] \in HoldPC
                              /\ Copy(w)' = Copy(w)
                              /\ Duty(pc[w], Copy(w))',
         \A p \in live' : orders[p.copy] > 0
  PROVE  CopyInvariant'
<1>1. ASSUME NEW v \in Workers, pc'[v] \in HoldPC
      PROVE  /\ pc[v] \in HoldPC /\ Copy(v)' = Copy(v)
             /\ Duty(pc[v], Copy(v))'
  <2>1. CASE v # w
    <3>1. pc'[v] = pc[v] /\ Copy(v)' = Copy(v)
      BY <2>1 DEF Copy
    <3>2. Duty(pc[v], Copy(v))
      BY <1>1, <3>1 DEF CopyInvariant
    <3> QED
      BY <1>1, <3>1, <3>2 DEF Duty
  <2> QED
    BY <1>1, <2>1
<1>2. \A c \in Copies : Ledger(c)'
  BY DEF CopyInvariant, Ledger
<1> QED
  BY <1>1, <1>2 DEF CopyInvariant

LEMMA Elsewhere ==
  ASSUME TypeOK, CopyInvariant, UNCHANGED <<row, orders, pc, ev, mem>>,
         \A p \in live' : orders[p.copy] > 0
  PROVE  CopyInvariant'
BY DEF CopyInvariant, Ledger, Duty, Copy

\* What moving a worker on, to the next member or out of its job changes.
LEMMA Moves ==
  ASSUME TypeOK, NEW w \in Workers
  PROVE  /\ \A step : Goto(w, step) => /\ pc'[w] = step
                                       /\ \A v \in Workers \ {w} : pc'[v] = pc[v]
         /\ NextMember(w) => /\ pc'[w] \notin HoldPC
                             /\ \A v \in Workers \ {w} :
                                  pc'[v] = pc[v] /\ ev'[v] = ev[v] /\ mem'[v] = mem[v]
         /\ Release(w) => /\ pc'[w] \notin HoldPC
                          /\ \A v \in Workers \ {w} :
                               pc'[v] = pc[v] /\ ev'[v] = ev[v] /\ mem'[v] = mem[v]
BY Steps DEF TypeOK, WorkerType, Goto, NextMember, Release, JobPC

\* Moving a worker on to a step whose duty it has, nothing else touched.
LEMMA GotoQuiet ==
  ASSUME TypeOK, CopyInvariant, NEW w \in Workers, NEW step, Goto(w, step),
         UNCHANGED <<ev, mem, row, orders>>,
         step \in HoldPC => pc[w] \in HoldPC /\ Duty(step, Copy(w)),
         \A p \in live' : orders[p.copy] > 0
  PROVE  CopyInvariant'
<1>1. pc'[w] = step /\ Copy(w)' = Copy(w)
      /\ \A v \in Workers \ {w} : pc'[v] = pc[v] /\ ev'[v] = ev[v] /\ mem'[v] = mem[v]
  BY Moves DEF Copy
<1>2. step \in HoldPC => Duty(pc[w], Copy(w))'
  BY <1>1 DEF Duty
<1> QED
  BY <1>1, <1>2, QuietStep

\* Writing the row of the copy a worker holds.
LEMMA GotoWrite ==
  ASSUME TypeOK, CopyInvariant, NEW w \in Workers, NEW step, NEW status,
         pc[w] \in HoldPC, Goto(w, step), row' = [row EXCEPT ![Copy(w)] = status],
         UNCHANGED <<ev, mem, orders, live>>,
         step \in {"map", "stamp"}, status # "none",
         status = "SKIPPED" => orders[Copy(w)] = 0,
         (Kind[ev[w]] = "OPEN" /\ status = "SUCCESS") => orders[Copy(w)] > 0,
         step = "map" => orders[Copy(w)] > 0
  PROVE  CopyInvariant'
<1>1. pc'[w] = step /\ Copy(w)' = Copy(w)
      /\ \A v \in Workers \ {w} : pc'[v] = pc[v] /\ ev'[v] = ev[v] /\ mem'[v] = mem[v]
  BY Moves DEF Copy
<1>2. Copy(w) \in Copies /\ Copy(w)[1] = ev[w]
  BY HeldCopy
<1>3. row'[Copy(w)] = status /\ \A c \in Copies : c # Copy(w) => row'[c] = row[c]
  BY <1>2 DEF TypeOK, StoreType
<1>4. Duty(pc[w], Copy(w))'
  BY <1>1, <1>3 DEF Duty, PendingPC, UnsentPC, HoldPC, BodyPC, AdjustPC, BeforeOrder,
     AfterOrder
<1>5. \A c \in Copies : c = Copy(w) => Ledger(c)'
  <2>1. Ledger(Copy(w))
    BY <1>2 DEF CopyInvariant
  <2> QED
    BY <1>2, <1>3, <2>1 DEF Ledger
<1>6. \A p \in live' : orders'[p.copy] > 0
  BY DEF CopyInvariant
<1> QED
  BY <1>1, <1>3, <1>4, <1>5, <1>6, OwnCopyOnly

\* An order executed for the copy a worker holds, which had none.
LEMMA ExecuteOnce ==
  ASSUME TypeOK, CopyInvariant, NEW w \in Workers, pc[w] = "send", Execute(w),
         \E step \in {"fill", "failrow"} : Goto(w, step), UNCHANGED <<ev, mem, row>>
  PROVE  CopyInvariant'
<1> PICK step \in {"fill", "failrow"} : Goto(w, step)
  OBVIOUS
<1>1. pc'[w] = step /\ Copy(w)' = Copy(w) /\ pc[w] \in HoldPC
      /\ \A v \in Workers \ {w} : pc'[v] = pc[v] /\ ev'[v] = ev[v] /\ mem'[v] = mem[v]
  BY Moves DEF Copy, HoldPC, BodyPC, BeforeOrder
<1>2. Copy(w) \in Copies /\ Copy(w)[1] = ev[w]
  BY <1>1, HeldCopy
<1>3. row[Copy(w)] = "PENDING" /\ orders[Copy(w)] = 0
  BY <1>1 DEF CopyInvariant, Duty, PendingPC, UnsentPC, HoldPC, BodyPC, AdjustPC,
     BeforeOrder, AfterOrder
<1>4. orders'[Copy(w)] = 1 /\ \A c \in Copies : c # Copy(w) => orders'[c] = orders[c]
  BY <1>2, <1>3 DEF Execute, TypeOK, StoreType
<1>5. Duty(pc[w], Copy(w))'
  BY <1>1, <1>3, <1>4 DEF Duty, PendingPC, UnsentPC, HoldPC, BodyPC, AdjustPC,
     BeforeOrder, AfterOrder
<1>6. \A c \in Copies : c = Copy(w) => Ledger(c)'
  BY <1>3, <1>4 DEF Ledger
<1>7. ASSUME NEW p \in live' PROVE orders'[p.copy] > 0
  <2>1. CASE p \in live
    <3>1. orders[p.copy] > 0 /\ p.copy \in Copies
      BY <2>1 DEF CopyInvariant, TypeOK, StoreType, Position
    <3> QED
      BY <1>3, <1>4, <3>1
  <2>2. CASE p = NewPosition(w)
    BY <1>4, <2>2 DEF NewPosition
  <2> QED
    BY <2>1, <2>2 DEF Execute
<1> QED
  BY <1>1, <1>4, <1>5, <1>6, <1>7, OwnCopyOnly

\* After an adjustment every position still comes from an order of its copy: the
\* remainder of a partial close keeps the copy of the ticket it replaces.
LEMMA OutcomeOrdered ==
  ASSUME NEW p \in live, NEW kind, NEW account,
         \A q \in live : orders[q.copy] > 0,
         NEW o \in AdjustOutcomes(p, kind, account)
  PROVE  \A q \in o[1] : orders[q.copy] > 0
<1>1. Remainder(p).copy = p.copy
  BY DEF Remainder
<1> QED
  BY <1>1 DEF AdjustOutcomes

LEMMA CopyNext == TypeOK /\ CopyInvariant /\ [Next]_vars => CopyInvariant'
<1> SUFFICES ASSUME TypeOK, CopyInvariant, Next PROVE CopyInvariant'
  BY Elsewhere DEF vars, db, broker, local, CopyInvariant
<1>1. \A p \in live : orders[p.copy] > 0
  BY DEF CopyInvariant
<1>2. \A w \in Workers : pc[w] \in HoldPC => Duty(pc[w], Copy(w))
  BY DEF CopyInvariant
<1>3. ASSUME NEW e \in Events, Publish(e) \/ Promote(e) \/ RecoverStalled(e)
      PROVE  CopyInvariant'
  BY <1>1, <1>3, Elsewhere DEF Publish, Promote, RecoverStalled, db, broker, local
<1>4. ASSUME NEW w \in Workers, TakeJob(w) PROVE CopyInvariant'
  <2>1. /\ pc'[w] \notin HoldPC
        /\ \A v \in Workers \ {w} : pc'[v] = pc[v] /\ ev'[v] = ev[v] /\ mem'[v] = mem[v]
    BY <1>4, Moves DEF TakeJob, TypeOK, WorkerType, PendingPC, UnsentPC, HoldPC, BodyPC,
       AdjustPC, BeforeOrder, AfterOrder
  <2> QED
    BY <1>1, <1>4, <2>1, QuietStep DEF TakeJob, db, broker

<1>5. ASSUME NEW w \in Workers, WorkerStep(w) PROVE CopyInvariant'
  <2>1. CASE LoadEvent(w)
    BY <1>1, <1>2, <2>1, GotoQuiet DEF LoadEvent, db, broker, local, Duty, JobPC,
       PendingPC, UnsentPC, HoldPC, BodyPC, AdjustPC, BeforeOrder, AfterOrder
  <2>2. CASE MarkProcessing(w)
    BY <1>1, <1>2, <2>2, GotoQuiet DEF MarkProcessing, db, broker, local, Duty, JobPC,
       PendingPC, UnsentPC, HoldPC, BodyPC, AdjustPC, BeforeOrder, AfterOrder
  <2>3. CASE Snapshot(w)
    BY <1>1, <1>2, <2>3, GotoQuiet DEF Snapshot, db, broker, local, Duty, JobPC,
       PendingPC, UnsentPC, HoldPC, BodyPC, AdjustPC, BeforeOrder, AfterOrder
  <2>4. CASE NextCopy(w)
    <3>1. /\ pc'[w] \notin HoldPC
          /\ \A v \in Workers \ {w} : pc'[v] = pc[v] /\ ev'[v] = ev[v] /\ mem'[v] = mem[v]
      BY <2>4, Moves DEF NextCopy, TypeOK, WorkerType, PendingPC, UnsentPC, HoldPC,
         BodyPC, AdjustPC, BeforeOrder, AfterOrder
    <3> QED
      BY <1>1, <2>4, <3>1, QuietStep DEF NextCopy, db, broker
  <2>5. CASE EndLoop(w)
    BY <1>1, <1>2, <2>5, GotoQuiet DEF EndLoop, db, broker, local, Duty, JobPC, PendingPC,
       UnsentPC, HoldPC, BodyPC, AdjustPC, BeforeOrder, AfterOrder
  <2>6. CASE MarkProcessed(w)
    BY <1>1, <1>2, <2>6, GotoQuiet DEF MarkProcessed, db, broker, local, Duty, JobPC,
       PendingPC, UnsentPC, HoldPC, BodyPC, AdjustPC, BeforeOrder, AfterOrder
  <2>7. CASE CompleteJob(w)
    BY <1>1, <2>7, Moves, QuietStep DEF CompleteJob, db, broker
  <2>8. CASE CreateRow(w)
    <3>1. PICK step \in {"open", "adjust"} : /\ Goto(w, step)
                                             /\ step = "adjust" => Kind[ev[w]] # "OPEN"
      BY <2>8 DEF CreateRow
    <3>2. /\ pc'[w] = step /\ Copy(w)' = Copy(w) /\ pc[w] = "claim"
          /\ \A v \in Workers \ {w} : pc'[v] = pc[v] /\ ev'[v] = ev[v] /\ mem'[v] = mem[v]
      BY <2>8, <3>1, Moves DEF CreateRow, local, Copy
    <3>3. Copy(w) \in Copies /\ Copy(w)[1] = ev[w]
      BY <3>2, MemoryType DEF Copy, Copies
    <3>4. /\ row[Copy(w)] = "none" /\ row'[Copy(w)] = "PENDING"
          /\ \A c \in Copies : c # Copy(w) => row'[c] = row[c]
          /\ orders' = orders /\ live' = live
      BY <2>8, <3>3 DEF CreateRow, broker, TypeOK, StoreType
    <3>5. orders[Copy(w)] = 0
      BY <3>3, <3>4 DEF CopyInvariant, Ledger
    <3>6. Duty(pc[w], Copy(w))'
      BY <3>1, <3>2, <3>3, <3>4, <3>5 DEF Duty, PendingPC, UnsentPC, HoldPC, BodyPC,
         AdjustPC, BeforeOrder, AfterOrder
    <3>7. \A c \in Copies : c = Copy(w) => Ledger(c)'
      BY <3>4, <3>5 DEF Ledger
    <3> QED
      BY <1>1, <3>2, <3>4, <3>6, <3>7, OwnCopyOnly
  <2>9. CASE DuplicateSuppressed(w)
    BY <1>1, <2>9, Moves, QuietStep DEF DuplicateSuppressed, db, broker
  <2>10. CASE SkipRow(w)
    BY <1>2, <2>10, GotoWrite, HeldCopy DEF SkipRow, WriteRow, broker, local, Duty,
       PendingPC, UnsentPC, HoldPC, BodyPC, AdjustPC, BeforeOrder, AfterOrder
  <2>11. CASE RejectRow(w)
    BY <1>2, <2>11, GotoWrite, HeldCopy DEF RejectRow, WriteRow, broker, local, Duty,
       PendingPC, UnsentPC, HoldPC, BodyPC, AdjustPC, BeforeOrder, AfterOrder
  <2>12. CASE StampLatency(w)
    BY <1>1, <2>12, Moves, QuietStep DEF StampLatency, db, broker
  <2>13. CASE FailRow(w)
    <3>1. pc[w] \in HoldPC /\ Copy(w) \in Copies
      BY <2>13, HeldCopy DEF FailRow, HoldPC
    <3>2. /\ row'[Copy(w)] = "FAILED"
          /\ \A c \in Copies : c # Copy(w) => row'[c] = row[c]
          /\ orders' = orders /\ live' = live
      BY <2>13, <3>1 DEF FailRow, broker, TypeOK, StoreType
    <3>3. \A c \in Copies : c = Copy(w) => Ledger(c)'
      BY <3>1, <3>2 DEF CopyInvariant, Ledger
    <3> QED
      BY <1>1, <2>13, <3>1, <3>2, <3>3, Moves, OwnCopyOnly DEF FailRow
  <2>14. CASE ReadPositions(w)
    <3>1. pc[w] \in HoldPC /\ Duty("open", Copy(w))
      BY <1>2, <2>14 DEF ReadPositions, PendingPC, UnsentPC, HoldPC, BodyPC, AdjustPC,
         BeforeOrder, AfterOrder
    <3>2. \A p \in live : p.copy # Copy(w)
      BY <1>1, <3>1, HeldCopy DEF Duty, PendingPC, UnsentPC, HoldPC, BodyPC, AdjustPC,
         BeforeOrder, AfterOrder
    <3>3. PICK step \in {"risk", "skip"} : Goto(w, step)
      BY <2>14, <3>2 DEF ReadPositions
    <3>4. Duty(step, Copy(w))
      BY <3>1 DEF Duty, PendingPC, UnsentPC, HoldPC, BodyPC, AdjustPC, BeforeOrder,
         AfterOrder
    <3> QED
      BY <1>1, <2>14, <3>1, <3>3, <3>4, GotoQuiet DEF ReadPositions, db, broker
  <2>15. CASE CheckRisk(w)
    <3>1. pc[w] \in HoldPC /\ Duty("risk", Copy(w))
      BY <1>2, <2>15 DEF CheckRisk, PendingPC, UnsentPC, HoldPC, BodyPC, AdjustPC,
         BeforeOrder, AfterOrder
    <3>2. PICK step \in {"send", "skip", "breach"} : Goto(w, step)
      BY <2>15 DEF CheckRisk
    <3>3. Duty(step, Copy(w))
      BY <3>1 DEF Duty, PendingPC, UnsentPC, HoldPC, BodyPC, AdjustPC, BeforeOrder,
         AfterOrder
    <3> QED
      BY <1>1, <2>15, <3>1, <3>2, <3>3, GotoQuiet DEF CheckRisk, broker, local
  <2>16. CASE PauseForBreach(w)
    BY <1>1, <1>2, <2>16, GotoQuiet DEF PauseForBreach, db, broker, local, Duty, JobPC,
       PendingPC, UnsentPC, HoldPC, BodyPC, AdjustPC, BeforeOrder, AfterOrder
  <2>17. CASE OrderExecuted(w)
    BY <2>17, ExecuteOnce DEF OrderExecuted, db
  <2>18. CASE OrderRejected(w)
    BY <1>1, <1>2, <2>18, GotoQuiet DEF OrderRejected, db, broker, local, Duty, JobPC,
       PendingPC, UnsentPC, HoldPC, BodyPC, AdjustPC, BeforeOrder, AfterOrder
  <2>19. CASE FillRow(w)
    BY <1>2, <2>19, GotoWrite, HeldCopy DEF FillRow, WriteRow, broker, local, Duty,
       PendingPC, UnsentPC, HoldPC, BodyPC, AdjustPC, BeforeOrder, AfterOrder
  <2>20. CASE FillMapping(w)
    BY <1>1, <1>2, <2>20, GotoQuiet DEF FillMapping, db, broker, local, Duty, JobPC,
       PendingPC, UnsentPC, HoldPC, BodyPC, AdjustPC, BeforeOrder, AfterOrder
  <2>21. CASE FillCount(w)
    BY <1>1, <1>2, <2>21, GotoQuiet DEF FillCount, db, broker, local, Duty, JobPC,
       PendingPC, UnsentPC, HoldPC, BodyPC, AdjustPC, BeforeOrder, AfterOrder
  <2>22. CASE ReadMapping(w)
    <3>1. pc[w] \in HoldPC /\ Duty("adjust", Copy(w))
      BY <1>2, <2>22 DEF ReadMapping, PendingPC, UnsentPC, HoldPC, BodyPC, AdjustPC,
         BeforeOrder, AfterOrder
    <3>2. PICK step \in {"act", "skip"} : Goto(w, step)
      BY <2>22 DEF ReadMapping
    <3>3. Duty(step, Copy(w))
      BY <3>1 DEF Duty, PendingPC, UnsentPC, HoldPC, BodyPC, AdjustPC, BeforeOrder,
         AfterOrder
    <3> QED
      BY <1>1, <2>22, <3>1, <3>2, <3>3, GotoQuiet DEF ReadMapping, db, broker
  <2>23. CASE AdjustExecuted(w)
    <3>1. pc[w] \in HoldPC /\ Duty("act", Copy(w))
      BY <1>2, <2>23 DEF AdjustExecuted, PendingPC, UnsentPC, HoldPC, BodyPC, AdjustPC,
         BeforeOrder, AfterOrder
    <3>2. PICK o \in AdjustOutcomes(seen[w], Kind[ev[w]], mem[w]) :
             live' = o[1] /\ Goto(w, o[3])
      BY <2>23 DEF AdjustExecuted
    <3>3. /\ o[3] \in {"settle", "close", "partial", "remap"}
          /\ \A p \in o[1] : orders[p.copy] > 0
      BY <1>1, <2>23, OutcomeType, OutcomeOrdered DEF AdjustExecuted, TypeOK, StoreType
    <3>4. Duty(o[3], Copy(w))
      BY <3>1, <3>3 DEF Duty, PendingPC, UnsentPC, HoldPC, BodyPC, AdjustPC, BeforeOrder,
         AfterOrder
    <3> QED
      BY <2>23, <3>1, <3>2, <3>3, <3>4, GotoQuiet DEF AdjustExecuted, db
  <2>24. CASE AdjustRejected(w)
    BY <1>1, <1>2, <2>24, GotoQuiet DEF AdjustRejected, db, broker, local, Duty, JobPC,
       PendingPC, UnsentPC, HoldPC, BodyPC, AdjustPC, BeforeOrder, AfterOrder
  <2>25. CASE RemapTicket(w)
    BY <1>1, <1>2, <2>25, GotoQuiet DEF RemapTicket, WriteMapping, db, broker, local,
       Duty, JobPC, PendingPC, UnsentPC, HoldPC, BodyPC, AdjustPC, BeforeOrder, AfterOrder
  <2>26. CASE ReduceMapping(w)
    BY <1>1, <1>2, <2>26, GotoQuiet DEF ReduceMapping, WriteMapping, db, broker, local,
       Duty, JobPC, PendingPC, UnsentPC, HoldPC, BodyPC, AdjustPC, BeforeOrder, AfterOrder
  <2>27. CASE CloseMapping(w)
    BY <1>1, <1>2, <2>27, GotoQuiet DEF CloseMapping, WriteMapping, db, broker, local,
       Duty, JobPC, PendingPC, UnsentPC, HoldPC, BodyPC, AdjustPC, BeforeOrder, AfterOrder
  <2>28. CASE CloseCount(w)
    BY <1>1, <1>2, <2>28, GotoQuiet DEF CloseCount, db, broker, local, Duty, JobPC,
       PendingPC, UnsentPC, HoldPC, BodyPC, AdjustPC, BeforeOrder, AfterOrder
  <2>29. CASE SettleRow(w)
    BY <1>2, <2>29, GotoWrite, HeldCopy DEF SettleRow, WriteRow, broker, local, Duty,
       PendingPC, UnsentPC, HoldPC, BodyPC, AdjustPC, BeforeOrder, AfterOrder
  <2> QED
    BY <1>5, <2>1, <2>2, <2>3, <2>4, <2>5, <2>6, <2>7, <2>8, <2>9, <2>10, <2>11, <2>12,
       <2>13, <2>14, <2>15, <2>16, <2>17, <2>18, <2>19, <2>20, <2>21, <2>22, <2>23,
       <2>24, <2>25, <2>26, <2>27, <2>28, <2>29 DEF WorkerStep
<1>6. ASSUME NEW w \in Workers, WorkerFails(w) PROVE CopyInvariant'
  <2>1. CASE OrderAnswerLost(w)
    BY <2>1, ExecuteOnce DEF OrderAnswerLost, db, local
  <2>2. CASE AdjustAnswerLost(w)
    <3>1. pc[w] \in HoldPC /\ Duty("act", Copy(w))
      BY <1>2, <2>2 DEF AdjustAnswerLost, PendingPC, UnsentPC, HoldPC, BodyPC, AdjustPC,
         BeforeOrder, AfterOrder
    <3>2. PICK o \in AdjustOutcomes(seen[w], Kind[ev[w]], mem[w]) : live' = o[1]
      BY <2>2 DEF AdjustAnswerLost
    <3>3. \A p \in o[1] : orders[p.copy] > 0
      BY <1>1, <2>2, OutcomeOrdered DEF AdjustAnswerLost
    <3>4. Duty("failrow", Copy(w))
      BY <3>1 DEF Duty, PendingPC, UnsentPC, HoldPC, BodyPC, AdjustPC, BeforeOrder,
         AfterOrder
    <3> QED
      BY <2>2, <3>1, <3>2, <3>3, <3>4, GotoQuiet DEF AdjustAnswerLost, db, local
  <2>3. CASE JobThrows(w)
    BY <1>1, <2>3, Moves, QuietStep DEF JobThrows, FailJob, db, broker
  <2>4. CASE MemberThrows(w)
    BY <1>1, <2>4, Moves, QuietStep DEF MemberThrows, db, broker
  <2>5. CASE CopyThrows(w)
    <3>1. pc[w] \in HoldPC /\ Duty("failrow", Copy(w))
      BY <1>2, <2>5 DEF CopyThrows, Duty, PendingPC, UnsentPC, HoldPC, BodyPC, AdjustPC,
         BeforeOrder, AfterOrder
    <3> QED
      BY <1>1, <2>5, <3>1, GotoQuiet DEF CopyThrows, db, broker, local
  <2>6. CASE Crash(w)
    BY <1>1, <2>6, Moves, QuietStep DEF Crash, db, broker
  <2>7. CASE LoseLock(w)
    BY <1>1, <2>7, Elsewhere DEF LoseLock, db, broker, local
  <2> QED
    BY <1>6, <2>1, <2>2, <2>3, <2>4, <2>5, <2>6, <2>7 DEF WorkerFails
<1>7. ASSUME NEW a \in Accounts, MemberPauses(a) \/ MemberStarts(a) PROVE CopyInvariant'
  BY <1>1, <1>7, Elsewhere DEF MemberPauses, MemberStarts, broker, local
<1>8. CASE ClosedOutside
  BY <1>1, <1>8, Elsewhere DEF ClosedOutside, db, local
<1> QED
  BY <1>3, <1>4, <1>5, <1>6, <1>7, <1>8 DEF Next

LEMMA CopyInvariantHolds == Spec => [](TypeOK /\ CopyInvariant)
<1>1. Init => TypeOK /\ CopyInvariant
  BY TypeInit, CopyInit
<1>2. TypeOK /\ CopyInvariant /\ [Next]_vars => (TypeOK /\ CopyInvariant)'
  BY TypeNext, CopyNext
<1> QED
  BY <1>1, <1>2, PTL DEF Spec

\* At most one order is executed for a copy, whatever crashes, throws, stalls or
\* runs twice: processTradeEvent's "idempotency is structural".
THEOREM OneOrderPerCopy == Spec => []AtMostOneOrder
<1>1. TypeOK /\ CopyInvariant => AtMostOneOrder
  BY DEF CopyInvariant, Ledger, AtMostOneOrder
<1> QED
  BY <1>1, CopyInvariantHolds, PTL

\* A copy the member is shown as SKIPPED has never had an order executed.
THEOREM SkippedHasNoOrder == Spec => []SkippedMeansNoOrder
<1>1. TypeOK /\ CopyInvariant => SkippedMeansNoOrder
  BY DEF CopyInvariant, Ledger, SkippedMeansNoOrder
<1> QED
  BY <1>1, CopyInvariantHolds, PTL

\* A copied open recorded as SUCCESS has an executed order behind it: "a response
\* is not a fill".
THEOREM SuccessIsFilled == Spec => []SuccessMeansFilled
<1>1. TypeOK /\ CopyInvariant => SuccessMeansFilled
  BY DEF CopyInvariant, Ledger, SuccessMeansFilled
<1> QED
  BY <1>1, CopyInvariantHolds, PTL

\* The two together: what the history (CopyTrade.status) says of a copy is true of the
\* broker.
THEOREM RowsAreAlwaysTrue == Spec => []RowsAreTrue
BY SkippedHasNoOrder, SuccessIsFilled, PTL DEF RowsAreTrue

-----------------------------------------------------------------------------
(* Refinement: the engine implements CopyLedger.                           *)

\* A verdict written to the row of a copy whose worker has yet to give it.
LEMMA VerdictWritten ==
  ASSUME TypeOK, CopyInvariant, NEW w \in Workers, pc[w] \in PendingPC,
         NEW verdict \in {"SUCCESS", "FAILED", "SKIPPED"},
         row' = [row EXCEPT ![Copy(w)] = verdict], UNCHANGED orders,
         verdict = "SKIPPED" => orders[Copy(w)] = 0,
         (verdict = "SUCCESS" /\ Kind[ev[w]] = "OPEN") => orders[Copy(w)] > 0
  PROVE  Promise!Next
<1>1. Copy(w) \in Copies /\ Copy(w)[1] = ev[w]
  BY HeldCopy DEF PendingPC, HoldPC
<1>2. row[Copy(w)] = "PENDING" /\ orders[Copy(w)] \in Nat /\ orders[Copy(w)] <= 1
  BY <1>1 DEF CopyInvariant, Duty, Ledger, PendingPC, HoldPC, TypeOK, StoreType
<1>3. Promise!Decide(Copy(w), verdict)
  BY <1>1, <1>2 DEF Promise!Decide
<1> QED
  BY <1>1, <1>3 DEF Promise!Next, Promise!Verdicts

\* An order executed for a copy that had none.
LEMMA OrderPlaced ==
  ASSUME TypeOK, CopyInvariant, NEW w \in Workers, pc[w] = "send", Execute(w), UNCHANGED row
  PROVE  Promise!Next
<1>1. Copy(w) \in Copies
  BY HeldCopy DEF HoldPC, BodyPC, BeforeOrder
<1>2. row[Copy(w)] = "PENDING" /\ orders[Copy(w)] = 0
  BY DEF CopyInvariant, Duty, PendingPC, UnsentPC, HoldPC, BodyPC, AdjustPC, BeforeOrder,
     AfterOrder
<1>3. Promise!Order(Copy(w))
  BY <1>1, <1>2 DEF Promise!Order, Execute
<1> QED
  BY <1>1, <1>3 DEF Promise!Next

LEMMA PromiseStep ==
  ASSUME TypeOK, CopyInvariant, Next
  PROVE  Promise!Next \/ UNCHANGED <<row, orders>>
<1>1. ASSUME NEW e \in Events, Publish(e) \/ Promote(e) \/ RecoverStalled(e)
      PROVE  UNCHANGED <<row, orders>>
  BY <1>1 DEF Publish, Promote, RecoverStalled, db, broker
<1>2. ASSUME NEW w \in Workers, TakeJob(w) PROVE UNCHANGED <<row, orders>>
  BY <1>2 DEF TakeJob, db, broker
<1>3. ASSUME NEW w \in Workers, WorkerStep(w)
      PROVE  Promise!Next \/ UNCHANGED <<row, orders>>
  <2>1. CASE \/ LoadEvent(w) \/ MarkProcessing(w) \/ Snapshot(w) \/ NextCopy(w)
             \/ EndLoop(w) \/ MarkProcessed(w) \/ CompleteJob(w) \/ DuplicateSuppressed(w)
             \/ StampLatency(w) \/ ReadPositions(w) \/ CheckRisk(w) \/ PauseForBreach(w)
             \/ OrderRejected(w) \/ FillMapping(w) \/ FillCount(w) \/ ReadMapping(w)
             \/ AdjustExecuted(w) \/ AdjustRejected(w) \/ RemapTicket(w) \/ ReduceMapping(w)
             \/ CloseMapping(w) \/ CloseCount(w)
    BY <2>1 DEF LoadEvent, MarkProcessing, Snapshot, NextCopy, EndLoop, MarkProcessed,
       CompleteJob, DuplicateSuppressed, StampLatency, ReadPositions, CheckRisk,
       PauseForBreach, OrderRejected, FillMapping, FillCount, ReadMapping, AdjustExecuted,
       AdjustRejected, RemapTicket, ReduceMapping, CloseMapping, CloseCount, WriteMapping,
       db, broker
  <2>2. CASE CreateRow(w)
    <3>1. Copy(w) \in Copies
      BY <2>2, MemoryType DEF CreateRow, Copy, Copies
    <3>2. Promise!Claim(Copy(w))
      BY <2>2, <3>1 DEF CreateRow, Promise!Claim, broker
    <3> QED
      BY <3>1, <3>2 DEF Promise!Next
  <2>3. CASE OrderExecuted(w)
    BY <2>3, OrderPlaced DEF OrderExecuted, db
  <2>4. CASE SkipRow(w)
    <3>1. orders[Copy(w)] = 0
      BY <2>4 DEF SkipRow, WriteRow, CopyInvariant, Duty, PendingPC, UnsentPC, HoldPC,
         BodyPC, AdjustPC, BeforeOrder, AfterOrder
    <3> QED
      BY <2>4, <3>1, VerdictWritten DEF SkipRow, WriteRow, PendingPC, BodyPC, broker
  <2>5. CASE RejectRow(w)
    BY <2>5, VerdictWritten DEF RejectRow, WriteRow, PendingPC, BodyPC, broker
  <2>6. CASE FillRow(w)
    <3>1. orders[Copy(w)] > 0
      BY <2>6 DEF FillRow, WriteRow, CopyInvariant, Duty, PendingPC, UnsentPC, HoldPC,
         BodyPC, AdjustPC, BeforeOrder, AfterOrder
    <3> QED
      BY <2>6, <3>1, VerdictWritten DEF FillRow, WriteRow, PendingPC, BodyPC, AfterOrder,
         broker
  <2>7. CASE SettleRow(w)
    <3>1. pc[w] \in HoldPC /\ Copy(w)[1] = ev[w] /\ Kind[Copy(w)[1]] # "OPEN"
      BY <2>7, HeldCopy DEF SettleRow, WriteRow, CopyInvariant, Duty, PendingPC, UnsentPC,
         HoldPC, BodyPC, AdjustPC, BeforeOrder, AfterOrder
    <3> QED
      BY <2>7, <3>1, VerdictWritten DEF SettleRow, WriteRow, PendingPC, BodyPC, AdjustPC,
         broker
  <2>8. CASE FailRow(w)
    <3>1. Copy(w) \in Copies /\ row[Copy(w)] # "none"
      BY <2>8, HeldCopy DEF FailRow, CopyInvariant, Duty, HoldPC
    <3>2. orders[Copy(w)] \in Nat /\ row[Copy(w)] \in RowStatus
      BY <3>1 DEF TypeOK, StoreType
    <3>3. Promise!Decide(Copy(w), "FAILED") \/ Promise!Overturn(Copy(w))
      BY <2>8, <3>1, <3>2 DEF FailRow, broker, RowStatus, Promise!Decide, Promise!Overturn,
         Promise!Verdicts
    <3> QED
      BY <3>1, <3>3 DEF Promise!Next, Promise!Verdicts
  <2> QED
    BY <1>3, <2>1, <2>2, <2>3, <2>4, <2>5, <2>6, <2>7, <2>8 DEF WorkerStep
<1>4. ASSUME NEW w \in Workers, WorkerFails(w)
      PROVE  Promise!Next \/ UNCHANGED <<row, orders>>
  <2>1. CASE OrderAnswerLost(w)
    BY <2>1, OrderPlaced DEF OrderAnswerLost, db
  <2>2. CASE \/ AdjustAnswerLost(w) \/ JobThrows(w) \/ MemberThrows(w)
             \/ CopyThrows(w) \/ Crash(w) \/ LoseLock(w)
    BY <2>2 DEF AdjustAnswerLost, JobThrows, MemberThrows, CopyThrows, Crash, LoseLock, db,
       broker
  <2> QED
    BY <1>4, <2>1, <2>2 DEF WorkerFails
<1>5. ASSUME NEW a \in Accounts, MemberPauses(a) \/ MemberStarts(a)
      PROVE  UNCHANGED <<row, orders>>
  BY <1>5 DEF MemberPauses, MemberStarts, broker
<1>6. CASE ClosedOutside
  BY <1>6 DEF ClosedOutside, db
<1> QED
  BY <1>1, <1>2, <1>3, <1>4, <1>5, <1>6 DEF Next

\* The engine implements CopyLedger: each copy is claimed once, ordered at most
\* once and only while it is claimed, and its verdict matches the order.
THEOREM ImplementsLedger == Spec => PromiseKept
<1>1. Init => Promise!Init
  BY DEF Init, Promise!Init
<1>2. TypeOK /\ CopyInvariant /\ [Next]_vars => [Promise!Next]_<<row, orders>>
  BY PromiseStep DEF vars, db, broker
<1> QED
  BY <1>1, <1>2, CopyInvariantHolds, PTL DEF Spec, PromiseKept, Promise!Spec

\* No later run or retry takes a verdict back, except to turn it into FAILED.
THEOREM VerdictIsFinal == Spec => VerdictStands
<1> DEFINE Stands == \A c \in Copies :
      row[c] \in {"SUCCESS", "SKIPPED", "FAILED"} => row'[c] \in {row[c], "FAILED"}
<1>1. ASSUME TypeOK, Promise!Next PROVE Stands
  <2>1. PICK c \in Copies : \/ Promise!Claim(c) \/ Promise!Order(c) \/ Promise!Overturn(c)
                            \/ \E v \in Promise!Verdicts : Promise!Decide(c, v)
    BY <1>1 DEF Promise!Next
  <2> QED
    BY <1>1, <2>1 DEF Promise!Claim, Promise!Order, Promise!Overturn, Promise!Decide,
       TypeOK,
       StoreType
<1>2. TypeOK /\ CopyInvariant /\ [Next]_vars => [Stands]_vars
  BY <1>1, PromiseStep
<1> QED
  BY <1>2, CopyInvariantHolds, PTL DEF Spec, VerdictStands
-----------------------------------------------------------------------------
(* As long as no lock is lost under a live worker: whatever crashes, throws, *)
(* is retried or stalls, one worker at a time is at an event, and what is    *)
(* processed stays so.                                                       *)

LocksAreKept == MaxLostLocks = 0

\* Who is at an event has its lock; only an active job has one; a job waits once, and an event
\* that is not published has none.
Owned(w) ==
  /\ pc[w] # "idle" => lock[ev[w]] = w /\ jobState[ev[w]] = "active"
  /\ pc[w] = "mark" => eventStatus[ev[w]] # "PROCESSED"
Queued ==
  /\ \A i \in 1..Len(queue) : jobState[queue[i]] = "waiting"
  /\ \A i, k \in 1..Len(queue) : queue[i] = queue[k] => i = k
JobKnown(e) ==
  /\ jobState[e] # "active" => lock[e] = NoWorker
  /\ eventStatus[e] = "none" => jobState[e] = "none"

LockInvariant ==
  /\ lostLocks = 0
  /\ \A w \in Workers : Owned(w)
  /\ \A e \in Events : JobKnown(e)
  /\ Queued

LEMMA LockInit == Init => LockInvariant
BY DEF Init, LockInvariant, Owned, JobKnown, Queued

\* A step in the member loop leaves the jobs alone, the event's status too, and does not lead to
\* its first write.
LoopStep(w) ==
  \/ Snapshot(w) \/ NextCopy(w) \/ EndLoop(w)
  \/ CreateRow(w) \/ DuplicateSuppressed(w) \/ SkipRow(w) \/ RejectRow(w)
  \/ StampLatency(w) \/ FailRow(w)
  \/ ReadPositions(w) \/ CheckRisk(w) \/ PauseForBreach(w)
  \/ OrderExecuted(w) \/ OrderRejected(w) \/ FillRow(w) \/ FillMapping(w) \/ FillCount(w)
  \/ ReadMapping(w) \/ AdjustExecuted(w) \/ AdjustRejected(w) \/ RemapTicket(w)
  \/ ReduceMapping(w) \/ CloseMapping(w) \/ CloseCount(w) \/ SettleRow(w)
  \/ OrderAnswerLost(w) \/ AdjustAnswerLost(w) \/ MemberThrows(w) \/ CopyThrows(w)

LEMMA LoopFrame ==
  ASSUME TypeOK, NEW w \in Workers, LoopStep(w)
  PROVE  /\ UNCHANGED <<jobs, eventStatus, ev, lostLocks>>
         /\ pc[w] # "idle" /\ \E step \in PC \ {"idle", "mark"} : Goto(w, step)
<1> USE Steps DEF db, broker, local, budget, NextMember, PC, JobPC, HoldPC, BodyPC, BeforeOrder, AfterOrder, AdjustPC
<1>1. CASE Snapshot(w) \/ NextCopy(w) \/ EndLoop(w)
  BY <1>1 DEF Snapshot, NextCopy, EndLoop
<1>2. CASE CreateRow(w) \/ DuplicateSuppressed(w) \/ SkipRow(w) \/ RejectRow(w) \/ StampLatency(w) \/ FailRow(w)
  BY <1>2 DEF CreateRow, DuplicateSuppressed, SkipRow, RejectRow, WriteRow, StampLatency, FailRow
<1>3. CASE ReadPositions(w) \/ CheckRisk(w) \/ PauseForBreach(w)
  BY <1>3 DEF ReadPositions, CheckRisk, PauseForBreach
<1>4. CASE OrderExecuted(w) \/ OrderRejected(w) \/ OrderAnswerLost(w)
  BY <1>4 DEF OrderExecuted, OrderRejected, OrderAnswerLost
<1>5. CASE FillRow(w) \/ FillMapping(w) \/ FillCount(w) \/ SettleRow(w)
  BY <1>5 DEF FillRow, WriteRow, FillMapping, FillCount, SettleRow
<1>6. CASE ReadMapping(w) \/ AdjustRejected(w)
  BY <1>6 DEF ReadMapping, AdjustRejected
<1>7. CASE AdjustExecuted(w)
  <2>1. live \in SUBSET Position
    BY DEF TypeOK, StoreType
  <2>2. PICK o \in AdjustOutcomes(seen[w], Kind[ev[w]], mem[w]) : Goto(w, o[3])
    BY <1>7 DEF AdjustExecuted
  <2>3. o[3] \in {"settle", "close", "partial", "remap"}
    BY <1>7, <2>1, <2>2, OutcomeType DEF AdjustExecuted
  <2> QED
    BY <1>7, <2>2, <2>3 DEF AdjustExecuted
<1>8. CASE AdjustAnswerLost(w) \/ MemberThrows(w) \/ CopyThrows(w)
  BY <1>8 DEF AdjustAnswerLost, MemberThrows, CopyThrows
<1>9. CASE RemapTicket(w) \/ ReduceMapping(w) \/ CloseMapping(w) \/ CloseCount(w)
  BY <1>9 DEF RemapTicket, ReduceMapping, CloseMapping, WriteMapping, CloseCount
<1> QED
  BY <1>1, <1>2, <1>3, <1>4, <1>5, <1>6, <1>7, <1>8, <1>9 DEF LoopStep

\* A job that neither waits nor is active goes to the end of the wait list.
LEMMA Waiting ==
  ASSUME TypeOK, LockInvariant, NEW e \in Events, jobState[e] \notin {"waiting", "active"},
         queue' = Append(queue, e), jobState' = [jobState EXCEPT ![e] = "waiting"],
         UNCHANGED lock
  PROVE  Queued' /\ \A d \in Events : jobState'[d] # "active" => lock'[d] = NoWorker
<1>1. queue \in Seq(Events) /\ jobState \in [Events -> JobState]
  BY DEF TypeOK, StoreType
<1>2. \A i \in 1..Len(queue) : queue[i] \in Events /\ queue[i] # e
  BY <1>1 DEF LockInvariant, Queued
<1>3. /\ Len(queue') = Len(queue) + 1 /\ Len(queue) \in Nat
      /\ \A i \in 1..Len(queue) : queue'[i] = queue[i]
      /\ queue'[Len(queue) + 1] = e
  BY <1>1
<1>4. \A i \in 1..Len(queue') : i \in 1..Len(queue) \/ i = Len(queue) + 1
  BY <1>3
<1>5. \A i \in 1..Len(queue') : jobState'[queue'[i]] = "waiting"
  BY <1>1, <1>2, <1>3, <1>4 DEF LockInvariant, Queued
<1>6. \A i, k \in 1..Len(queue') : queue'[i] = queue'[k] => i = k
  BY <1>2, <1>3, <1>4 DEF LockInvariant, Queued
<1>7. \A d \in Events : jobState'[d] # "active" => lock'[d] = NoWorker
  BY <1>1 DEF LockInvariant, JobKnown
<1> QED
  BY <1>5, <1>6, <1>7 DEF Queued

LEMMA LockStep == LocksAreKept /\ TypeOK /\ LockInvariant /\ [Next]_vars => LockInvariant'
<1> SUFFICES ASSUME LocksAreKept, TypeOK, LockInvariant, [Next]_vars PROVE LockInvariant'
  OBVIOUS
<1>0. /\ queue \in Seq(Events) /\ jobState \in [Events -> JobState] /\ pc \in [Workers -> PC]
      /\ lock \in [Events -> Workers \cup {NoWorker}] /\ eventStatus \in [Events -> {"none", "QUEUED", "PROCESSING", "PROCESSED"}]
      /\ ev \in [Workers -> Events \cup {0}]
      /\ \A w \in Workers : pc[w] # "idle" => ev[w] \in Events
  BY DEF TypeOK, StoreType, WorkerType
<1>1. /\ lostLocks = 0 /\ Queued
      /\ \A w \in Workers : Owned(w)
      /\ \A e \in Events : JobKnown(e)
  BY DEF LockInvariant
<1>2. ASSUME NEW e \in Events, Publish(e) PROVE LockInvariant'
  <2>1. jobState[e] = "none"
    BY <1>1, <1>2 DEF Publish, JobKnown
  <2>2. Queued' /\ \A d \in Events : jobState'[d] # "active" => lock'[d] = NoWorker
    BY <1>2, <2>1, Waiting DEF Publish
  <2>3. \A d \in Events : eventStatus'[d] = "none" => jobState'[d] = "none"
    BY <1>0, <1>1, <1>2 DEF Publish, JobKnown
  <2>4. \A w \in Workers : Owned(w)'
    BY <1>0, <1>1, <1>2, <2>1 DEF Publish, Owned, local
  <2> QED
    BY <1>1, <1>2, <2>2, <2>3, <2>4 DEF Publish, LockInvariant, JobKnown, budget
<1>3. ASSUME NEW e \in Events, Promote(e) PROVE LockInvariant'
  <2>1. jobState[e] = "delayed"
    BY <1>3 DEF Promote
  <2>2. Queued' /\ \A d \in Events : jobState'[d] # "active" => lock'[d] = NoWorker
    BY <1>3, <2>1, Waiting DEF Promote
  <2>3. \A d \in Events : eventStatus'[d] = "none" => jobState'[d] = "none"
    BY <1>0, <1>1, <1>3 DEF Promote, JobKnown, db
  <2>4. \A w \in Workers : Owned(w)'
    BY <1>0, <1>1, <1>3, <2>1 DEF Promote, Owned, local, db
  <2> QED
    BY <1>1, <1>3, <2>2, <2>3, <2>4 DEF Promote, LockInvariant, JobKnown, budget
<1>4. ASSUME NEW e \in Events, RecoverStalled(e) PROVE LockInvariant'
  <2>1. jobState[e] = "active" /\ lock[e] = NoWorker /\ UNCHANGED <<lock, eventStatus, pc, ev, lostLocks>>
    BY <1>4 DEF RecoverStalled, db, local, budget
  <2>2. PICK s \in {"failed", "waiting"} : jobState' = [jobState EXCEPT ![e] = s]
    BY <1>4 DEF RecoverStalled
  <2>3. \A w \in Workers : Owned(w)'
    <3>1. \A w \in Workers : pc[w] # "idle" => ev[w] # e
      BY <1>1, <2>1, WorkersAssumption DEF Owned
    <3> QED
      BY <1>0, <1>1, <2>1, <2>2, <3>1 DEF Owned
  <2>4. \A d \in Events : JobKnown(d)'
    BY <1>0, <1>1, <2>1, <2>2 DEF JobKnown
  <2>5. \A i \in 1..Len(queue) : queue[i] \in Events /\ queue[i] # e
    BY <1>0, <1>1, <2>1 DEF Queued
  <2>6. Queued'
    <3>1. CASE queue' = queue
      BY <1>0, <1>1, <2>2, <2>5, <3>1 DEF Queued
    <3>2. CASE queue' = <<e>> \o queue /\ s = "waiting"
      <4>1. /\ Len(queue') = Len(queue) + 1 /\ Len(queue) \in Nat
            /\ queue'[1] = e
            /\ \A i \in 1..Len(queue') : i # 1 => queue'[i] = queue[i - 1] /\ i - 1 \in 1..Len(queue)
        BY <1>0, <3>2
      <4>2. \A i \in 1..Len(queue') : jobState'[queue'[i]] = "waiting"
        BY <1>0, <1>1, <2>2, <2>5, <3>2, <4>1 DEF Queued
      <4>3. \A i, k \in 1..Len(queue') : queue'[i] = queue'[k] => i = k
        <5> SUFFICES ASSUME NEW i \in 1..Len(queue'), NEW k \in 1..Len(queue'), queue'[i] = queue'[k]
                     PROVE  i = k
          OBVIOUS
        <5>1. CASE i = 1 \/ k = 1
          BY <2>5, <4>1, <5>1
        <5>2. CASE i # 1 /\ k # 1
          <6>1. queue[i - 1] = queue[k - 1] /\ i - 1 \in 1..Len(queue) /\ k - 1 \in 1..Len(queue)
            BY <4>1, <5>2
          <6>2. i - 1 = k - 1
            BY <1>1, <6>1 DEF Queued
          <6> QED
            BY <4>1, <6>2
        <5> QED
          BY <5>1, <5>2
      <4> QED
        BY <4>2, <4>3 DEF Queued
    <3>3. queue' = queue \/ (queue' = <<e>> \o queue /\ jobState'[e] = "waiting")
      BY <1>0, <1>4 DEF RecoverStalled
    <3> QED
      BY <1>0, <2>2, <3>1, <3>2, <3>3
  <2> QED
    BY <1>1, <2>1, <2>3, <2>4, <2>6 DEF LockInvariant
<1>5. ASSUME NEW w \in Workers, TakeJob(w) PROVE LockInvariant'
  <2>1. /\ pc[w] = "idle" /\ queue # <<>> /\ queue' = Tail(queue)
        /\ UNCHANGED <<eventStatus, lostLocks>>
    BY <1>5 DEF TakeJob, db, budget
  <2>2. PICK e \in Events : e = Head(queue) /\ e = queue[1]
    BY <1>0, <2>1
  <2>3. /\ jobState' = [jobState EXCEPT ![e] = "active"] /\ lock' = [lock EXCEPT ![e] = w]
        /\ ev' = [ev EXCEPT ![w] = e] /\ pc' = [pc EXCEPT ![w] = "load"]
    BY <1>5, <2>2 DEF TakeJob, Goto
  <2>4. /\ Len(queue') = Len(queue) - 1 /\ Len(queue) \in Nat \ {0}
        /\ \A i \in 1..Len(queue') : queue'[i] = queue[i + 1] /\ i + 1 \in 1..Len(queue)
    BY <1>0, <2>1
  <2>5. jobState[e] = "waiting" /\ eventStatus[e] # "none"
    BY <1>1, <2>2, <2>4 DEF Queued, JobKnown
  <2>6. \A v \in Workers : Owned(v)'
    <3>1. Owned(w)'
      BY <1>0, <2>3 DEF Owned
    <3>2. \A v \in Workers \ {w} : pc'[v] = pc[v] /\ ev'[v] = ev[v]
      BY <1>0, <2>3
    <3>3. \A v \in Workers : pc[v] # "idle" => ev[v] # e
      BY <1>1, <2>5 DEF Owned
    <3>4. \A v \in Workers \ {w} : Owned(v)'
      BY <1>0, <1>1, <2>1, <2>3, <3>2, <3>3 DEF Owned
    <3> QED
      BY <3>1, <3>4
  <2>7. \A d \in Events : JobKnown(d)'
    BY <1>0, <1>1, <2>1, <2>3, <2>5 DEF JobKnown
  <2>8. Queued'
    <3>1. \A i \in 1..Len(queue') : queue'[i] \in Events /\ queue'[i] # e
      <4> SUFFICES ASSUME NEW i \in 1..Len(queue') PROVE queue'[i] \in Events /\ queue'[i] # e
        OBVIOUS
      <4>1. queue'[i] = queue[i + 1] /\ i + 1 \in 1..Len(queue) /\ i + 1 # 1 /\ 1 \in 1..Len(queue)
        BY <2>4
      <4> QED
        BY <1>0, <1>1, <2>2, <4>1 DEF Queued
    <3>2. \A i \in 1..Len(queue') : jobState'[queue'[i]] = "waiting"
      <4> SUFFICES ASSUME NEW i \in 1..Len(queue') PROVE jobState'[queue'[i]] = "waiting"
        OBVIOUS
      <4>1. queue'[i] = queue[i + 1] /\ i + 1 \in 1..Len(queue)
        BY <2>4
      <4>2. jobState[queue'[i]] = "waiting"
        BY <1>1, <4>1 DEF Queued
      <4> QED
        BY <1>0, <2>3, <3>1, <4>2
    <3>3. \A i, k \in 1..Len(queue') : queue'[i] = queue'[k] => i = k
      <4> SUFFICES ASSUME NEW i \in 1..Len(queue'), NEW k \in 1..Len(queue'), queue'[i] = queue'[k]
                   PROVE  i = k
        OBVIOUS
      <4>1. i + 1 = k + 1
        BY <1>1, <2>4 DEF Queued
      <4> QED
        BY <2>4, <4>1
    <3> QED
      BY <3>2, <3>3 DEF Queued
  <2> QED
    BY <1>1, <2>1, <2>6, <2>7, <2>8 DEF LockInvariant
<1>6. ASSUME NEW w \in Workers, LoopStep(w) PROVE LockInvariant'
  <2>1. /\ UNCHANGED <<queue, jobState, lock, eventStatus, ev, lostLocks>> /\ pc[w] # "idle"
        /\ \E step \in PC \ {"idle", "mark"} : Goto(w, step)
    BY <1>6, LoopFrame DEF jobs
  <2>2. \A v \in Workers : Owned(v)'
    BY <1>0, <1>1, <2>1 DEF Owned, Goto
  <2> QED
    BY <1>1, <2>1, <2>2 DEF LockInvariant, JobKnown, Queued
<1>7. ASSUME NEW w \in Workers, LoadEvent(w) PROVE LockInvariant'
  <2>1. /\ UNCHANGED <<queue, jobState, lock, eventStatus, ev, lostLocks>> /\ pc[w] = "load"
        /\ pc' = [pc EXCEPT ![w] = IF eventStatus[ev[w]] = "PROCESSED" THEN "done" ELSE "mark"]
    BY <1>7 DEF LoadEvent, Goto, jobs, db, local, budget
  <2>2. \A v \in Workers : Owned(v)'
    BY <1>0, <1>1, <2>1 DEF Owned
  <2> QED
    BY <1>1, <2>1, <2>2 DEF LockInvariant, JobKnown, Queued
<1>8. ASSUME NEW w \in Workers, MarkProcessing(w) \/ MarkProcessed(w) PROVE LockInvariant'
  <2>1. /\ UNCHANGED <<queue, jobState, lock, ev, lostLocks>> /\ pc[w] \in {"mark", "finish"}
        /\ \E step \in {"snapshot", "done"} : pc' = [pc EXCEPT ![w] = step]
        /\ \E s \in {"PROCESSING", "PROCESSED"} : eventStatus' = [eventStatus EXCEPT ![ev[w]] = s]
    BY <1>8 DEF MarkProcessing, MarkProcessed, Goto, jobs, local, budget
  <2>2. \A v \in Workers \ {w} : pc[v] # "idle" => ev[v] # ev[w]
    BY <1>1, <2>1 DEF Owned
  <2>3. \A v \in Workers : Owned(v)'
    <3>1. Owned(w)'
      BY <1>0, <1>1, <2>1 DEF Owned
    <3>2. \A v \in Workers \ {w} : Owned(v)'
      <4> SUFFICES ASSUME NEW v \in Workers \ {w} PROVE Owned(v)'
        OBVIOUS
      <4>1. pc'[v] = pc[v] /\ (pc[v] # "idle" => eventStatus'[ev[v]] = eventStatus[ev[v]])
        BY <1>0, <2>1, <2>2
      <4> QED
        BY <1>1, <2>1, <4>1 DEF Owned
    <3> QED
      BY <3>1, <3>2
  <2>4. \A d \in Events : JobKnown(d)'
    BY <1>0, <1>1, <2>1 DEF JobKnown
  <2> QED
    BY <1>1, <2>1, <2>3, <2>4 DEF LockInvariant, Queued
<1>9. ASSUME NEW w \in Workers, CompleteJob(w) \/ JobThrows(w) PROVE LockInvariant'
  <2>1. /\ pc[w] # "idle" /\ lock[ev[w]] = w /\ jobState[ev[w]] = "active" /\ ev[w] \in Events
    BY <1>0, <1>1, <1>9 DEF CompleteJob, JobThrows, Owned
  <2>2. PICK e \in Events : e = ev[w]
    BY <2>1
  <2>3. /\ UNCHANGED <<queue, eventStatus, lostLocks>>
        /\ lock' = [lock EXCEPT ![e] = NoWorker] /\ pc' = [pc EXCEPT ![w] = "idle"]
        /\ ev' = [ev EXCEPT ![w] = 0]
        /\ \E s \in {"completed", "delayed", "failed"} : jobState' = [jobState EXCEPT ![e] = s]
    BY <1>9, <2>1, <2>2 DEF CompleteJob, JobThrows, FailJob, Release, Goto, db, budget
  <2>4. \A v \in Workers : Owned(v)'
    <3>1. \A v \in Workers \ {w} : pc'[v] = pc[v] /\ ev'[v] = ev[v] /\ (pc[v] # "idle" => ev[v] # e)
      BY <1>0, <1>1, <2>1, <2>2, <2>3 DEF Owned
    <3>2. \A v \in Workers \ {w} : Owned(v)'
      BY <1>0, <1>1, <2>3, <3>1 DEF Owned
    <3>3. Owned(w)'
      BY <1>0, <2>3 DEF Owned
    <3> QED
      BY <3>2, <3>3
  <2>5. eventStatus[e] # "none"
    BY <1>1, <2>1, <2>2 DEF JobKnown
  <2>6. \A d \in Events : JobKnown(d)'
    BY <1>0, <1>1, <2>3, <2>5 DEF JobKnown
  <2>7. Queued'
    <3>1. \A i \in 1..Len(queue) : queue[i] \in Events /\ queue[i] # e
      BY <1>0, <1>1, <2>1, <2>2 DEF Queued
    <3> QED
      BY <1>0, <1>1, <2>3, <3>1 DEF Queued
  <2> QED
    BY <1>1, <2>3, <2>4, <2>6, <2>7 DEF LockInvariant
<1>10. ASSUME NEW w \in Workers, Crash(w) PROVE LockInvariant'
  <2>1. /\ UNCHANGED <<queue, jobState, eventStatus, lostLocks>>
        /\ lock' = [e \in Events |-> IF lock[e] = w THEN NoWorker ELSE lock[e]]
        /\ pc' = [pc EXCEPT ![w] = "idle"] /\ ev' = [ev EXCEPT ![w] = 0]
    BY <1>10 DEF Crash, Release, Goto, db
  <2>2. \A v \in Workers : Owned(v)'
    BY <1>0, <1>1, <2>1 DEF Owned
  <2>3. \A d \in Events : JobKnown(d)'
    BY <1>0, <1>1, <2>1 DEF JobKnown
  <2> QED
    BY <1>1, <2>1, <2>2, <2>3 DEF LockInvariant, Queued
<1>11. ASSUME NEW w \in Workers, LoseLock(w) PROVE LockInvariant'
  BY <1>1, <1>11 DEF LoseLock, LocksAreKept
<1>12. CASE \/ \E a \in Accounts : MemberPauses(a) \/ MemberStarts(a)
            \/ ClosedOutside
            \/ UNCHANGED vars
  <2>1. UNCHANGED <<queue, jobState, lock, eventStatus, pc, ev, lostLocks>>
    BY <1>12 DEF MemberPauses, MemberStarts, ClosedOutside, vars, db, jobs, local, budget
  <2> QED
    BY <1>1, <2>1 DEF LockInvariant, Owned, JobKnown, Queued
<1> QED
  BY <1>2, <1>3, <1>4, <1>5, <1>6, <1>7, <1>8, <1>9, <1>10, <1>11, <1>12
     DEF Next, WorkerStep, WorkerFails, LoopStep

\* As long as no live worker loses the lock of its job: an event that was processed is never
\* taken back into processing, although its job may be run again after a crash or a retry
\* (processTradeEvent's early return), for any number of workers, crashes and throws.
THEOREM ProcessedStays ==
  ASSUME LocksAreKept PROVE Spec => ProcessedIsFinal
<1>1. TypeOK /\ LockInvariant /\ [Next]_vars
        => [\A e \in Events : eventStatus[e] = "PROCESSED" => eventStatus'[e] = "PROCESSED"]_vars
  <2> SUFFICES ASSUME TypeOK, LockInvariant, [Next]_vars, vars' # vars,
                      NEW e \in Events, eventStatus[e] = "PROCESSED"
               PROVE  eventStatus'[e] = "PROCESSED"
    OBVIOUS
  <2>0. eventStatus \in [Events -> {"none", "QUEUED", "PROCESSING", "PROCESSED"}]
    BY DEF TypeOK, StoreType
  <2>1. CASE \E d \in Events : Publish(d) \/ Promote(d) \/ RecoverStalled(d)
    BY <2>0, <2>1 DEF Publish, Promote, RecoverStalled, db
  <2>2. ASSUME NEW w \in Workers, LoopStep(w) PROVE eventStatus'[e] = "PROCESSED"
    BY <2>2, LoopFrame
  <2>3. ASSUME NEW w \in Workers, MarkProcessing(w) PROVE eventStatus'[e] = "PROCESSED"
    <3>1. ev[w] # e
      BY <2>3 DEF MarkProcessing, LockInvariant, Owned
    <3> QED
      BY <2>0, <2>3, <3>1 DEF MarkProcessing
  <2>4. ASSUME NEW w \in Workers, MarkProcessed(w) PROVE eventStatus'[e] = "PROCESSED"
    BY <2>0, <2>4 DEF MarkProcessed
  <2>5. CASE \E w \in Workers : \/ TakeJob(w) \/ LoadEvent(w) \/ CompleteJob(w)
                                \/ JobThrows(w) \/ Crash(w) \/ LoseLock(w)
    BY <2>5 DEF TakeJob, LoadEvent, CompleteJob, JobThrows, Crash, LoseLock, db
  <2>6. CASE (\E a \in Accounts : MemberPauses(a) \/ MemberStarts(a)) \/ ClosedOutside
    BY <2>6 DEF MemberPauses, MemberStarts, ClosedOutside, db
  <2> QED
    BY <2>1, <2>2, <2>3, <2>4, <2>5, <2>6 DEF Next, WorkerStep, WorkerFails, LoopStep
<1>2. Init => LockInvariant
  BY LockInit
<1>3. TypeOK /\ LockInvariant /\ [Next]_vars => LockInvariant'
  BY LocksAreKept, LockStep
<1> QED
  BY <1>1, <1>2, <1>3, TypeCorrect, PTL DEF Spec, ProcessedIsFinal

-----------------------------------------------------------------------------
(* One worker, and nothing fails: the books agree.                           *)

\* The copies of an account come one after another, and the calls they make succeed.
Sequential ==
  /\ \A v, w \in Workers : v = w
  /\ MaxThrows = 0 /\ MaxCrashes = 0 /\ MaxLostLocks = 0

\* The master's terminal opens one position under a ticket.
OneOpening ==
  \A d, e \in Events : Kind[d] = "OPEN" /\ Kind[e] = "OPEN" /\ Ticket[d] = Ticket[e] => d = e

\* Jobs are taken in the order the master sent the events, each once, and a copy has a row
\* once its event's job is taken.
Taken == {"active", "completed", "failed"}
Calm ==
  /\ throws = 0 /\ crashes = 0
  /\ \A e \in Events : jobState[e] # "delayed" /\ (jobState[e] = "active" => lock[e] # NoWorker)
PublishedInOrder == \A d, e \in Events : eventStatus[e] # "none" /\ d < e => eventStatus[d] # "none"
WaitingInOrder ==
  /\ \A i, k \in 1..Len(queue) : i < k => queue[i] < queue[k]
  /\ \A i \in 1..Len(queue), e \in Events : jobState[e] \in Taken => e < queue[i]
CopiedInOrder ==
  /\ \A w \in Workers, e \in Events : pc[w] # "idle" /\ jobState[e] \in Taken => e <= ev[w]
  /\ \A c \in Copies : row[c] # "none" => jobState[c[1]] \in Taken

OrderInvariant == LockInvariant /\ Calm /\ PublishedInOrder /\ WaitingInOrder /\ CopiedInOrder

LEMMA OrderInit == Init => OrderInvariant
<1> SUFFICES ASSUME Init PROVE OrderInvariant
  OBVIOUS
<1>1. Calm /\ PublishedInOrder /\ WaitingInOrder /\ CopiedInOrder
  BY DEF Init, Calm, PublishedInOrder, WaitingInOrder, CopiedInOrder, Taken, Copies
<1> QED
  BY <1>1, LockInit DEF OrderInvariant

\* A step in the member loop gives a row to the copy at hand only.
LEMMA RowFrame ==
  ASSUME TypeOK, NEW w \in Workers, LoopStep(w)
  PROVE  /\ \A c \in Copies : row'[c] # row[c] => c = Copy(w)
         /\ (throws' = throws \/ throws < MaxThrows) /\ crashes' = crashes
<1>0. row \in [Copies -> RowStatus]
  BY DEF TypeOK, StoreType
<1> USE <1>0 DEF db, broker, local, budget
<1>1. CASE Snapshot(w) \/ NextCopy(w) \/ EndLoop(w)
  BY <1>1 DEF Snapshot, NextCopy, EndLoop
<1>2. CASE CreateRow(w) \/ DuplicateSuppressed(w) \/ SkipRow(w) \/ RejectRow(w) \/ StampLatency(w) \/ FailRow(w)
  BY <1>2 DEF CreateRow, DuplicateSuppressed, SkipRow, RejectRow, WriteRow, StampLatency, FailRow
<1>3. CASE ReadPositions(w) \/ CheckRisk(w) \/ PauseForBreach(w)
  BY <1>3 DEF ReadPositions, CheckRisk, PauseForBreach
<1>4. CASE OrderExecuted(w) \/ OrderRejected(w) \/ OrderAnswerLost(w)
  BY <1>4 DEF OrderExecuted, OrderRejected, OrderAnswerLost
<1>5. CASE FillRow(w) \/ FillMapping(w) \/ FillCount(w) \/ SettleRow(w)
  BY <1>5 DEF FillRow, WriteRow, FillMapping, FillCount, SettleRow
<1>6. CASE ReadMapping(w) \/ AdjustRejected(w) \/ AdjustExecuted(w)
  BY <1>6 DEF ReadMapping, AdjustRejected, AdjustExecuted
<1>7. CASE AdjustAnswerLost(w) \/ MemberThrows(w) \/ CopyThrows(w)
  BY <1>7 DEF AdjustAnswerLost, MemberThrows, CopyThrows
<1>8. CASE RemapTicket(w) \/ ReduceMapping(w) \/ CloseMapping(w) \/ CloseCount(w)
  BY <1>8 DEF RemapTicket, ReduceMapping, CloseMapping, WriteMapping, CloseCount
<1> QED
  BY <1>1, <1>2, <1>3, <1>4, <1>5, <1>6, <1>7, <1>8 DEF LoopStep

\* Nothing fails: no call throws, no process dies.
LEMMA NothingFails ==
  ASSUME Sequential, Calm, LockInvariant, NEW w \in Workers
  PROVE  /\ ~JobThrows(w) /\ ~MemberThrows(w) /\ ~CopyThrows(w) /\ ~Crash(w) /\ ~LoseLock(w)
         /\ ~OrderAnswerLost(w) /\ ~AdjustAnswerLost(w) /\ ~(throws < MaxThrows)
BY DEF Sequential, Calm, LockInvariant, JobThrows, MemberThrows, CopyThrows, Crash, LoseLock, OrderAnswerLost,
   AdjustAnswerLost

LEMMA OrderStep ==
  Sequential /\ TypeOK /\ OrderInvariant /\ [Next]_vars => OrderInvariant'
<1> SUFFICES ASSUME Sequential, TypeOK, OrderInvariant, [Next]_vars PROVE OrderInvariant'
  OBVIOUS
<1>0. /\ queue \in Seq(Events) /\ jobState \in [Events -> JobState] /\ pc \in [Workers -> PC]
      /\ lock \in [Events -> Workers \cup {NoWorker}] /\ ev \in [Workers -> Events \cup {0}]
      /\ eventStatus \in [Events -> {"none", "QUEUED", "PROCESSING", "PROCESSED"}]
      /\ \A w \in Workers : pc[w] # "idle" => ev[w] \in Events
      /\ Events \subseteq Nat \ {0}
  BY EventsAssumption DEF TypeOK, StoreType, WorkerType
<1>1. LockInvariant /\ Calm /\ PublishedInOrder /\ WaitingInOrder /\ CopiedInOrder
  BY DEF OrderInvariant
<1>2. LockInvariant'
  BY <1>1, LockStep DEF Sequential, LocksAreKept
<1>3. ASSUME NEW e \in Events, Publish(e) PROVE OrderInvariant'
  <2>1. /\ jobState' = [jobState EXCEPT ![e] = "waiting"] /\ eventStatus' = [eventStatus EXCEPT ![e] = "QUEUED"]
        /\ queue' = Append(queue, e) /\ eventStatus[e] = "none" /\ UNCHANGED <<lock, pc, ev, row, throws, crashes>>
        /\ \A d \in Events : d < e => eventStatus[d] # "none"
    BY <1>3 DEF Publish, local, budget
  <2>2. \A d \in Events : jobState[d] # "none" => d < e
    <3>1. \A d \in Events : eventStatus[d] # "none" => d < e
      BY <1>0, <1>1, <2>1 DEF PublishedInOrder
    <3> QED
      BY <1>1, <3>1 DEF LockInvariant, JobKnown
  <2>3. /\ Len(queue') = Len(queue) + 1 /\ Len(queue) \in Nat
        /\ \A i \in 1..Len(queue) : queue'[i] = queue[i] /\ queue[i] \in Events
        /\ queue'[Len(queue) + 1] = e
    BY <1>0, <2>1
  <2>4. \A i \in 1..Len(queue) : queue[i] < e
    BY <1>1, <2>2, <2>3 DEF LockInvariant, Queued
  <2>5. Calm' /\ PublishedInOrder'
    BY <1>0, <1>1, <2>1 DEF Calm, PublishedInOrder
  <2>6. \A i \in 1..Len(queue') : i \in 1..Len(queue) \/ i = Len(queue) + 1
    BY <2>3
  <2>7. jobState[e] = "none"
    BY <1>1, <2>1 DEF LockInvariant, JobKnown
  <2>8. \A d \in Events : jobState'[d] \in Taken => jobState[d] \in Taken /\ d < e
    BY <1>0, <2>1, <2>2 DEF Taken
  <2>9. \A i, k \in 1..Len(queue') : i < k => queue'[i] < queue'[k]
    BY <1>1, <2>3, <2>4, <2>6 DEF WaitingInOrder
  <2>10. \A i \in 1..Len(queue'), d \in Events : jobState'[d] \in Taken => d < queue'[i]
    BY <1>1, <2>3, <2>6, <2>8 DEF WaitingInOrder
  <2>11. CopiedInOrder'
    BY <1>0, <1>1, <2>1, <2>7, <2>8 DEF CopiedInOrder, Taken, Copies
  <2> QED
    BY <1>2, <2>5, <2>9, <2>10, <2>11 DEF OrderInvariant, WaitingInOrder
<1>4. ASSUME NEW e \in Events, Promote(e) \/ RecoverStalled(e) PROVE OrderInvariant'
  BY <1>1, <1>4 DEF Calm, Promote, RecoverStalled
<1>5. ASSUME NEW w \in Workers, TakeJob(w) PROVE OrderInvariant'
  <2>1. /\ pc[w] = "idle" /\ queue # <<>> /\ queue' = Tail(queue)
        /\ UNCHANGED <<eventStatus, row, throws, crashes>>
    BY <1>5 DEF TakeJob, db, budget
  <2>2. PICK e \in Events : e = Head(queue) /\ e = queue[1]
    BY <1>0, <2>1
  <2>3. /\ jobState' = [jobState EXCEPT ![e] = "active"] /\ lock' = [lock EXCEPT ![e] = w]
        /\ ev' = [ev EXCEPT ![w] = e] /\ pc' = [pc EXCEPT ![w] = "load"]
    BY <1>5, <2>2 DEF TakeJob, Goto
  <2>4. /\ Len(queue') = Len(queue) - 1 /\ Len(queue) \in Nat \ {0} /\ 1 \in 1..Len(queue)
        /\ \A i \in 1..Len(queue') : queue'[i] = queue[i + 1] /\ i + 1 \in 1..Len(queue) /\ 1 < i + 1
    BY <1>0, <2>1
  <2>5. \A d \in Events : jobState'[d] \in Taken => d = e \/ (jobState[d] \in Taken /\ d < e)
    BY <1>0, <1>1, <2>2, <2>3, <2>4 DEF WaitingInOrder
  <2>6. Calm'
    BY <1>0, <1>1, <2>1, <2>3, WorkersAssumption DEF Calm
  <2>7. WaitingInOrder'
    <3>1. \A i \in 1..Len(queue') : e < queue'[i]
      BY <1>1, <2>2, <2>4 DEF WaitingInOrder
    <3>2. ASSUME NEW i \in 1..Len(queue'), NEW k \in 1..Len(queue'), i < k PROVE queue'[i] < queue'[k]
      <4>1. i + 1 < k + 1
        BY <3>2
      <4> QED
        BY <1>1, <2>4, <4>1 DEF WaitingInOrder
    <3>3. ASSUME NEW i \in 1..Len(queue'), NEW d \in Events, jobState'[d] \in Taken PROVE d < queue'[i]
      BY <1>1, <2>4, <2>5, <3>1, <3>3 DEF WaitingInOrder
    <3> QED
      BY <3>2, <3>3 DEF WaitingInOrder
  <2>8. CopiedInOrder'
    <3>1. \A v \in Workers : v = w
      BY DEF Sequential
    <3>2. \A c \in Copies : row'[c] # "none" => jobState'[c[1]] \in Taken
      BY <1>0, <1>1, <2>1, <2>3 DEF CopiedInOrder, Taken, Copies
    <3>3. \A d \in Events : jobState'[d] \in Taken => d <= ev'[w]
      BY <1>0, <2>3, <2>5
    <3> QED
      BY <3>1, <3>2, <3>3 DEF CopiedInOrder
  <2> QED
    BY <1>1, <1>2, <2>1, <2>6, <2>7, <2>8 DEF OrderInvariant, PublishedInOrder
<1>6. ASSUME NEW w \in Workers, LoopStep(w) PROVE OrderInvariant'
  <2>1. /\ UNCHANGED <<queue, jobState, lock, eventStatus, ev>> /\ pc[w] # "idle"
        /\ \E step \in PC \ {"idle", "mark"} : Goto(w, step)
    BY <1>6, LoopFrame DEF jobs
  <2>2. UNCHANGED <<throws, crashes>> /\ \A c \in Copies : row'[c] # row[c] => c = Copy(w)
    BY <1>1, <1>6, RowFrame, NothingFails
  <2>3. jobState[ev[w]] = "active"
    BY <1>1, <2>1 DEF LockInvariant, Owned
  <2>4. CopiedInOrder'
    BY <1>0, <1>1, <2>1, <2>2, <2>3 DEF CopiedInOrder, Taken, Copy, Goto
  <2> QED
    BY <1>1, <1>2, <2>1, <2>2, <2>4 DEF OrderInvariant, Calm, PublishedInOrder, WaitingInOrder
<1>7. ASSUME NEW w \in Workers, LoadEvent(w) \/ MarkProcessing(w) \/ MarkProcessed(w) PROVE OrderInvariant'
  <2>1. /\ UNCHANGED <<queue, jobState, lock, ev, row, throws, crashes>> /\ pc[w] # "idle"
        /\ \E step \in {"mark", "snapshot", "done"} : pc' = [pc EXCEPT ![w] = step]
        /\ \A e \in Events : eventStatus[e] # "none" => eventStatus'[e] # "none"
        /\ \A e \in Events : eventStatus'[e] # "none" => eventStatus[e] # "none" \/ e = ev[w]
    BY <1>0, <1>7 DEF LoadEvent, MarkProcessing, MarkProcessed, Goto, db, jobs, local, budget
  <2>2. eventStatus[ev[w]] # "none" /\ ev[w] \in Events
    BY <1>0, <1>1, <2>1 DEF LockInvariant, Owned, JobKnown
  <2>3. PublishedInOrder'
    BY <1>1, <2>1, <2>2 DEF PublishedInOrder
  <2>4. CopiedInOrder'
    BY <1>0, <1>1, <2>1 DEF CopiedInOrder
  <2> QED
    BY <1>1, <1>2, <2>1, <2>3, <2>4 DEF OrderInvariant, Calm, WaitingInOrder
<1>8. ASSUME NEW w \in Workers, CompleteJob(w) PROVE OrderInvariant'
  <2>1. /\ pc[w] # "idle" /\ lock[ev[w]] = w /\ jobState[ev[w]] = "active" /\ ev[w] \in Events
    BY <1>0, <1>1, <1>8 DEF CompleteJob, LockInvariant, Owned
  <2>2. /\ UNCHANGED <<queue, eventStatus, row, throws, crashes>>
        /\ lock' = [lock EXCEPT ![ev[w]] = NoWorker] /\ pc' = [pc EXCEPT ![w] = "idle"]
        /\ ev' = [ev EXCEPT ![w] = 0] /\ jobState' = [jobState EXCEPT ![ev[w]] = "completed"]
    BY <1>8, <2>1 DEF CompleteJob, Release, Goto, db, budget
  <2>3. \A d \in Events : jobState'[d] \in Taken <=> jobState[d] \in Taken
    BY <1>0, <2>1, <2>2 DEF Taken
  <2>4. Calm'
    BY <1>0, <1>1, <2>1, <2>2 DEF Calm
  <2>5. CopiedInOrder'
    BY <1>0, <1>1, <2>2, <2>3 DEF CopiedInOrder, Copies
  <2> QED
    BY <1>1, <1>2, <2>2, <2>3, <2>4, <2>5 DEF OrderInvariant, PublishedInOrder, WaitingInOrder
<1>9. ASSUME NEW w \in Workers, WorkerFails(w) PROVE FALSE
  BY <1>1, <1>9, NothingFails DEF WorkerFails
<1>10. CASE \/ \E a \in Accounts : MemberPauses(a) \/ MemberStarts(a)
            \/ ClosedOutside
            \/ UNCHANGED vars
  <2>1. UNCHANGED <<queue, jobState, lock, eventStatus, pc, ev, row, throws, crashes>>
    BY <1>10 DEF MemberPauses, MemberStarts, ClosedOutside, vars, db, jobs, local, budget
  <2> QED
    BY <1>1, <1>2, <2>1 DEF OrderInvariant, Calm, PublishedInOrder, WaitingInOrder, CopiedInOrder
<1> QED
  BY <1>3, <1>4, <1>5, <1>6, <1>7, <1>8, <1>9, <1>10 DEF Next, WorkerStep, LoopStep

\* The slots of the account's mappings that say a position is open.
OpenStatus == {"OPEN", "PARTIALLY_CLOSED"}
SlotOf(c) == <<c[2], Ticket[c[1]]>>
OpenSlots(a) == {t \in Tickets : mapping[<<a, t>>].status \in OpenStatus}

\* Between an order, or the re-issue of a ticket, and the write that records it the worker
\* alone knows the position; at any other time its mapping does.
Recording == {"fill", "map", "remap"}
KnownBy(w, p) == pc[w] \in Recording /\ Slot(w) = SlotOf(p.copy)
PositionKnown(p) ==
  /\ Kind[p.copy[1]] = "OPEN"
  /\ \A w \in Workers : KnownBy(w, p) => p = seen[w]
  /\ (\A w \in Workers : ~KnownBy(w, p)) =>
        mapping[SlotOf(p.copy)].ticket = p /\ mapping[SlotOf(p.copy)].status \in OpenStatus

\* A mapping names a position of its slot; a copy that is not begun has neither.
SlotNamed(s) == mapping[s].status # "none" => mapping[s].ticket \in Position /\ SlotOf(mapping[s].ticket.copy) = s
Fresh(c) == mapping[SlotOf(c)].status = "none" /\ \A p \in live : p.copy # c

\* What a worker at each step relies on about the slot of the copy at hand.
SlotDuty(w) ==
  /\ pc[w] \in BeforeOrder => Fresh(Copy(w))
  /\ pc[w] \in {"fill", "map"} => mapping[Slot(w)].status = "none"
  /\ pc[w] \in BeforeOrder \cup AfterOrder => Kind[ev[w]] = "OPEN"
  /\ pc[w] = "skip" /\ Kind[ev[w]] # "OPEN" => mapping[Slot(w)].status \in {"none", "CLOSED"}
  /\ pc[w] \in {"act", "remap", "partial", "close"} => mapping[Slot(w)].status \in OpenStatus
  /\ pc[w] = "act" => seen[w] = mapping[Slot(w)].ticket
  /\ pc[w] \in Recording => seen[w] \in Position /\ SlotOf(seen[w].copy) = Slot(w)
  /\ pc[w] = "close" => \A p \in live : SlotOf(p.copy) # Slot(w)
  /\ pc[w] # "failrow"

\* What the count of open trades lacks while a worker is between the mapping and the count.
Ahead(a) == IF \E w \in Workers : pc[w] = "count" /\ mem[w] = a THEN 1
            ELSE IF \E w \in Workers : pc[w] = "uncount" /\ mem[w] = a THEN -1 ELSE 0
CountKnown(a) == IsFiniteSet(OpenSlots(a)) /\ openTrades[a] + Ahead(a) = Cardinality(OpenSlots(a))

SlotsKnown ==
  /\ \A p \in live : PositionKnown(p)
  /\ \A s \in Accounts \X Tickets : SlotNamed(s)
  /\ \A c \in Copies : Kind[c[1]] = "OPEN" /\ row[c] = "none" => Fresh(c)
  /\ \A w \in Workers : SlotDuty(w)
CountsKnown == \A a \in Accounts : CountKnown(a)

BooksInvariant == SlotsKnown /\ CountsKnown /\ SkippedMeansNothingHeld

LEMMA EventIsNumber == \A e \in Events : e \in Int
BY EventsAssumption

\* The books agree: between two copies no worker knows more than the mappings do.
LEMMA BooksFollow == TypeOK /\ BooksInvariant => BooksAgree
<1> SUFFICES ASSUME TypeOK, BooksInvariant PROVE BooksAgree
  OBVIOUS
<1>1. ASSUME NEW p \in live, ~Busy(p.copy[2])
      PROVE  mapping[SlotOf(p.copy)].ticket = p /\ mapping[SlotOf(p.copy)].status \in OpenStatus
  <2>1. \A w \in Workers : ~KnownBy(w, p)
    BY <1>1 DEF KnownBy, Busy, Slot, SlotOf, Recording, HoldPC, BodyPC, AfterOrder, AdjustPC
  <2> QED
    BY <2>1 DEF BooksInvariant, SlotsKnown, PositionKnown
<1>2. ASSUME NEW a \in Accounts, ~Busy(a) PROVE openTrades[a] = Cardinality(OpenSlots(a))
  <2>1. Ahead(a) = 0
    BY <1>2 DEF Ahead, Busy, HoldPC, BodyPC, AfterOrder, AdjustPC
  <2>2. openTrades[a] \in Int
    BY DEF TypeOK, StoreType
  <2> QED
    BY <2>1, <2>2 DEF BooksInvariant, CountsKnown, CountKnown
<1> QED
  BY <1>1, <1>2 DEF BooksAgree, Tracked, OpenTradesCountMappings, SlotOf, OpenStatus, OpenSlots

LEMMA BooksInit == Init => BooksInvariant
<1> SUFFICES ASSUME Init PROVE BooksInvariant
  OBVIOUS
<1>1. SlotsKnown
  BY EventsAssumption DEF Init, SlotsKnown, SlotNamed, Fresh, SlotOf, SlotDuty, Copies, BeforeOrder, AfterOrder, Recording
<1>2. ASSUME NEW a \in Accounts PROVE CountKnown(a)
  <2>1. OpenSlots(a) = {}
    BY DEF Init, OpenSlots, OpenStatus
  <2>2. Ahead(a) = 0 /\ openTrades[a] = 0
    BY DEF Init, Ahead
  <2> QED
    BY <2>1, <2>2, FS_EmptySet DEF CountKnown
<1> QED
  BY <1>1, <1>2 DEF Init, BooksInvariant, CountsKnown, SkippedMeansNothingHeld

\* Slots and what types say of them.
LEMMA SlotTypes ==
  ASSUME TypeOK
  PROVE  /\ \A p \in live : p \in Position /\ p.copy \in Copies
         /\ \A c \in Copies : SlotOf(c) \in Accounts \X Tickets /\ c[1] \in Events /\ c[2] \in Accounts
         /\ \A w \in Workers : pc[w] \in HoldPC => /\ Slot(w) \in Accounts \X Tickets /\ Slot(w) = SlotOf(Copy(w))
                                                  /\ mem[w] \in Accounts /\ ev[w] \in Events
                                                  /\ Slot(w) = <<mem[w], Ticket[ev[w]]>> /\ Copy(w) \in Copies
                                                  /\ Copy(w) = <<ev[w], mem[w]>>
         /\ mapping \in [Accounts \X Tickets -> MappingType] /\ row \in [Copies -> RowStatus]
         /\ openTrades \in [Accounts -> Int] /\ pc \in [Workers -> PC]
         /\ ev \in [Workers -> Events \cup {0}] /\ mem \in [Workers -> Accounts \cup {NoAccount}]
         /\ seen \in [Workers -> Position \cup {NoPosition}]
<1>1. \A w \in Workers : pc[w] \in HoldPC => mem[w] \in Accounts /\ ev[w] \in Events
  BY MemoryType, Steps
<1> QED
  BY <1>1, EventsAssumption DEF TypeOK, StoreType, WorkerType, Position, Copies, SlotOf, Slot, Copy

\* A step that writes neither mappings nor positions nor the count, begun and ended at steps
\* whose work is recorded, with the duty of its new step.
LEMMA BooksMove ==
  ASSUME TypeOK, BooksInvariant, NEW w \in Workers, \A v \in Workers : v = w,
         UNCHANGED <<live, mapping, openTrades>>,
         \A c \in Copies : row'[c] = "none" => row[c] = "none",
         pc[w] \notin Recording \cup {"count", "uncount"}, pc'[w] \notin Recording \cup {"count", "uncount"},
         SlotDuty(w)', SkippedMeansNothingHeld'
  PROVE  BooksInvariant'
<1>1. ASSUME NEW p \in live PROVE PositionKnown(p)'
  BY DEF BooksInvariant, SlotsKnown, PositionKnown, KnownBy
<1>2. SlotsKnown'
  BY <1>1 DEF BooksInvariant, SlotsKnown, SlotNamed, Fresh
<1>3. CountsKnown'
  BY DEF BooksInvariant, CountsKnown, CountKnown, Ahead, OpenSlots
<1> QED
  BY <1>2, <1>3 DEF BooksInvariant

\* A step that touches none of it.
LEMMA BooksStill ==
  ASSUME BooksInvariant, UNCHANGED <<live, mapping, openTrades, row, pc, ev, mem, seen>>
  PROVE  BooksInvariant'
BY DEF BooksInvariant, SlotsKnown, PositionKnown, KnownBy, SlotNamed, Fresh, SlotDuty, CountsKnown, CountKnown, Ahead,
   OpenSlots, SkippedMeansNothingHeld, Copy, Slot

\* Steps without a duty: those outside the member loop's body, and these of it.
Free == {"idle", "claim", "adjust", "reject", "stamp", "settle"} \cup JobPC
\* Only a step that writes SKIPPED, or an order, bears on what a skip means.
LEMMA SkipsStand ==
  ASSUME TypeOK, BooksInvariant,
         \A p \in live' : \E q \in live : p.copy = q.copy,
         \A c \in Copies : row'[c] = "SKIPPED" => row[c] = "SKIPPED"
  PROVE  SkippedMeansNothingHeld'
<1>1. SkippedMeansNothingHeld
  BY DEF BooksInvariant
<1> SUFFICES ASSUME NEW e \in Events, NEW p \in live', Kind[e] # "OPEN", row'[<<e, p.copy[2]>>] = "SKIPPED",
                    Ticket[e] = Ticket[p.copy[1]]
             PROVE  e < p.copy[1]
  BY DEF SkippedMeansNothingHeld
<1>2. PICK q \in live : p.copy = q.copy
  OBVIOUS
<1>3. <<e, q.copy[2]>> \in Copies
  BY SlotTypes DEF Copies
<1> QED
  BY <1>1, <1>2, <1>3 DEF SkippedMeansNothingHeld

\* The steps around the copies: the job, the loop and the rows, and what is decided before an order.
LEMMA BooksLoop ==
  ASSUME TypeOK, BooksInvariant, NEW w \in Workers, \A v \in Workers : v = w,
         \/ TakeJob(w) \/ LoadEvent(w) \/ MarkProcessing(w) \/ Snapshot(w) \/ NextCopy(w) \/ EndLoop(w)
         \/ MarkProcessed(w) \/ CompleteJob(w) \/ DuplicateSuppressed(w) \/ StampLatency(w)
         \/ OrderRejected(w) \/ AdjustRejected(w)
  PROVE  BooksInvariant'
<1>0. pc \in [Workers -> PC]
  BY SlotTypes
<1>1. /\ UNCHANGED <<live, mapping, openTrades, row>>
      /\ \E step \in Free : pc' = [pc EXCEPT ![w] = step]
      /\ pc[w] \in Free \cup {"send", "act"}
  BY DEF TakeJob, LoadEvent, MarkProcessing, Snapshot, NextCopy, EndLoop, MarkProcessed, CompleteJob,
     DuplicateSuppressed, StampLatency, OrderRejected, AdjustRejected, NextMember, Release, Goto, Free, JobPC,
     db, broker
<1>2. pc'[w] \in Free /\ pc[w] \notin Recording \cup {"count", "uncount"}
  BY <1>0, <1>1 DEF Free, JobPC, Recording
<1>3. SlotDuty(w)' /\ pc'[w] \notin Recording \cup {"count", "uncount"}
  BY <1>2 DEF Free, SlotDuty, JobPC, BeforeOrder, AfterOrder, Recording
<1>4. SkippedMeansNothingHeld'
  BY <1>1, SkipsStand
<1> QED
  BY <1>1, <1>2, <1>3, <1>4, BooksMove

LEMMA BooksCreateRow ==
  ASSUME TypeOK, BooksInvariant, NEW w \in Workers, \A v \in Workers : v = w, CreateRow(w)
  PROVE  BooksInvariant'
<1>0. /\ pc \in [Workers -> PC] /\ row \in [Copies -> RowStatus] /\ pc[w] = "claim"
      /\ ev[w] \in Events /\ mem[w] \in Accounts
  BY SlotTypes, MemoryType DEF CreateRow
<1>1. /\ UNCHANGED <<live, mapping, openTrades, ev, mem, seen>> /\ row[Copy(w)] = "none"
      /\ row' = [row EXCEPT ![Copy(w)] = "PENDING"] /\ Copy(w) \in Copies /\ Copy(w)[1] = ev[w]
      /\ pc'[w] = (IF Kind[ev[w]] = "OPEN" THEN "open" ELSE "adjust")
  BY <1>0 DEF CreateRow, Goto, broker, local, Copy, Copies
<1>2. Kind[ev[w]] = "OPEN" => Fresh(Copy(w))
  BY <1>1 DEF BooksInvariant, SlotsKnown
<1>3. SlotDuty(w)'
  BY <1>1, <1>2 DEF SlotDuty, BeforeOrder, AfterOrder, Recording, Fresh, Copy
<1>4. \A c \in Copies : (row'[c] = "none" => row[c] = "none") /\ (row'[c] = "SKIPPED" => row[c] = "SKIPPED")
  BY <1>0, <1>1
<1>5. SkippedMeansNothingHeld'
  BY <1>1, <1>4, SkipsStand
<1>6. pc[w] \notin Recording \cup {"count", "uncount"} /\ pc'[w] \notin Recording \cup {"count", "uncount"}
  BY <1>0, <1>1 DEF Recording
<1> QED
  BY <1>1, <1>3, <1>4, <1>5, <1>6, BooksMove

\* A skip is written for a copy whose slot holds nothing.
LEMMA BooksSkipRow ==
  ASSUME TypeOK, BooksInvariant, NEW w \in Workers, \A v \in Workers : v = w, SkipRow(w)
  PROVE  BooksInvariant'
<1>0. pc \in [Workers -> PC] /\ row \in [Copies -> RowStatus] /\ pc[w] = "skip" /\ pc[w] \in HoldPC
  BY SlotTypes DEF SkipRow, WriteRow, HoldPC, BodyPC
<1>1. /\ UNCHANGED <<live, mapping, openTrades, ev, mem, seen>>
      /\ row' = [row EXCEPT ![Copy(w)] = "SKIPPED"] /\ pc'[w] = "stamp"
  BY <1>0 DEF SkipRow, WriteRow, Goto, broker, local
<1>2. SlotDuty(w)' /\ pc[w] \notin Recording \cup {"count", "uncount"} /\ pc'[w] \notin Recording \cup {"count", "uncount"}
  BY <1>0, <1>1 DEF SlotDuty, BeforeOrder, AfterOrder, Recording
<1>3. SkippedMeansNothingHeld'
  <2> SUFFICES ASSUME NEW e \in Events, NEW p \in live, Kind[e] # "OPEN", row'[<<e, p.copy[2]>>] = "SKIPPED",
                      Ticket[e] = Ticket[p.copy[1]]
               PROVE  e < p.copy[1]
    BY <1>1 DEF SkippedMeansNothingHeld
  <2>1. <<e, p.copy[2]>> \in Copies
    BY SlotTypes DEF Copies
  <2>2. CASE <<e, p.copy[2]>> # Copy(w)
    BY <1>0, <1>1, <2>1, <2>2 DEF BooksInvariant, SkippedMeansNothingHeld
  <2>3. CASE <<e, p.copy[2]>> = Copy(w)
    <3>1. e = ev[w] /\ Slot(w) = SlotOf(p.copy)
      BY <2>3 DEF Copy, Slot, SlotOf
    <3>2. mapping[Slot(w)].status \in {"none", "CLOSED"}
      BY <1>0, <3>1 DEF BooksInvariant, SlotsKnown, SlotDuty
    <3>3. mapping[SlotOf(p.copy)].status \in OpenStatus
      BY <1>0 DEF BooksInvariant, SlotsKnown, PositionKnown, KnownBy, Recording
    <3> QED
      BY <3>1, <3>2, <3>3 DEF OpenStatus
  <2> QED
    BY <2>2, <2>3
<1>4. \A c \in Copies : row'[c] = "none" => row[c] = "none"
  BY <1>0, <1>1
<1> QED
  BY <1>1, <1>2, <1>3, <1>4, BooksMove

LEMMA BooksVerdict ==
  ASSUME TypeOK, BooksInvariant, NEW w \in Workers, \A v \in Workers : v = w, RejectRow(w) \/ SettleRow(w)
  PROVE  BooksInvariant'
<1>0. pc \in [Workers -> PC] /\ row \in [Copies -> RowStatus] /\ pc[w] \in {"reject", "settle"}
  BY SlotTypes DEF RejectRow, SettleRow, WriteRow
<1>1. /\ UNCHANGED <<live, mapping, openTrades, ev, mem, seen>> /\ pc'[w] = "stamp"
      /\ \E status \in {"FAILED", "SUCCESS"} : row' = [row EXCEPT ![Copy(w)] = status]
  BY <1>0 DEF RejectRow, SettleRow, WriteRow, Goto, broker, local
<1>2. SlotDuty(w)' /\ pc[w] \notin Recording \cup {"count", "uncount"} /\ pc'[w] \notin Recording \cup {"count", "uncount"}
  BY <1>0, <1>1 DEF SlotDuty, BeforeOrder, AfterOrder, Recording
<1>3. \A c \in Copies : (row'[c] = "none" => row[c] = "none") /\ (row'[c] = "SKIPPED" => row[c] = "SKIPPED")
  BY <1>0, <1>1
<1>4. SkippedMeansNothingHeld'
  BY <1>1, <1>3, SkipsStand
<1> QED
  BY <1>1, <1>2, <1>3, <1>4, BooksMove

\* Until the order nothing of the copy is live, so that no earlier order is found.
LEMMA BooksDecide ==
  ASSUME TypeOK, BooksInvariant, NEW w \in Workers, \A v \in Workers : v = w,
         ReadPositions(w) \/ CheckRisk(w) \/ PauseForBreach(w)
  PROVE  BooksInvariant'
<1>0. pc \in [Workers -> PC] /\ pc[w] \in {"open", "risk", "breach"}
  BY SlotTypes DEF ReadPositions, CheckRisk, PauseForBreach
<1>1. Fresh(Copy(w)) /\ Kind[ev[w]] = "OPEN"
  BY <1>0 DEF BooksInvariant, SlotsKnown, SlotDuty, BeforeOrder
<1>2. /\ UNCHANGED <<live, mapping, openTrades, row, ev, mem, seen>>
      /\ pc'[w] \in {"risk", "breach", "send", "skip"}
  <2>1. CASE ReadPositions(w)
    <3>1. {p \in live : p.copy = Copy(w)} = {}
      BY <1>1 DEF Fresh
    <3> QED
      BY <1>0, <2>1, <3>1 DEF ReadPositions, Goto, db, broker
  <2>2. CASE CheckRisk(w) \/ PauseForBreach(w)
    BY <1>0, <2>2 DEF CheckRisk, PauseForBreach, Goto, broker, local
  <2> QED
    BY <2>1, <2>2
<1>3. SlotDuty(w)' /\ pc[w] \notin Recording \cup {"count", "uncount"} /\ pc'[w] \notin Recording \cup {"count", "uncount"}
  BY <1>0, <1>1, <1>2 DEF SlotDuty, BeforeOrder, AfterOrder, Recording, Fresh, Copy
<1>4. SkippedMeansNothingHeld'
  BY <1>2, SkipsStand
<1> QED
  BY <1>2, <1>3, <1>4, BooksMove

LEMMA BooksReadMapping ==
  ASSUME TypeOK, BooksInvariant, NEW w \in Workers, \A v \in Workers : v = w, ReadMapping(w)
  PROVE  BooksInvariant'
<1>0. pc \in [Workers -> PC] /\ pc[w] = "adjust" /\ pc[w] \in HoldPC /\ seen \in [Workers -> Position \cup {NoPosition}]
  BY SlotTypes DEF ReadMapping, HoldPC, BodyPC, AdjustPC
<1>1. /\ UNCHANGED <<live, mapping, openTrades, row, ev, mem>>
      /\ \/ pc'[w] = "skip" /\ mapping[Slot(w)].status \in {"none", "CLOSED"}
         \/ pc'[w] = "act" /\ mapping[Slot(w)].status \in OpenStatus /\ seen'[w] = mapping[Slot(w)].ticket
  <2>1. mapping[Slot(w)].status \in {"none", "CLOSED"} \cup OpenStatus
    BY <1>0, SlotTypes DEF MappingType, MappingStatus, OpenStatus
  <2> QED
    BY <1>0, <2>1 DEF ReadMapping, Goto, db, broker
<1>2. SlotDuty(w)' /\ pc[w] \notin Recording \cup {"count", "uncount"} /\ pc'[w] \notin Recording \cup {"count", "uncount"}
  BY <1>0, <1>1 DEF SlotDuty, BeforeOrder, AfterOrder, Recording, Slot
<1>3. SkippedMeansNothingHeld'
  BY <1>1, SkipsStand
<1> QED
  BY <1>1, <1>2, <1>3, BooksMove

\* What is in the slot of an opening copy comes from that copy: the terminal opens a ticket once.
LEMMA OpenedOnce ==
  ASSUME OneOpening, NEW c \in Copies, NEW d \in Copies, Kind[c[1]] = "OPEN", Kind[d[1]] = "OPEN", SlotOf(c) = SlotOf(d)
  PROVE  c = d
<1>1. c[1] = d[1] /\ c[2] = d[2]
  BY DEF OneOpening, SlotOf, Copies
<1> QED
  BY <1>1 DEF Copies

\* The order: its position is known to the worker, and every adjustment skipped so far is of an
\* earlier event.
LEMMA BooksOrder ==
  ASSUME OneOpening, TypeOK, CopyInvariant, OrderInvariant, BooksInvariant,
         NEW w \in Workers, \A v \in Workers : v = w, OrderExecuted(w)
  PROVE  BooksInvariant'
<1>0. /\ pc \in [Workers -> PC] /\ pc[w] = "send" /\ pc[w] \in HoldPC /\ seen \in [Workers -> Position \cup {NoPosition}]
      /\ orders \in [Copies -> Nat]
  BY SlotTypes DEF OrderExecuted, HoldPC, BodyPC, BeforeOrder, TypeOK, StoreType
<1>1. /\ Copy(w) \in Copies /\ Slot(w) = SlotOf(Copy(w)) /\ Copy(w) = <<ev[w], mem[w]>> /\ ev[w] \in Events
      /\ Slot(w) \in Accounts \X Tickets
  BY <1>0, SlotTypes
<1> DEFINE new == NewPosition(w)
<1>2. new \in Position /\ new.copy = Copy(w)
  BY <1>0, <1>1 DEF NewPosition, Position
<1>3. Fresh(Copy(w)) /\ Kind[ev[w]] = "OPEN" /\ mapping[Slot(w)].status = "none"
  BY <1>0, <1>1 DEF BooksInvariant, SlotsKnown, SlotDuty, BeforeOrder, Fresh
<1>4. row[Copy(w)] = "PENDING"
  BY <1>0 DEF CopyInvariant, Duty, PendingPC, BodyPC, HoldPC, BeforeOrder, AfterOrder
<1>5. /\ UNCHANGED <<mapping, openTrades, row, ev, mem>> /\ live' = live \cup {new} /\ seen'[w] = new /\ pc'[w] = "fill"
      /\ Slot(w)' = Slot(w)
  BY <1>0 DEF OrderExecuted, Execute, Goto, db, Slot
<1> HIDE DEF new
<1>6. ASSUME NEW p \in live PROVE SlotOf(p.copy) # Slot(w) /\ PositionKnown(p)
  <2>1. PositionKnown(p) /\ p.copy \in Copies /\ p.copy # Copy(w)
    BY <1>3, SlotTypes DEF BooksInvariant, SlotsKnown, Fresh
  <2> QED
    BY <1>1, <1>3, <2>1, OpenedOnce DEF PositionKnown
<1>7. ASSUME NEW p \in live' PROVE PositionKnown(p)'
  <2>1. CASE p = new
    BY <1>1, <1>2, <1>3, <1>5, <2>1 DEF PositionKnown, KnownBy, Recording
  <2>2. CASE p \in live
    BY <1>0, <1>5, <1>6, <2>2 DEF PositionKnown, KnownBy, Recording
  <2> QED
    BY <1>5, <2>1, <2>2
<1>8. SlotDuty(w)'
  BY <1>1, <1>2, <1>3, <1>5 DEF SlotDuty, BeforeOrder, AfterOrder, Recording
<1>9. \A c \in Copies : Kind[c[1]] = "OPEN" /\ row'[c] = "none" => Fresh(c)'
  BY <1>2, <1>4, <1>5 DEF BooksInvariant, SlotsKnown, Fresh
<1>10. CountsKnown'
  BY <1>0, <1>5 DEF BooksInvariant, CountsKnown, CountKnown, Ahead, OpenSlots
<1>11. SkippedMeansNothingHeld'
  <2> SUFFICES ASSUME NEW e \in Events, NEW p \in live', Kind[e] # "OPEN", row[<<e, p.copy[2]>>] = "SKIPPED",
                      Ticket[e] = Ticket[p.copy[1]]
               PROVE  e < p.copy[1]
    BY <1>5 DEF SkippedMeansNothingHeld
  <2>1. CASE p \in live
    BY <2>1 DEF BooksInvariant, SkippedMeansNothingHeld
  <2>2. CASE p = new
    <3>1. p.copy[1] = ev[w] /\ <<e, p.copy[2]>> \in Copies /\ <<e, p.copy[2]>>[1] = e
      BY <1>1, <1>2, <2>2 DEF Copies
    <3>2. jobState[e] \in Taken
      BY <3>1 DEF OrderInvariant, CopiedInOrder
    <3>3. e <= ev[w] /\ e # ev[w]
      BY <1>0, <1>3, <3>2 DEF OrderInvariant, CopiedInOrder
    <3> QED
      <4>1. e \in Int /\ ev[w] \in Int
        BY <1>1, EventIsNumber
      <4> QED
        BY <3>1, <3>3, <4>1
  <2> QED
    BY <1>5, <2>1, <2>2
<1> QED
  BY <1>5, <1>7, <1>8, <1>9, <1>10, <1>11 DEF BooksInvariant, SlotsKnown, SlotNamed

LEMMA BooksFillRow ==
  ASSUME TypeOK, BooksInvariant, NEW w \in Workers, \A v \in Workers : v = w, FillRow(w)
  PROVE  BooksInvariant'
<1>0. pc \in [Workers -> PC] /\ row \in [Copies -> RowStatus] /\ pc[w] = "fill"
  BY SlotTypes DEF FillRow, WriteRow
<1>1. /\ UNCHANGED <<live, mapping, openTrades, ev, mem, seen>> /\ pc'[w] = "map"
      /\ row' = [row EXCEPT ![Copy(w)] = "SUCCESS"]
  BY <1>0 DEF FillRow, WriteRow, Goto, broker, local
<1>2. \A c \in Copies : (row'[c] = "none" => row[c] = "none") /\ (row'[c] = "SKIPPED" => row[c] = "SKIPPED")
  BY <1>0, <1>1
<1>3. SlotDuty(w)'
  BY <1>0, <1>1 DEF BooksInvariant, SlotsKnown, SlotDuty, BeforeOrder, AfterOrder, Recording, Slot
<1>4. \A p \in live' : PositionKnown(p)'
  BY <1>0, <1>1 DEF BooksInvariant, SlotsKnown, PositionKnown, KnownBy, Recording, Slot
<1>5. SkippedMeansNothingHeld'
  BY <1>1, <1>2, SkipsStand
<1>6. CountsKnown'
  BY <1>0, <1>1 DEF BooksInvariant, CountsKnown, CountKnown, Ahead, OpenSlots
<1> QED
  BY <1>1, <1>2, <1>3, <1>4, <1>5, <1>6 DEF BooksInvariant, SlotsKnown, SlotNamed, Fresh

\* A write to the mapping of the slot at hand leaves the other slots.
LEMMA OtherSlots ==
  ASSUME TypeOK, BooksInvariant, NEW w \in Workers, \A v \in Workers : v = w, pc[w] \in HoldPC,
         NEW m \in MappingType, mapping' = [mapping EXCEPT ![Slot(w)] = m],
         UNCHANGED <<live, row, openTrades, ev, mem, seen>>, NEW step, Goto(w, step),
         step \in {"count", "uncount", "settle"}
  PROVE  /\ mapping'[Slot(w)] = m /\ Slot(w)' = Slot(w) /\ Slot(w) \in Accounts \X Tickets /\ pc'[w] = step
         /\ \A p \in live : SlotOf(p.copy) # Slot(w) => PositionKnown(p)'
         /\ \A s \in Accounts \X Tickets : s # Slot(w) => SlotNamed(s)'
         /\ \A c \in Copies : SlotOf(c) # Slot(w) /\ Kind[c[1]] = "OPEN" /\ row'[c] = "none" => Fresh(c)'
         /\ SlotDuty(w)' <=> (step = "count" => Kind[ev[w]] = "OPEN")
         /\ SkippedMeansNothingHeld'
         /\ \A a \in Accounts : a # mem[w] => CountKnown(a)'
<1>1. /\ Slot(w) \in Accounts \X Tickets /\ mapping \in [Accounts \X Tickets -> MappingType] /\ pc \in [Workers -> PC]
      /\ \A p \in live : SlotOf(p.copy) \in Accounts \X Tickets
      /\ \A c \in Copies : SlotOf(c) \in Accounts \X Tickets /\ c[1] \in Events
      /\ Slot(w) = <<mem[w], Ticket[ev[w]]>>
  BY SlotTypes
<1>2. /\ mapping'[Slot(w)] = m /\ Slot(w)' = Slot(w) /\ pc'[w] = step
      /\ \A s \in Accounts \X Tickets : s # Slot(w) => mapping'[s] = mapping[s]
  BY <1>1 DEF Goto, Slot
<1>3. ASSUME NEW p \in live, SlotOf(p.copy) # Slot(w) PROVE PositionKnown(p)'
  BY <1>1, <1>2, <1>3 DEF BooksInvariant, SlotsKnown, PositionKnown, KnownBy
<1>4. ASSUME NEW a \in Accounts, a # mem[w] PROVE CountKnown(a)'
  <2>1. \A t \in Tickets : mapping'[<<a, t>>] = mapping[<<a, t>>]
    BY <1>1, <1>2, <1>4
  <2>2. OpenSlots(a)' = OpenSlots(a)
    BY <2>1 DEF OpenSlots
  <2>3. Ahead(a)' = 0 /\ Ahead(a) = 0
    BY <1>4 DEF Ahead
  <2> QED
    BY <2>2, <2>3 DEF BooksInvariant, CountsKnown, CountKnown
<1>5. SkippedMeansNothingHeld'
  BY SkipsStand
<1>6. SlotDuty(w)' <=> (step = "count" => Kind[ev[w]] = "OPEN")
  BY <1>2 DEF SlotDuty, BeforeOrder, AfterOrder, Recording
<1>7. \A s \in Accounts \X Tickets : s # Slot(w) => SlotNamed(s)'
  BY <1>2 DEF BooksInvariant, SlotsKnown, SlotNamed
<1>8. \A c \in Copies : SlotOf(c) # Slot(w) /\ Kind[c[1]] = "OPEN" /\ row'[c] = "none" => Fresh(c)'
  BY <1>1, <1>2 DEF BooksInvariant, SlotsKnown, Fresh
<1> QED
  BY <1>1, <1>2, <1>3, <1>4, <1>5, <1>6, <1>7, <1>8

\* The mapping of the new position makes one open slot more.
LEMMA BooksFillMapping ==
  ASSUME OneOpening, TypeOK, CopyInvariant, BooksInvariant, NEW w \in Workers, \A v \in Workers : v = w, FillMapping(w)
  PROVE  BooksInvariant'
<1>0. /\ pc \in [Workers -> PC] /\ pc[w] = "map" /\ pc[w] \in HoldPC /\ openTrades \in [Accounts -> Int]
      /\ mapping \in [Accounts \X Tickets -> MappingType]
      /\ Slot(w) = <<mem[w], Ticket[ev[w]]>> /\ mem[w] \in Accounts /\ ev[w] \in Events /\ Ticket[ev[w]] \in Tickets
  BY SlotTypes, EventsAssumption DEF FillMapping, HoldPC, BodyPC, AfterOrder
<1>1. /\ Copy(w) \in Copies /\ Slot(w) = SlotOf(Copy(w)) /\ Copy(w)[1] = ev[w]
  BY <1>0, SlotTypes
<1>2. /\ mapping[Slot(w)].status = "none" /\ Kind[ev[w]] = "OPEN" /\ seen[w] \in Position /\ SlotOf(seen[w].copy) = Slot(w)
  BY <1>0 DEF BooksInvariant, SlotsKnown, SlotDuty, AfterOrder, Recording
<1> DEFINE m == [ticket |-> seen[w], status |-> "OPEN"]
<1>3. /\ mapping' = [mapping EXCEPT ![Slot(w)] = m] /\ m \in MappingType
      /\ UNCHANGED <<live, row, openTrades, ev, mem, seen>> /\ Goto(w, "count")
  BY <1>2 DEF FillMapping, broker, local, MappingType, MappingStatus
<1>4. m.ticket = seen[w] /\ m.status = "OPEN"
  OBVIOUS
<1> HIDE DEF m
<1>5. /\ mapping'[Slot(w)] = m /\ Slot(w)' = Slot(w) /\ Slot(w) \in Accounts \X Tickets /\ pc'[w] = "count"
      /\ \A p \in live : SlotOf(p.copy) # Slot(w) => PositionKnown(p)'
      /\ \A s \in Accounts \X Tickets : s # Slot(w) => SlotNamed(s)'
      /\ \A c \in Copies : SlotOf(c) # Slot(w) /\ Kind[c[1]] = "OPEN" /\ row'[c] = "none" => Fresh(c)'
      /\ SlotDuty(w)'
      /\ SkippedMeansNothingHeld'
      /\ \A a \in Accounts : a # mem[w] => CountKnown(a)'
  BY <1>0, <1>2, <1>3, OtherSlots
<1>6. ASSUME NEW p \in live, SlotOf(p.copy) = Slot(w) PROVE PositionKnown(p)'
  <2>1. p = seen[w] /\ Kind[p.copy[1]] = "OPEN"
    BY <1>0, <1>6 DEF BooksInvariant, SlotsKnown, PositionKnown, KnownBy, Recording
  <2> QED
    BY <1>4, <1>5, <1>6, <2>1 DEF PositionKnown, KnownBy, Recording, OpenStatus
<1>7. ASSUME NEW c \in Copies, SlotOf(c) = Slot(w), Kind[c[1]] = "OPEN", row'[c] = "none" PROVE FALSE
  <2>1. c = Copy(w)
    BY <1>1, <1>2, <1>7, OpenedOnce
  <2> QED
    BY <1>0, <1>3, <1>7, <2>1 DEF CopyInvariant, Duty
<1>8. SlotNamed(Slot(w))'
  BY <1>2, <1>4, <1>5 DEF SlotNamed
<1>9. ASSUME NEW a \in Accounts, a = mem[w] PROVE CountKnown(a)'
  <2>1. CountKnown(a)
    BY <1>9, <1>0 DEF BooksInvariant, CountsKnown
  <2>2. Ahead(a) = 0 /\ Ahead(a)' = 1 /\ openTrades'[a] = openTrades[a]
    BY <1>9, <1>0, <1>3, <1>5 DEF Ahead
  <2>3. Ticket[ev[w]] \notin OpenSlots(a)
    BY <1>9, <1>0, <1>2 DEF OpenSlots, OpenStatus
  <2>4. \A t \in Tickets : t # Ticket[ev[w]] => mapping'[<<a, t>>] = mapping[<<a, t>>]
    BY <1>9, <1>0, <1>3
  <2>5. OpenSlots(a)' = OpenSlots(a) \cup {Ticket[ev[w]]}
    BY <1>9, <1>0, <1>3, <1>4, <1>5, <2>4 DEF OpenSlots, OpenStatus
  <2>6. /\ IsFiniteSet(OpenSlots(a)')
        /\ Cardinality(OpenSlots(a)') = Cardinality(OpenSlots(a)) + 1
    BY <1>9, <2>1, <2>3, <2>5, FS_AddElement DEF CountKnown
  <2>7. openTrades[a] \in Int
    BY <1>9, <1>0
  <2> QED
    BY <1>9, <1>3, <2>1, <2>2, <2>6, <2>7 DEF CountKnown
<1>10. \A a \in Accounts : CountKnown(a)'
  BY <1>5, <1>9
<1>11. SlotsKnown'
  BY <1>3, <1>5, <1>6, <1>7, <1>8 DEF SlotsKnown
<1> QED
  BY <1>5, <1>10, <1>11 DEF BooksInvariant, CountsKnown

\* The count follows the mapping, one more or one less.
LEMMA BooksCount ==
  ASSUME TypeOK, BooksInvariant, NEW w \in Workers, \A v \in Workers : v = w, FillCount(w) \/ CloseCount(w)
  PROVE  BooksInvariant'
<1>0. /\ pc \in [Workers -> PC] /\ openTrades \in [Accounts -> Int] /\ pc[w] \in {"count", "uncount"} /\ pc[w] \in HoldPC
      /\ mem[w] \in Accounts
  BY SlotTypes DEF FillCount, CloseCount, HoldPC, BodyPC, AfterOrder, AdjustPC
<1>1. /\ UNCHANGED <<live, mapping, row, ev, mem, seen>> /\ pc'[w] \in {"stamp", "settle"}
      /\ openTrades' = [openTrades EXCEPT ![mem[w]] = @ + Ahead(mem[w])]
  BY <1>0 DEF FillCount, CloseCount, Goto, broker, local, Ahead
<1>2. SlotDuty(w)'
  BY <1>1 DEF SlotDuty, BeforeOrder, AfterOrder, Recording
<1>3. \A p \in live' : PositionKnown(p)'
  BY <1>0, <1>1 DEF BooksInvariant, SlotsKnown, PositionKnown, KnownBy, Recording
<1>4. \A c \in Copies : row'[c] = "SKIPPED" => row[c] = "SKIPPED"
  BY <1>1
<1>5. SkippedMeansNothingHeld'
  BY <1>1, <1>4, SkipsStand
<1>6. ASSUME NEW a \in Accounts PROVE CountKnown(a)'
  <2>1. CountKnown(a) /\ OpenSlots(a)' = OpenSlots(a) /\ Ahead(a)' = 0 /\ Ahead(a) \in Int
    BY <1>1 DEF BooksInvariant, CountsKnown, OpenSlots, Ahead
  <2>2. CASE a = mem[w]
    BY <1>0, <1>1, <2>1, <2>2 DEF CountKnown
  <2>3. CASE a # mem[w]
    <3>1. Ahead(a) = 0 /\ openTrades'[a] = openTrades[a]
      BY <1>0, <1>1, <2>3 DEF Ahead
    <3> QED
      BY <2>1, <3>1 DEF CountKnown
  <2> QED
    BY <2>2, <2>3
<1> QED
  BY <1>1, <1>2, <1>3, <1>5, <1>6 DEF BooksInvariant, SlotsKnown, CountsKnown, SlotNamed, Fresh

\* The broker acts on the position the mapping names: what is left of it is known by the
\* mapping still, or by the worker.
LEMMA BooksAdjust ==
  ASSUME TypeOK, BooksInvariant, NEW w \in Workers, \A v \in Workers : v = w, AdjustExecuted(w)
  PROVE  BooksInvariant'
<1>0. /\ pc \in [Workers -> PC] /\ seen \in [Workers -> Position \cup {NoPosition}] /\ pc[w] = "act" /\ pc[w] \in HoldPC
      /\ seen[w] \in live /\ seen[w] \in Position /\ Slot(w) \in Accounts \X Tickets
  BY SlotTypes DEF AdjustExecuted, HoldPC, BodyPC, AdjustPC
<1>1. mapping[Slot(w)].status \in OpenStatus /\ mapping[Slot(w)].ticket = seen[w]
  BY <1>0 DEF BooksInvariant, SlotsKnown, SlotDuty
<1>2. SlotOf(seen[w].copy) = Slot(w)
  BY <1>0, <1>1 DEF BooksInvariant, SlotsKnown, SlotNamed, OpenStatus
<1>3. \A p \in live : /\ Kind[p.copy[1]] = "OPEN" /\ mapping[SlotOf(p.copy)].ticket = p
                      /\ mapping[SlotOf(p.copy)].status \in OpenStatus
  BY <1>0 DEF BooksInvariant, SlotsKnown, PositionKnown, KnownBy, Recording
<1>4. \A p \in live : SlotOf(p.copy) = Slot(w) => p = seen[w]
  BY <1>1, <1>3
<1>5. PICK o \in AdjustOutcomes(seen[w], Kind[ev[w]], mem[w]) :
        live' = o[1] /\ seen' = [seen EXCEPT ![w] = o[2]] /\ pc'[w] = o[3]
  BY <1>0 DEF AdjustExecuted, Goto
<1>6. UNCHANGED <<mapping, openTrades, row, ev, mem>> /\ Slot(w)' = Slot(w) /\ seen'[w] = o[2]
  BY <1>0, <1>5 DEF AdjustExecuted, db, Slot
<1> DEFINE q == Remainder(seen[w])
<1>7. q \in Position /\ q.copy = seen[w].copy
  BY <1>0 DEF Remainder, Position
<1> HIDE DEF q
<1>8. \/ o = <<live, seen[w], "settle">> \/ o = <<live \ {seen[w]}, seen[w], "close">>
      \/ o = <<live \ {seen[w]}, seen[w], "partial">> \/ o = <<live, seen[w], "partial">>
      \/ o = <<(live \ {seen[w]}) \cup {q}, q, "remap">>
  BY DEF AdjustOutcomes, q
<1>9. SkippedMeansNothingHeld'
  BY <1>0, <1>5, <1>6, <1>7, <1>8, SkipsStand
<1>10. CountsKnown'
  <2>1. pc'[w] \notin {"count", "uncount"} /\ pc[w] \notin {"count", "uncount"}
    BY <1>0, <1>5, <1>8
  <2> QED
    BY <1>6, <2>1 DEF BooksInvariant, CountsKnown, CountKnown, Ahead, OpenSlots
<1>11. \A c \in Copies : Kind[c[1]] = "OPEN" /\ row'[c] = "none" => Fresh(c)'
  <2>1. \A p \in live' : \E r \in live : p.copy = r.copy
    BY <1>0, <1>5, <1>7, <1>8
  <2> QED
    BY <1>6, <2>1 DEF BooksInvariant, SlotsKnown, Fresh
<1>12. \A p \in live' : PositionKnown(p)'
  <2>1. CASE o = <<(live \ {seen[w]}) \cup {q}, q, "remap">>
    <3>1. live' = (live \ {seen[w]}) \cup {q} /\ seen'[w] = q /\ pc'[w] = "remap"
      BY <1>5, <1>6, <2>1
    <3>2. ASSUME NEW p, p = q PROVE PositionKnown(p)'
      <4>1. p.copy = seen[w].copy /\ Kind[p.copy[1]] = "OPEN" /\ SlotOf(p.copy) = Slot(w) /\ p = seen'[w]
        BY <1>0, <1>2, <1>3, <1>7, <3>1, <3>2
      <4>2. KnownBy(w, p)'
        BY <1>6, <3>1, <4>1 DEF KnownBy, Recording, SlotOf
      <4> QED
        BY <4>1, <4>2 DEF PositionKnown
    <3>3. ASSUME NEW p \in live \ {seen[w]} PROVE PositionKnown(p)'
      BY <1>3, <1>4, <1>6, <3>1 DEF PositionKnown, KnownBy, Recording
    <3> QED
      BY <3>1, <3>2, <3>3
  <2>2. CASE o # <<(live \ {seen[w]}) \cup {q}, q, "remap">>
    <3>1. live' \subseteq live /\ pc'[w] \notin Recording
      BY <1>5, <1>8, <2>2 DEF Recording
    <3> QED
      BY <1>3, <1>6, <3>1 DEF PositionKnown, KnownBy
  <2> QED
    BY <2>1, <2>2
<1>13. SlotDuty(w)'
  <2>1. CASE o = <<(live \ {seen[w]}) \cup {q}, q, "remap">>
    <3>1. seen'[w] = q /\ pc'[w] = "remap"
      BY <1>5, <1>6, <2>1
    <3> QED
      BY <1>1, <1>2, <1>6, <1>7, <3>1 DEF SlotDuty, BeforeOrder, AfterOrder, Recording
  <2>2. CASE o = <<live \ {seen[w]}, seen[w], "close">>
    <3>1. pc'[w] = "close" /\ live' = live \ {seen[w]}
      BY <1>5, <2>2
    <3>2. \A p \in live' : SlotOf(p.copy) # Slot(w)
      BY <1>4, <3>1
    <3> QED
      BY <1>1, <1>6, <3>1, <3>2 DEF SlotDuty, BeforeOrder, AfterOrder, Recording
  <2>3. CASE pc'[w] \in {"settle", "partial"}
    BY <1>1, <1>6, <2>3 DEF SlotDuty, BeforeOrder, AfterOrder, Recording
  <2> QED
    BY <1>5, <1>8, <2>1, <2>2, <2>3
<1> QED
  BY <1>6, <1>9, <1>10, <1>11, <1>12, <1>13 DEF BooksInvariant, SlotsKnown, SlotNamed

\* The remainder's ticket, and a status that stays open.
LEMMA BooksRemap ==
  ASSUME TypeOK, BooksInvariant, NEW w \in Workers, \A v \in Workers : v = w, RemapTicket(w) \/ ReduceMapping(w)
  PROVE  BooksInvariant'
<1>0. /\ pc \in [Workers -> PC] /\ pc[w] \in {"remap", "partial"} /\ pc[w] \in HoldPC
      /\ mapping \in [Accounts \X Tickets -> MappingType] /\ openTrades \in [Accounts -> Int]
      /\ Slot(w) = <<mem[w], Ticket[ev[w]]>> /\ Slot(w) \in Accounts \X Tickets /\ mem[w] \in Accounts
  BY SlotTypes DEF RemapTicket, ReduceMapping, WriteMapping, HoldPC, BodyPC, AdjustPC
<1>1. mapping[Slot(w)].status \in OpenStatus /\ (pc[w] = "remap" => seen[w] \in Position /\ SlotOf(seen[w].copy) = Slot(w))
  BY <1>0 DEF BooksInvariant, SlotsKnown, SlotDuty, Recording
<1> DEFINE m == [ticket |-> IF pc[w] = "remap" THEN seen[w] ELSE mapping[Slot(w)].ticket, status |-> "PARTIALLY_CLOSED"]
<1>2. mapping[Slot(w)] \in MappingType /\ mapping[Slot(w)].ticket \in Position /\ SlotOf(mapping[Slot(w)].ticket.copy) = Slot(w)
  BY <1>0, <1>1 DEF BooksInvariant, SlotsKnown, SlotNamed, OpenStatus
<1>3. m \in MappingType /\ m.status = "PARTIALLY_CLOSED" /\ m.ticket \in Position /\ SlotOf(m.ticket.copy) = Slot(w)
  BY <1>1, <1>2 DEF MappingType, MappingStatus
<1>4. /\ mapping' = [mapping EXCEPT ![Slot(w)] = m]
      /\ UNCHANGED <<live, row, openTrades, ev, mem, seen>> /\ Goto(w, "settle")
  <2>1. CASE RemapTicket(w)
    BY <2>1 DEF RemapTicket, WriteMapping, broker, local
  <2>2. CASE ReduceMapping(w)
    <3>1. [mapping[Slot(w)] EXCEPT !.status = "PARTIALLY_CLOSED"] = m
      BY <1>2, <2>2 DEF MappingType, ReduceMapping, WriteMapping
    <3> QED
      BY <2>2, <3>1 DEF ReduceMapping, WriteMapping, broker, local
  <2> QED
    BY <2>1, <2>2
<1>5. \A p \in live : SlotOf(p.copy) = Slot(w) => p = m.ticket /\ Kind[p.copy[1]] = "OPEN"
  BY <1>0 DEF BooksInvariant, SlotsKnown, PositionKnown, KnownBy, Recording
<1> HIDE DEF m
<1>6. /\ mapping'[Slot(w)] = m /\ Slot(w)' = Slot(w) /\ Slot(w) \in Accounts \X Tickets /\ pc'[w] = "settle"
      /\ \A p \in live : SlotOf(p.copy) # Slot(w) => PositionKnown(p)'
      /\ \A s \in Accounts \X Tickets : s # Slot(w) => SlotNamed(s)'
      /\ \A c \in Copies : SlotOf(c) # Slot(w) /\ Kind[c[1]] = "OPEN" /\ row'[c] = "none" => Fresh(c)'
      /\ SlotDuty(w)'
      /\ SkippedMeansNothingHeld'
      /\ \A a \in Accounts : a # mem[w] => CountKnown(a)'
  <2>1. pc[w] \in HoldPC /\ m \in MappingType /\ mapping' = [mapping EXCEPT ![Slot(w)] = m]
    BY <1>0, <1>3, <1>4
  <2>2. "settle" \in {"count", "uncount", "settle"} /\ "settle" # "count"
    OBVIOUS
  <2>3. SlotDuty(w)' <=> ("settle" = "count" => Kind[ev[w]] = "OPEN")
    BY <1>4, <2>1, <2>2, OtherSlots
  <2> QED
    BY <1>4, <2>1, <2>2, <2>3, OtherSlots
<1>7. \A p \in live : SlotOf(p.copy) = Slot(w) => PositionKnown(p)'
  BY <1>3, <1>5, <1>6 DEF PositionKnown, KnownBy, Recording, OpenStatus
<1>8. \A c \in Copies : SlotOf(c) = Slot(w) /\ Kind[c[1]] = "OPEN" => row'[c] # "none"
  BY <1>1, <1>4 DEF BooksInvariant, SlotsKnown, Fresh, OpenStatus
<1>9. SlotNamed(Slot(w))'
  BY <1>3, <1>6 DEF SlotNamed
<1>10. ASSUME NEW a \in Accounts, a = mem[w] PROVE CountKnown(a)'
  <2>1. \A t \in Tickets : mapping'[<<a, t>>].status \in OpenStatus <=> mapping[<<a, t>>].status \in OpenStatus
    BY <1>10, <1>0, <1>1, <1>3, <1>4, <1>6 DEF OpenStatus
  <2>2. OpenSlots(a)' = OpenSlots(a)
    BY <1>10, <1>4, <2>1 DEF OpenSlots
  <2>3. Ahead(a) = 0 /\ Ahead(a)' = 0
    BY <1>10, <1>0, <1>4, <1>6 DEF Ahead
  <2> QED
    BY <1>10, <1>0, <1>4, <2>2, <2>3 DEF BooksInvariant, CountsKnown, CountKnown
<1>11. \A a \in Accounts : CountKnown(a)'
  BY <1>6, <1>10
<1>12. SlotsKnown'
  BY <1>4, <1>6, <1>7, <1>8, <1>9 DEF SlotsKnown
<1> QED
  BY <1>6, <1>11, <1>12 DEF BooksInvariant, CountsKnown

\* The mapping of what is closed: one open slot less.
LEMMA BooksCloseMapping ==
  ASSUME TypeOK, BooksInvariant, NEW w \in Workers, \A v \in Workers : v = w, CloseMapping(w)
  PROVE  BooksInvariant'
<1>0. /\ pc \in [Workers -> PC] /\ pc[w] = "close" /\ pc[w] \in HoldPC
      /\ mapping \in [Accounts \X Tickets -> MappingType] /\ openTrades \in [Accounts -> Int]
      /\ Slot(w) = <<mem[w], Ticket[ev[w]]>> /\ Slot(w) \in Accounts \X Tickets /\ mem[w] \in Accounts
      /\ ev[w] \in Events /\ Ticket[ev[w]] \in Tickets
  BY SlotTypes, EventsAssumption DEF CloseMapping, WriteMapping, HoldPC, BodyPC, AdjustPC
<1>1. mapping[Slot(w)].status \in OpenStatus /\ \A p \in live : SlotOf(p.copy) # Slot(w)
  BY <1>0 DEF BooksInvariant, SlotsKnown, SlotDuty
<1> DEFINE m == [mapping[Slot(w)] EXCEPT !.status = "CLOSED"]
<1>2. mapping[Slot(w)] \in MappingType /\ mapping[Slot(w)].ticket \in Position /\ SlotOf(mapping[Slot(w)].ticket.copy) = Slot(w)
  BY <1>0, <1>1 DEF BooksInvariant, SlotsKnown, SlotNamed, OpenStatus
<1>3. m \in MappingType /\ m.status = "CLOSED" /\ m.ticket = mapping[Slot(w)].ticket
  BY <1>2 DEF MappingType, MappingStatus
<1>4. /\ mapping' = [mapping EXCEPT ![Slot(w)] = m]
      /\ UNCHANGED <<live, row, openTrades, ev, mem, seen>> /\ Goto(w, "uncount")
  BY DEF CloseMapping, WriteMapping, broker, local
<1> HIDE DEF m
<1>6. /\ mapping'[Slot(w)] = m /\ Slot(w)' = Slot(w) /\ Slot(w) \in Accounts \X Tickets /\ pc'[w] = "uncount"
      /\ \A p \in live : SlotOf(p.copy) # Slot(w) => PositionKnown(p)'
      /\ \A s \in Accounts \X Tickets : s # Slot(w) => SlotNamed(s)'
      /\ \A c \in Copies : SlotOf(c) # Slot(w) /\ Kind[c[1]] = "OPEN" /\ row'[c] = "none" => Fresh(c)'
      /\ SlotDuty(w)'
      /\ SkippedMeansNothingHeld'
      /\ \A a \in Accounts : a # mem[w] => CountKnown(a)'
  <2>1. pc[w] \in HoldPC /\ m \in MappingType /\ mapping' = [mapping EXCEPT ![Slot(w)] = m]
    BY <1>0, <1>3, <1>4
  <2>2. "uncount" \in {"count", "uncount", "settle"} /\ "uncount" # "count"
    OBVIOUS
  <2>3. SlotDuty(w)' <=> ("uncount" = "count" => Kind[ev[w]] = "OPEN")
    BY <1>4, <2>1, <2>2, OtherSlots
  <2> QED
    BY <1>4, <2>1, <2>2, <2>3, OtherSlots
<1>8. \A c \in Copies : SlotOf(c) = Slot(w) /\ Kind[c[1]] = "OPEN" => row'[c] # "none"
  BY <1>1, <1>4 DEF BooksInvariant, SlotsKnown, Fresh, OpenStatus
<1>9. SlotNamed(Slot(w))'
  BY <1>2, <1>3, <1>6 DEF SlotNamed
<1>10. ASSUME NEW a \in Accounts, a = mem[w] PROVE CountKnown(a)'
  <2>1. CountKnown(a)
    BY <1>10, <1>0 DEF BooksInvariant, CountsKnown
  <2>2. Ahead(a) = 0 /\ Ahead(a)' = -1 /\ openTrades'[a] = openTrades[a]
    BY <1>10, <1>0, <1>4, <1>6 DEF Ahead
  <2>3. Ticket[ev[w]] \in OpenSlots(a)
    BY <1>10, <1>0, <1>1 DEF OpenSlots
  <2>4. \A t \in Tickets : t # Ticket[ev[w]] => mapping'[<<a, t>>] = mapping[<<a, t>>]
    BY <1>10, <1>0, <1>4
  <2>5. OpenSlots(a)' = OpenSlots(a) \ {Ticket[ev[w]]}
    BY <1>10, <1>0, <1>3, <1>4, <1>6, <2>4 DEF OpenSlots, OpenStatus
  <2>6. /\ IsFiniteSet(OpenSlots(a)')
        /\ Cardinality(OpenSlots(a)') = Cardinality(OpenSlots(a)) - 1
    BY <1>10, <2>1, <2>3, <2>5, FS_RemoveElement DEF CountKnown
  <2>7. openTrades[a] \in Int /\ Cardinality(OpenSlots(a)) \in Nat
    BY <1>10, <1>0, <2>1, FS_CardinalityType DEF CountKnown
  <2> QED
    BY <1>10, <1>4, <2>1, <2>2, <2>6, <2>7 DEF CountKnown
<1>11. \A a \in Accounts : CountKnown(a)'
  BY <1>6, <1>10
<1>12. SlotsKnown'
  BY <1>1, <1>4, <1>6, <1>8, <1>9 DEF SlotsKnown
<1> QED
  BY <1>6, <1>11, <1>12 DEF BooksInvariant, CountsKnown

LEMMA BooksOutside ==
  ASSUME TypeOK, BooksInvariant, ClosedOutside
  PROVE  BooksInvariant'
<1>1. live' \subseteq live /\ UNCHANGED <<mapping, openTrades, row, pc, ev, mem, seen>>
  BY DEF ClosedOutside, db, local
<1>2. SkippedMeansNothingHeld'
  BY <1>1 DEF BooksInvariant, SkippedMeansNothingHeld
<1>3. CountsKnown'
  BY <1>1 DEF BooksInvariant, CountsKnown, CountKnown, Ahead, OpenSlots
<1>4. \A w \in Workers : SlotDuty(w)'
  BY <1>1 DEF BooksInvariant, SlotsKnown, SlotDuty, Fresh, Copy, Slot
<1>5. \A p \in live' : PositionKnown(p)'
  BY <1>1 DEF BooksInvariant, SlotsKnown, PositionKnown, KnownBy, Slot
<1> QED
  BY <1>1, <1>2, <1>3, <1>4, <1>5 DEF BooksInvariant, SlotsKnown, SlotNamed, Fresh

LEMMA BooksStep ==
  ASSUME Sequential, OneOpening, TypeOK, CopyInvariant, OrderInvariant, BooksInvariant, [Next]_vars
  PROVE  BooksInvariant'
<1>1. \A v, w \in Workers : v = w
  BY DEF Sequential
<1>2. ASSUME NEW e \in Events, Publish(e) \/ Promote(e) \/ RecoverStalled(e)
      PROVE  BooksInvariant'
  BY <1>2, BooksStill DEF Publish, Promote, RecoverStalled, db, broker, local
<1>3. ASSUME NEW w \in Workers, TakeJob(w) \/ WorkerStep(w) PROVE BooksInvariant'
  <2>1. pc[w] # "failrow"
    BY DEF BooksInvariant, SlotsKnown, SlotDuty
  <2>2. ~FailRow(w)
    BY <2>1 DEF FailRow
  <2> QED
    BY <1>1, <1>3, <2>2, BooksLoop, BooksCreateRow, BooksSkipRow, BooksVerdict, BooksDecide, BooksReadMapping,
       BooksOrder, BooksFillRow, BooksFillMapping, BooksCount, BooksAdjust, BooksRemap, BooksCloseMapping
       DEF WorkerStep
<1>4. ASSUME NEW w \in Workers, WorkerFails(w) PROVE BooksInvariant'
  BY <1>4, NothingFails DEF OrderInvariant, WorkerFails
<1>5. CASE (\E a \in Accounts : MemberPauses(a) \/ MemberStarts(a)) \/ UNCHANGED vars
  BY <1>5, BooksStill DEF MemberPauses, MemberStarts, vars, db, broker, local
<1>6. CASE ClosedOutside
  BY <1>6, BooksOutside
<1> QED
  BY <1>2, <1>3, <1>4, <1>5, <1>6 DEF Next

LEMMA BooksInvariantHolds ==
  ASSUME Sequential, OneOpening PROVE Spec => [](TypeOK /\ BooksInvariant)
<1>1. Init => OrderInvariant /\ BooksInvariant
  BY OrderInit, BooksInit
<1>2. TypeOK /\ OrderInvariant /\ [Next]_vars => OrderInvariant'
  BY Sequential, OrderStep
<1>3. TypeOK /\ CopyInvariant /\ OrderInvariant /\ BooksInvariant /\ [Next]_vars => BooksInvariant'
  BY Sequential, OneOpening, BooksStep
<1> QED
  BY <1>1, <1>2, <1>3, CopyInvariantHolds, PTL DEF Spec

\* With one worker and nothing failing, for any log in which a ticket is opened once, any number
\* of accounts on either platform, members who pause and start and positions closed outside:
\* between two copies the mappings name every position the platform opened, and the cached count
\* is theirs (recordFill, adjustForMember).
THEOREM BooksAlwaysAgree ==
  ASSUME Sequential, OneOpening PROVE Spec => []BooksAgree
<1>1. TypeOK /\ BooksInvariant => BooksAgree
  BY BooksFollow
<1> QED
  BY <1>1, Sequential, OneOpening, BooksInvariantHolds, PTL

\* And an adjustment was skipped for a member who holds a position of that ticket only if the
\* master sent it before the opening the position comes from (adjustForMember's "no open position").
THEOREM SkipsHoldNothing ==
  ASSUME Sequential, OneOpening PROVE Spec => []SkippedMeansNothingHeld
<1>1. BooksInvariant => SkippedMeansNothingHeld
  BY DEF BooksInvariant
<1> QED
  BY <1>1, Sequential, OneOpening, BooksInvariantHolds, PTL
=============================================================================
