--------------------------- MODULE AccountsProofs ---------------------------
(***************************************************************************)
(* Proofs about Accounts, for any number of copies, requests and tickets   *)
(* and any bound on failures.                                              *)
(***************************************************************************)
EXTENDS Accounts, FiniteSetTheorems, TLAPS

\* Each part of the type invariant only looks at its own variables.
LEMMA PartsKept ==
  /\ RowType /\ UNCHANGED <<status, lastError, openTrades, enabled, linked, deployed,
                           copying, shown>> => RowType'
  /\ TicketType /\ UNCHANGED <<issued, live, deals, snap>> => TicketType'
  /\ RequestType /\ UNCHANGED <<pc, read>> => RequestType'
  /\ SweepType /\ UNCHANGED <<sweep, was, todo>> => SweepType'
  /\ JobsType /\ UNCHANGED <<job>> => JobsType'
  /\ CountType /\ UNCHANGED <<requests, toggles, failures, overlapped, raced>> => CountType'
BY DEF RowType, TicketType, RequestType, SweepType, JobsType, CountType

\* The stored count is a number: sets of issued tickets are finite.
LEMMA TicketsFinite ==
  ASSUME NEW n \in Nat, NEW S \in SUBSET (1 .. n)
  PROVE  Cardinality(S) \in Nat
<1>1. IsFiniteSet(1 .. n)
  BY FS_Interval
<1>2. IsFiniteSet(S)
  BY <1>1, FS_Subset
<1>3. QED
  BY <1>2, FS_CardinalityType

\* A member's request keeps the types.
LEMMA RequestTypes ==
  ASSUME TypeOK, NEW r \in Requests,
         Arrives(r) \/ RequestStep(r) \/ ProviderThrows(r) \/ RequestDies(r)
  PROVE  TypeOK'
<1>1. CASE Arrives(r)
  <2>1. RequestType'
    BY <1>1 DEF TypeOK, RequestType, Arrives, Connect, Disconnect, Disable, Enable,
        Sync, Begin, RequestPC, row
  <2>2. CountType'
    <3>1. PICK step \in RequestPC : Begin(r, step)
      BY <1>1 DEF Arrives, Connect, Disconnect, Disable, Enable, Sync, RequestPC
    <3>2. requests' \in Nat
      BY <3>1 DEF TypeOK, CountType, Begin
    <3>3. overlapped' \in BOOLEAN
      BY <3>1 DEF Begin
    <3>4. QED
      BY <3>1, <3>2, <3>3 DEF TypeOK, CountType, Begin
  <2>3. QED
    BY <1>1, <2>1, <2>2, PartsKept DEF TypeOK, Arrives, Connect, Disconnect, Disable,
        Enable, Sync, Begin, row, copy, broker, request, sweeper, bounds, history
<1>2. CASE MarkConnecting(r)
  <2>1. RowType'
    BY <1>2 DEF TypeOK, RowType, MarkConnecting, Status, Errors, copy
  <2>2. RequestType'
    BY <1>2 DEF TypeOK, RequestType, MarkConnecting, Goto, RequestPC
  <2>3. QED
    BY <1>2, <2>1, <2>2, PartsKept DEF TypeOK, MarkConnecting, Goto, row, copy, broker,
        request, sweeper, bounds, history
<1>3. CASE ReachBroker(r)
  <2>1. Cardinality(live) \in Nat
    BY TicketsFinite DEF TypeOK, TicketType
  <2>2. RowType'
    BY <1>3, <2>1 DEF TypeOK, RowType, ReachBroker, row, copy
  <2>3. RequestType'
    BY <1>3, <2>1 DEF TypeOK, RequestType, ReachBroker, Goto, RequestPC
  <2>4. QED
    BY <1>3, <2>1, <2>2, <2>3, PartsKept DEF TypeOK, ReachBroker, Goto, row, copy,
        broker, request, sweeper, bounds, history
<1>4. CASE StoreConnected(r)
  <2>1. RowType'
    BY <1>4 DEF TypeOK, RowType, StoreConnected, RequestType, Status, Errors, copy
  <2>2. RequestType'
    BY <1>4 DEF TypeOK, RequestType, StoreConnected, Goto, RequestPC
  <2>3. QED
    BY <1>4, <2>1, <2>2, PartsKept DEF TypeOK, StoreConnected, Goto, row, copy, broker,
        request, sweeper, bounds, history
<1>5. CASE StoreError(r)
  <2>1. RowType'
    BY <1>5 DEF TypeOK, RowType, StoreError, Status, Errors, copy
  <2>2. RequestType'
    BY <1>5 DEF TypeOK, RequestType, StoreError, Goto, RequestPC
  <2>3. QED
    BY <1>5, <2>1, <2>2, PartsKept DEF TypeOK, StoreError, Goto, row, copy, broker,
        request, sweeper, bounds, history
<1>6. CASE StoreDisconnected(r)
  <2>1. RowType'
    BY <1>6 DEF TypeOK, RowType, StoreDisconnected, Status, Errors, copy
  <2>2. RequestType'
    BY <1>6 DEF TypeOK, RequestType, StoreDisconnected, Goto, RequestPC
  <2>3. QED
    BY <1>6, <2>1, <2>2, PartsKept DEF TypeOK, StoreDisconnected, Goto, row, copy,
        broker, request, sweeper, bounds, history
<1>7. CASE StoreDisabled(r)
  <2>1. RowType'
    <3>1. openTrades' \in Int /\ status' \in Status
      BY <1>7 DEF StoreDisabled, Status
    <3>2. QED
      BY <1>7, <3>1 DEF TypeOK, RowType, StoreDisabled
  <2>2. RequestType'
    BY <1>7 DEF TypeOK, RequestType, StoreDisabled, Goto, RequestPC
  <2>3. QED
    BY <1>7, <2>1, <2>2, PartsKept DEF TypeOK, StoreDisabled, Goto, row, copy, broker,
        request, sweeper, bounds, history
<1>8. CASE Undeploy(r) \/ Deploy(r)
  <2>1. RowType'
    BY <1>8 DEF TypeOK, RowType, Undeploy, Deploy, row, copy
  <2>2. RequestType'
    BY <1>8 DEF TypeOK, RequestType, Undeploy, Deploy, Goto, RequestPC
  <2>3. QED
    BY <1>8, <2>1, <2>2, PartsKept DEF TypeOK, Undeploy, Deploy, Goto, row, copy,
        broker, request, sweeper, bounds, history
<1>9. CASE StoreEnabled(r)
  <2>1. RowType'
    BY <1>9 DEF TypeOK, RowType, StoreEnabled, Status, Errors, copy
  <2>2. RequestType'
    BY <1>9 DEF TypeOK, RequestType, StoreEnabled, Goto, RequestPC
  <2>3. QED
    BY <1>9, <2>1, <2>2, PartsKept DEF TypeOK, StoreEnabled, Goto, row, copy, broker,
        request, sweeper, bounds, history
<1>10. CASE StoreSynced(r)
  <2>1. RowType'
    BY <1>10 DEF TypeOK, RowType, StoreSynced, RequestType, row, copy
  <2>2. RequestType'
    BY <1>10 DEF TypeOK, RequestType, StoreSynced, Goto, RequestPC
  <2>3. QED
    BY <1>10, <2>1, <2>2, PartsKept DEF TypeOK, StoreSynced, Goto, row, copy, broker,
        request, sweeper, bounds, history
<1>11. CASE ProviderThrows(r)
  <2>1. RowType'
    BY <1>11 DEF TypeOK, RowType, ProviderThrows, row, copy
  <2>2. RequestType'
    BY <1>11 DEF TypeOK, RequestType, ProviderThrows, Goto, RequestPC
  <2>3. CountType'
    BY <1>11 DEF TypeOK, CountType, ProviderThrows, Fail, history
  <2>4. QED
    BY <1>11, <2>1, <2>2, <2>3, PartsKept DEF TypeOK, ProviderThrows, Goto, Fail, row,
        copy, broker, request, sweeper, bounds, history
<1>12. CASE RequestDies(r)
  <2>1. RequestType'
    BY <1>12 DEF TypeOK, RequestType, RequestDies, Goto, RequestPC
  <2>2. CountType'
    BY <1>12 DEF TypeOK, CountType, RequestDies, Fail, history
  <2>3. QED
    BY <1>12, <2>1, <2>2, PartsKept DEF TypeOK, RequestDies, Goto, Fail, row, copy,
        broker, request, sweeper, bounds, history
<1>13. QED
  BY <1>1, <1>2, <1>3, <1>4, <1>5, <1>6, <1>7, <1>8, <1>9, <1>10, <1>11, <1>12 DEF
      RequestStep

\* So does a pass of the sweep.
LEMMA SweepTypes ==
  ASSUME TypeOK, SweepStep \/ SweepThrows \/ SweepDies
  PROVE  TypeOK'
<1>1. CASE ListAccount
  <2>1. SweepType'
    BY <1>1 DEF TypeOK, SweepType, ListAccount, SweepGoto, SweepPC
  <2>2. CountType'
    BY <1>1 DEF TypeOK, CountType, ListAccount, bounds
  <2>3. QED
    BY <1>1, <2>1, <2>2, PartsKept DEF TypeOK, ListAccount, SweepGoto, row, copy,
        broker, request, sweeper, bounds, history
<1>2. CASE ReadAccount
  <2>1. SweepType'
    BY <1>2 DEF TypeOK, SweepType, ReadAccount, RowType, SweepGoto, SweepPC, PassEnds,
        NotRead, Status, Errors
  <2>2. TicketType'
    BY <1>2 DEF TypeOK, TicketType, ReadAccount, PassEnds, broker
  <2>3. QED
    BY <1>2, <2>1, <2>2, PartsKept DEF TypeOK, ReadAccount, SweepGoto, PassEnds, row,
        copy, broker, request, sweeper, bounds, history
<1>3. CASE EnsureSession
  <2>1. SweepType'
    BY <1>3 DEF TypeOK, SweepType, EnsureSession, SweepGoto, SweepPC
  <2>2. QED
    BY <1>3, <2>1, PartsKept DEF TypeOK, EnsureSession, SweepGoto, row, copy, broker,
        request, sweeper, bounds, history
<1>4. CASE GetPositions
  <2>1. RowType'
    BY <1>4 DEF TypeOK, RowType, GetPositions, row, copy
  <2>2. TicketType'
    BY <1>4 DEF TypeOK, TicketType, GetPositions, broker
  <2>3. SweepType'
    BY <1>4 DEF TypeOK, SweepType, GetPositions, SweepGoto, SweepPC
  <2>4. CountType'
    BY <1>4 DEF TypeOK, CountType, GetPositions, bounds
  <2>5. QED
    BY <1>4, <2>1, <2>2, <2>3, <2>4, PartsKept DEF TypeOK, GetPositions, SweepGoto,
        row, copy, broker, request, sweeper, bounds, history
<1>5. CASE FindVanished
  <2>1. SweepType'
    BY <1>5 DEF TypeOK, SweepType, FindVanished, SweepGoto, SweepPC, Vanished
  <2>2. QED
    BY <1>5, <2>1, PartsKept DEF TypeOK, FindVanished, SweepGoto, row, copy, broker,
        request, sweeper, bounds, history
<1>6. ASSUME NEW c \in Copies, CloseVanished(c)
      PROVE  TypeOK'
  <2>1. (mapping \in [Copies -> MappingType])'
    <3>1. (mapping[c].ticket \in deals) \in BOOLEAN
      OBVIOUS
    <3>2. QED
      BY <1>6, <3>1 DEF TypeOK, MappingType, MappingStatus, CloseVanished
  <2>2. SweepType'
    BY <1>6 DEF TypeOK, SweepType, CloseVanished, SweepPC
  <2>3. QED
    BY <1>6, <2>1, <2>2, PartsKept DEF TypeOK, CloseVanished, row, copy, broker,
        request, sweeper, bounds, history
<1>7. ASSUME NEW c \in Copies, Backfill(c)
      PROVE  TypeOK'
  <2>1. (mapping \in [Copies -> MappingType])'
    BY <1>7 DEF TypeOK, MappingType, MappingStatus, Backfill
  <2>2. SweepType'
    BY <1>7 DEF TypeOK, SweepType, Backfill, SweepPC
  <2>3. QED
    BY <1>7, <2>1, <2>2, PartsKept DEF TypeOK, Backfill, row, copy, broker, request,
        sweeper, bounds, history
<1>8. CASE FindMissing
  <2>1. SweepType'
    BY <1>8 DEF TypeOK, SweepType, FindMissing, SweepGoto, SweepPC
  <2>2. QED
    BY <1>8, <2>1, PartsKept DEF TypeOK, FindMissing, SweepGoto, row, copy, broker,
        request, sweeper, bounds, history
<1>9. CASE StoreFigures
  <2>1. Cardinality(snap) \in Nat
    BY TicketsFinite DEF TypeOK, TicketType
  <2>2. RowType'
    BY <1>9, <2>1 DEF TypeOK, RowType, StoreFigures, Status, Errors, copy
  <2>3. TicketType'
    BY <1>9, <2>1 DEF TypeOK, TicketType, StoreFigures, PassEnds, broker
  <2>4. SweepType'
    BY <1>9, <2>1 DEF TypeOK, SweepType, StoreFigures, PassEnds, SweepPC, NotRead,
        Status, Errors
  <2>5. QED
    BY <1>9, <2>1, <2>2, <2>3, <2>4, PartsKept DEF TypeOK, StoreFigures, PassEnds, row,
        copy, broker, request, sweeper, bounds, history
<1>10. CASE StoreFailure
  <2>1. RowType'
    BY <1>10 DEF TypeOK, RowType, StoreFailure, Status, Errors, copy
  <2>2. TicketType'
    BY <1>10 DEF TypeOK, TicketType, StoreFailure, PassEnds, broker
  <2>3. SweepType'
    BY <1>10 DEF TypeOK, SweepType, StoreFailure, PassEnds, SweepPC, NotRead, Status,
        Errors
  <2>4. QED
    BY <1>10, <2>1, <2>2, <2>3, PartsKept DEF TypeOK, StoreFailure, PassEnds, row,
        copy, broker, request, sweeper, bounds, history
<1>11. CASE SweepThrows
  <2>1. RowType'
    BY <1>11 DEF TypeOK, RowType, SweepThrows, row, copy
  <2>2. TicketType'
    BY <1>11 DEF TypeOK, TicketType, SweepThrows, broker
  <2>3. SweepType'
    BY <1>11 DEF TypeOK, SweepType, SweepThrows, SweepPC
  <2>4. CountType'
    BY <1>11 DEF TypeOK, CountType, SweepThrows, Fail, history
  <2>5. QED
    BY <1>11, <2>1, <2>2, <2>3, <2>4, PartsKept DEF TypeOK, SweepThrows, Fail, row,
        copy, broker, request, sweeper, bounds, history
<1>12. CASE SweepDies
  <2>1. TicketType'
    BY <1>12 DEF TypeOK, TicketType, SweepDies, PassEnds, broker
  <2>2. SweepType'
    BY <1>12 DEF TypeOK, SweepType, SweepDies, PassEnds, SweepPC, NotRead, Status,
        Errors
  <2>3. CountType'
    BY <1>12 DEF TypeOK, CountType, SweepDies, Fail, history
  <2>4. QED
    BY <1>12, <2>1, <2>2, <2>3, PartsKept DEF TypeOK, SweepDies, PassEnds, Fail, row,
        copy, broker, request, sweeper, bounds, history
<1>13. QED
  BY <1>1, <1>2, <1>3, <1>4, <1>5, <1>6, <1>7, <1>8, <1>9, <1>10, <1>11, <1>12 DEF
      SweepStep

\* So does a copy job.
LEMMA JobTypes ==
  ASSUME TypeOK,
         \/ \E c \in Copies : TakeOpen(c) \/ TakeClose(c) \/ TakePartial(c)
         \/ JobStep \/ JobDies
  PROVE  TypeOK'
<1>1. ASSUME NEW c \in Copies, TakeOpen(c) \/ TakeClose(c) \/ TakePartial(c)
      PROVE  TypeOK'
  <2>1. RowType'
    BY <1>1 DEF TypeOK, RowType, TakeOpen, TakeClose, TakePartial, TakeJob, row, copy
  <2>2. JobsType'
    BY <1>1 DEF TypeOK, JobsType, TakeOpen, TakeClose, TakePartial, TakeJob, JobType,
        JobPC, MappingType
  <2>3. CountType'
    BY <1>1 DEF TypeOK, CountType, TakeOpen, TakeClose, TakePartial, TakeJob, bounds
  <2>4. QED
    BY <1>1, <2>1, <2>2, <2>3, PartsKept DEF TypeOK, TakeOpen, TakeClose, TakePartial,
        TakeJob, row, copy, broker, request, sweeper, bounds, history
<1>2. CASE OrderExecuted
  <2>1. TicketType'
    BY <1>2 DEF TypeOK, TicketType, OrderExecuted, sweeper
  <2>2. JobsType'
    <3>1. issued + 1 \in Nat
      BY DEF TypeOK, TicketType
    <3>2. QED
      BY <1>2, <3>1 DEF TypeOK, JobsType, OrderExecuted, JobType, JobPC
  <2>3. QED
    BY <1>2, <2>1, <2>2, PartsKept DEF TypeOK, OrderExecuted, row, copy, broker,
        request, sweeper, bounds, history
<1>3. CASE CloseExecuted
  <2>1. TicketType'
    BY <1>3 DEF TypeOK, TicketType, CloseExecuted, sweeper
  <2>2. JobsType'
    BY <1>3 DEF TypeOK, JobsType, CloseExecuted, JobGoto, JobType, JobPC
  <2>3. QED
    BY <1>3, <2>1, <2>2, PartsKept DEF TypeOK, CloseExecuted, JobGoto, row, copy,
        broker, request, sweeper, bounds, history
<1>4. CASE PartialExecuted
  <2>1. TicketType'
    BY <1>4 DEF TypeOK, TicketType, PartialExecuted, sweeper
  <2>2. JobsType'
    <3>1. issued + 1 \in Nat
      BY DEF TypeOK, TicketType
    <3>2. QED
      BY <1>4, <3>1 DEF TypeOK, JobsType, PartialExecuted, JobType, JobPC
  <2>3. QED
    BY <1>4, <2>1, <2>2, PartsKept DEF TypeOK, PartialExecuted, row, copy, broker,
        request, sweeper, bounds, history
<1>5. CASE Refused
  <2>1. JobsType'
    BY <1>5 DEF TypeOK, JobsType, Refused, JobEnds, NoJob, JobType, JobPC
  <2>2. QED
    BY <1>5, <2>1, PartsKept DEF TypeOK, Refused, JobEnds, row, copy, broker, request,
        sweeper, bounds, history
<1>6. CASE StoreMapping
  <2>1. (mapping \in [Copies -> MappingType])'
    BY <1>6 DEF TypeOK, MappingType, MappingStatus, StoreMapping, JobsType, JobType,
        JobGoto
  <2>2. JobsType'
    BY <1>6 DEF TypeOK, JobsType, StoreMapping, JobGoto, JobType, JobPC
  <2>3. QED
    BY <1>6, <2>1, <2>2, PartsKept DEF TypeOK, StoreMapping, JobGoto, row, copy,
        broker, request, sweeper, bounds, history
<1>7. CASE StoreRemainder
  <2>1. (mapping \in [Copies -> MappingType])'
    BY <1>7 DEF TypeOK, MappingType, MappingStatus, StoreRemainder, JobsType, JobType
  <2>2. JobsType'
    BY <1>7 DEF TypeOK, JobsType, StoreRemainder, JobEnds, NoJob, JobType, JobPC
  <2>3. QED
    BY <1>7, <2>1, <2>2, PartsKept DEF TypeOK, StoreRemainder, JobEnds, row, copy,
        broker, request, sweeper, bounds, history
<1>8. CASE StoreClosed
  <2>1. (mapping \in [Copies -> MappingType])'
    BY <1>8 DEF TypeOK, MappingType, MappingStatus, StoreClosed, JobsType, JobType,
        JobGoto
  <2>2. JobsType'
    BY <1>8 DEF TypeOK, JobsType, StoreClosed, JobGoto, JobType, JobPC
  <2>3. QED
    BY <1>8, <2>1, <2>2, PartsKept DEF TypeOK, StoreClosed, JobGoto, row, copy, broker,
        request, sweeper, bounds, history
<1>9. CASE StoreCount
  <2>1. RowType'
    BY <1>9 DEF TypeOK, RowType, StoreCount, row, copy
  <2>2. JobsType'
    BY <1>9 DEF TypeOK, JobsType, StoreCount, JobEnds, NoJob, JobType, JobPC
  <2>3. QED
    BY <1>9, <2>1, <2>2, PartsKept DEF TypeOK, StoreCount, JobEnds, row, copy, broker,
        request, sweeper, bounds, history
<1>10. CASE JobDies
  <2>1. JobsType'
    BY <1>10 DEF TypeOK, JobsType, JobDies, JobEnds, NoJob, JobType, JobPC
  <2>2. CountType'
    BY <1>10 DEF TypeOK, CountType, JobDies, Fail, history
  <2>3. QED
    BY <1>10, <2>1, <2>2, PartsKept DEF TypeOK, JobDies, JobEnds, Fail, row, copy,
        broker, request, sweeper, bounds, history
<1>11. QED
  BY <1>1, <1>2, <1>3, <1>4, <1>5, <1>6, <1>7, <1>8, <1>9, <1>10 DEF JobStep

\* Every reachable state of the account is well typed, and tickets that are live,
\* reported or in the sweep's snapshot were issued by the broker.
THEOREM AccountsTypeCorrect == Spec => []TypeOK
<1>1. Init => TypeOK
  <2> SUFFICES ASSUME Init
               PROVE  TypeOK
    OBVIOUS
  <2>1. RowType
    <3>1. status \in Status /\ lastError \in Errors /\ openTrades \in Int
      BY DEF Init, Status, Errors
    <3>2. QED
      BY <3>1 DEF Init, RowType
  <2>2. CountType
    BY DEF Init, CountType
  <2>3. TicketType /\ RequestType
    BY DEF Init, TicketType, RequestType, RequestPC
  <2>4. SweepType /\ JobsType
    BY DEF Init, SweepType, SweepPC, NotRead, Status, Errors, JobsType, JobType, JobPC, NoJob
  <2>5. mapping \in [Copies -> MappingType]
    BY DEF Init, NoMapping, MappingType, MappingStatus
  <2>6. QED
    BY <2>1, <2>2, <2>3, <2>4, <2>5 DEF TypeOK
<1>2. TypeOK /\ [Next]_vars => TypeOK'
  <2> SUFFICES ASSUME TypeOK, [Next]_vars
               PROVE  TypeOK'
    OBVIOUS
  <2>1. ASSUME NEW r \in Requests,
               Arrives(r) \/ RequestStep(r) \/ ProviderThrows(r) \/ RequestDies(r)
        PROVE  TypeOK'
    BY <2>1, RequestTypes
  <2>2. CASE StartCopying \/ PauseCopying
    <3>1. RowType'
      <4>1. copying' \in BOOLEAN /\ shown' \in BOOLEAN
        BY <2>2 DEF StartCopying, PauseCopying, Toggle
      <4>2. QED
        BY <2>2, <4>1 DEF StartCopying, PauseCopying, Toggle, TypeOK, RowType, row
    <3>2. CountType'
      <4>1. toggles' = toggles + 1
        BY <2>2 DEF StartCopying, PauseCopying, Toggle
      <4>2. UNCHANGED <<requests, failures, overlapped, raced>>
        BY <2>2 DEF StartCopying, PauseCopying, Toggle, history
      <4>3. QED
        BY <4>1, <4>2 DEF TypeOK, CountType
    <3>3. QED
      BY <2>2, <3>1, <3>2, PartsKept DEF StartCopying, PauseCopying, Toggle, TypeOK, row, broker,
         request, sweeper, history
  <2>3. CASE SweepStep \/ SweepThrows \/ SweepDies
    BY <2>3, SweepTypes
  <2>4. CASE \/ \E c \in Copies : TakeOpen(c) \/ TakeClose(c) \/ TakePartial(c)
             \/ JobStep \/ JobDies
    BY <2>4, JobTypes
  <2>5. ASSUME NEW t \in 1 .. issued, ClosedOutside(t) \/ DealReported(t)
        PROVE  TypeOK'
    <3>1. TicketType'
      BY <2>5 DEF ClosedOutside, DealReported, TypeOK, TicketType, sweeper
    <3>2. QED
      BY <2>5, <3>1, PartsKept DEF ClosedOutside, DealReported, TypeOK, row, copy, request,
         sweeper, bounds, history
  <2>6. CASE UNCHANGED vars
    BY <2>6, PartsKept DEF vars, TypeOK, row, copy, broker, request, sweeper, bounds, history
  <2>7. QED
    BY <2>1, <2>2, <2>3, <2>4, <2>5, <2>6 DEF Next
<1>3. QED
  BY <1>1, <1>2, PTL DEF Spec

-----------------------------------------------------------------------------
(* A connected account is linked and carries no error.                     *)

\* A pass works on a linked account, so that what it marks CONNECTED is linked.
Linked == ConnectedIsClean /\ (sweep # "idle" => linked)

\* At any overlap of requests, passes and jobs, a CONNECTED account has the provider
\* session stored that a copy job will use, and no failure on its row.
THEOREM ConnectedAlwaysClean == Spec => []ConnectedIsClean
<1> USE DEF Linked, ConnectedIsClean, row, sweeper
<1>1. Init => Linked
  BY DEF Init
<1>2. Linked /\ [Next]_vars => Linked'
  <2> SUFFICES ASSUME Linked, [Next]_vars
               PROVE  Linked'
    OBVIOUS
  <2>1. ASSUME NEW r \in Requests, Arrives(r) \/ RequestStep(r)
        PROVE  Linked'
    <3>1. CASE Arrives(r)
      BY <3>1 DEF Arrives, Connect, Disconnect, Disable, Enable, Sync, Begin
    <3>2. CASE MarkConnecting(r) \/ StoreConnected(r) \/ StoreError(r)
      BY <3>2 DEF MarkConnecting, StoreConnected, StoreError
    <3>3. CASE StoreDisconnected(r) \/ StoreDisabled(r) \/ StoreEnabled(r)
      BY <3>3 DEF StoreDisconnected, StoreDisabled, StoreEnabled
    <3>4. CASE ReachBroker(r) \/ Undeploy(r) \/ Deploy(r) \/ StoreSynced(r)
      BY <3>4 DEF ReachBroker, Undeploy, Deploy, StoreSynced
    <3>5. QED
      BY <2>1, <3>1, <3>2, <3>3, <3>4 DEF RequestStep
  <2>2. ASSUME NEW r \in Requests, ProviderThrows(r) \/ RequestDies(r)
        PROVE  Linked'
    BY <2>2 DEF ProviderThrows, RequestDies
  <2>3. CASE StartCopying \/ PauseCopying
    BY <2>3 DEF StartCopying, PauseCopying, Toggle
  <2>4. CASE SweepStep
    <3>1. CASE ListAccount \/ ReadAccount \/ EnsureSession
      BY <3>1 DEF ListAccount, ReadAccount, EnsureSession, SweepGoto, PassEnds
    <3>2. CASE GetPositions \/ FindVanished \/ FindMissing
      BY <3>2 DEF GetPositions, FindVanished, FindMissing, SweepGoto
    <3>3. ASSUME NEW c \in Copies, CloseVanished(c) \/ Backfill(c)
          PROVE  Linked'
      BY <3>3 DEF CloseVanished, Backfill
    <3>4. CASE StoreFigures
      BY <3>4 DEF StoreFigures, PassEnds
    <3>5. CASE StoreFailure
      BY <3>5 DEF StoreFailure, PassEnds
    <3>6. QED
      BY <2>4, <3>1, <3>2, <3>3, <3>4, <3>5 DEF SweepStep
  <2>5. CASE SweepThrows \/ SweepDies
    BY <2>5 DEF SweepThrows, SweepDies, PassEnds
  <2>6. ASSUME NEW c \in Copies, TakeOpen(c) \/ TakeClose(c) \/ TakePartial(c)
        PROVE  Linked'
    BY <2>6 DEF TakeOpen, TakeClose, TakePartial, TakeJob
  <2>7. CASE JobStep \/ JobDies
    BY <2>7 DEF JobStep, JobDies, OrderExecuted, CloseExecuted, PartialExecuted, Refused,
                StoreMapping, StoreRemainder, StoreClosed, StoreCount
  <2>8. ASSUME NEW t \in 1 .. issued, ClosedOutside(t) \/ DealReported(t)
        PROVE  Linked'
    BY <2>8 DEF ClosedOutside, DealReported
  <2>9. CASE UNCHANGED vars
    BY <2>9 DEF vars
  <2>10. QED
    BY <2>1, <2>2, <2>3, <2>4, <2>5, <2>6, <2>7, <2>8, <2>9 DEF Next
<1>3. Linked => ConnectedIsClean
  OBVIOUS
<1>4. QED
  BY <1>1, <1>2, <1>3, PTL DEF Spec

-----------------------------------------------------------------------------
(* A closed mapping and its position.                                      *)

\* Mappings and jobs name tickets of the past, and a job adjusts the ticket that its
\* mapping still names; a job that closed a position left it gone.
Known ==
  /\ \A c \in Copies : mapping[c].ticket <= issued
  /\ job.ticket <= issued
  /\ job.step \in {"close", "part", "unmap"} => job.ticket = mapping[job.copy].ticket
  /\ job.step = "unmap" => job.ticket \notin live

\* While no copy has run beside a comparison: no job is at work during one, nothing
\* new is live since its snapshot, and what it will close is gone.
Compared ==
  /\ ClosedMeansGone
  /\ Comparing => job.step = "idle" /\ live \subseteq snap
  /\ sweep = "closing" => \A c \in todo : mapping[c].ticket \notin live

Safe == Known /\ (~raced => Compared)

\* A step that leaves mappings, jobs, tickets and the pass alone keeps it.
LEMMA SafeKept ==
  ASSUME TypeOK, Safe, UNCHANGED <<mapping, job, live, issued, sweep, snap, todo, raced>>
  PROVE  Safe'
BY DEF Safe, Known, Compared, ClosedMeansGone, Comparing

\* A pass keeps it: what it closes was missing from a snapshot that still holds.
LEMMA SafeInPass ==
  ASSUME TypeOK, Safe, SweepStep \/ SweepThrows \/ SweepDies
  PROVE  Safe'
<1> USE DEF Safe, Known, Compared, ClosedMeansGone, Comparing, broker, history
<1>1. CASE ListAccount \/ ReadAccount \/ EnsureSession
  BY <1>1 DEF ListAccount, ReadAccount, EnsureSession, SweepGoto, PassEnds
<1>2. CASE GetPositions
  BY <1>2 DEF GetPositions, SweepGoto
<1>3. CASE FindVanished
  BY <1>3 DEF FindVanished, SweepGoto, Vanished
<1>4. ASSUME NEW c \in Copies, CloseVanished(c)
      PROVE  Safe'
  <2>1. \A d \in Copies : mapping'[d].ticket = mapping[d].ticket
    BY <1>4 DEF CloseVanished, TypeOK, MappingType
  <2>2. \A d \in Copies : d # c => mapping'[d].status = mapping[d].status
    BY <1>4 DEF CloseVanished, TypeOK, MappingType
  <2>3. Known'
    BY <1>4, <2>1 DEF CloseVanished, TypeOK, JobsType
  <2>4. ~raced' => Compared'
    BY <1>4, <2>1, <2>2 DEF CloseVanished, TypeOK, SweepType
  <2>5. QED
    BY <2>3, <2>4
<1>5. ASSUME NEW c \in Copies, Backfill(c)
      PROVE  Safe'
  <2>1. \A d \in Copies : mapping'[d].ticket = mapping[d].ticket
                          /\ mapping'[d].status = mapping[d].status
    BY <1>5 DEF Backfill, TypeOK, MappingType
  <2>2. QED
    BY <1>5, <2>1 DEF Backfill, TypeOK, JobsType
<1>6. CASE FindMissing
  BY <1>6 DEF FindMissing, SweepGoto
<1>7. CASE StoreFigures \/ StoreFailure \/ SweepDies
  BY <1>7 DEF StoreFigures, StoreFailure, SweepDies, PassEnds
<1>8. CASE SweepThrows
  BY <1>8 DEF SweepThrows
<1>9. QED
  BY <1>1, <1>2, <1>3, <1>4, <1>5, <1>6, <1>7, <1>8 DEF SweepStep

\* A job keeps it: outside a comparison it revives, re-tickets or closes.
LEMMA SafeInJob ==
  ASSUME TypeOK, Safe,
         \/ \E c \in Copies : TakeOpen(c) \/ TakeClose(c) \/ TakePartial(c)
         \/ JobStep \/ JobDies
  PROVE  Safe'
<1> USE DEF Safe, Known, Compared, ClosedMeansGone, Comparing, broker, sweeper, history
<1>1. ASSUME NEW c \in Copies, TakeOpen(c) \/ TakeClose(c) \/ TakePartial(c)
      PROVE  Safe'
  <2>1. Known'
    BY <1>1 DEF TakeOpen, TakeClose, TakePartial, TakeJob, TypeOK, TicketType
  <2>2. (~raced' => Compared')
    <3>1. ASSUME ~raced'
          PROVE  ~raced /\ ~Comparing
      BY <1>1, <3>1 DEF TakeOpen, TakeClose, TakePartial, TakeJob
    <3>2. QED
      BY <1>1, <3>1 DEF TakeOpen, TakeClose, TakePartial, TakeJob
  <2>3. QED
    BY <2>1, <2>2
<1>2. CASE OrderExecuted
  BY <1>2 DEF OrderExecuted, TypeOK, TicketType, JobsType, JobType, MappingType
<1>3. CASE CloseExecuted
  BY <1>3 DEF CloseExecuted, JobGoto, TypeOK, JobsType, JobType
<1>4. CASE PartialExecuted
  <2>1. ~Comparing \/ raced
    BY <1>4 DEF PartialExecuted
  <2>2. CASE issued' = issued + 1
    <3>1. live' = (live \ {job.ticket}) \cup {issued'}
      BY <1>4, <2>2 DEF PartialExecuted, TypeOK, TicketType
    <3>2. job'.step = "remap" /\ job'.ticket = issued'
      <4>1. issued' # issued
        BY <2>2 DEF TypeOK, TicketType
      <4>2. job' = [job EXCEPT !.step = "remap", !.ticket = issued']
        BY <1>4, <4>1 DEF PartialExecuted
      <4>3. QED
        BY <4>2 DEF TypeOK, JobsType, JobType
    <3>3. \A c \in Copies : mapping[c].ticket # issued' /\ mapping[c].ticket <= issued'
      BY <2>2 DEF TypeOK, TicketType, MappingType
    <3>4. QED
      BY <1>4, <2>1, <2>2, <3>1, <3>2, <3>3 DEF PartialExecuted, TypeOK, TicketType
  <2>3. CASE UNCHANGED <<issued, live>>
    BY <1>4, <2>1, <2>3 DEF PartialExecuted, TypeOK, TicketType, JobsType, JobType
  <2>4. QED
    BY <1>4, <2>2, <2>3 DEF PartialExecuted
<1>5. CASE Refused \/ JobDies
  BY <1>5 DEF Refused, JobDies, JobEnds, NoJob, TypeOK, TicketType
<1>6. CASE StoreMapping
  BY <1>6 DEF StoreMapping, JobGoto, TypeOK, JobsType, JobType, MappingType
<1>7. CASE StoreRemainder
  BY <1>7 DEF StoreRemainder, JobEnds, NoJob, TypeOK, TicketType, JobsType, MappingType
<1>8. CASE StoreClosed
  BY <1>8 DEF StoreClosed, JobGoto, TypeOK, JobsType, JobType, MappingType
<1>9. CASE StoreCount
  BY <1>9 DEF StoreCount, JobEnds, NoJob, TypeOK, TicketType
<1>10. QED
  BY <1>1, <1>2, <1>3, <1>4, <1>5, <1>6, <1>7, <1>8, <1>9 DEF JobStep

\* As long as no copy has run beside the sweep's comparison, a mapping is CLOSED only
\* if its position is gone at the broker: whatever requests, failures, deaths and
\* closes outside the platform there are.
THEOREM ClosedIsGoneUnlessRaced == Spec => []ClosedUnlessRaced
<1>1. Init => Safe
  BY DEF Init, Safe, Known, Compared, ClosedMeansGone, Comparing, NoMapping, NoJob
<1>2. TypeOK /\ Safe /\ [Next]_vars => Safe'
  <2> SUFFICES ASSUME TypeOK, Safe, [Next]_vars
               PROVE  Safe'
    OBVIOUS
  <2> USE DEF broker, sweeper, history
  <2>1. ASSUME NEW r \in Requests, Arrives(r) \/ RequestStep(r)
        PROVE  Safe'
    BY <2>1, SafeKept DEF Arrives, Connect, Disconnect, Disable, Enable, Sync, Begin,
       RequestStep, MarkConnecting, ReachBroker, StoreConnected, StoreError,
       StoreDisconnected, Undeploy, StoreDisabled, Deploy, StoreEnabled, StoreSynced
  <2>2. ASSUME NEW r \in Requests, ProviderThrows(r) \/ RequestDies(r)
        PROVE  Safe'
    BY <2>2, SafeKept DEF ProviderThrows, RequestDies
  <2>3. CASE StartCopying \/ PauseCopying
    BY <2>3, SafeKept DEF StartCopying, PauseCopying, Toggle
  <2>4. CASE SweepStep \/ SweepThrows \/ SweepDies
    BY <2>4, SafeInPass
  <2>5. CASE \/ \E c \in Copies : TakeOpen(c) \/ TakeClose(c) \/ TakePartial(c)
             \/ JobStep \/ JobDies
    BY <2>5, SafeInJob
  <2>6. ASSUME NEW t \in 1 .. issued, ClosedOutside(t)
        PROVE  Safe'
    BY <2>6 DEF ClosedOutside, Safe, Known, Compared, ClosedMeansGone, Comparing
  <2>7. ASSUME NEW t \in 1 .. issued, DealReported(t)
        PROVE  Safe'
    BY <2>7, SafeKept DEF DealReported
  <2>8. CASE UNCHANGED vars
    BY <2>8, SafeKept DEF vars
  <2>9. QED
    BY <2>1, <2>2, <2>3, <2>4, <2>5, <2>6, <2>7, <2>8 DEF Next
<1>3. Safe => ClosedUnlessRaced
  BY DEF Safe, Compared, ClosedUnlessRaced
<1>4. QED
  BY <1>1, <1>2, <1>3, AccountsTypeCorrect, PTL DEF Spec

-----------------------------------------------------------------------------
(* A disabled account stays off.                                           *)

\* A request at work is alone: no other request, no pass, no job.
AloneAtWork ==
  \A r \in Requests :
    pc[r] # "idle" => /\ sweep = "idle" /\ job.step = "idle"
                      /\ \A q \in Requests : pc[q] # "idle" => q = r

\* What the row says of an account some party works on.
RowAgrees ==
  /\ \A r \in Requests :
       pc[r] \notin {"idle", "disconnect", "deploy", "enable"} => enabled
  /\ \A r \in Requests : pc[r] \in {"deploy", "sync", "synced"} => linked
  /\ sweep # "idle" => enabled /\ linked
  /\ ~enabled => status = "DISCONNECTED"

\* What the provider runs: nothing of an account that is disabled, or that never
\* connected, but in the middle of the request that changes that.
DeployedAgrees ==
  /\ \A r \in Requests : pc[r] = "disable" => ~deployed
  /\ deployed => enabled \/ \E r \in Requests : pc[r] \in {"deploy", "enable"}
  /\ deployed => linked \/ \E r \in Requests : pc[r] = "connected"

OffInvariant ==
  ~overlapped => AloneAtWork /\ RowAgrees /\ (failures = 0 => DeployedAgrees)

\* Only the parties that share the account keep it: an arrival beside another party is
\* an overlap, and so are a pass and a job beside a request.
LEMMA AloneKept ==
  ASSUME TypeOK, AloneAtWork, [Next]_vars, ~overlapped'
  PROVE  AloneAtWork'
<1> USE DEF row, copy, broker, request, sweeper, bounds, history
<1>1. ASSUME NEW r \in Requests, Arrives(r)
      PROVE  AloneAtWork'
  <2>1. /\ NoRequest /\ sweep = "idle" /\ job.step = "idle"
        /\ UNCHANGED <<sweep, job>> /\ \A q \in Requests \ {r} : pc'[q] = pc[q]
    BY <1>1 DEF Arrives, Connect, Disconnect, Disable, Enable, Sync, Begin, TypeOK, RequestType
  <2>2. QED
    BY <2>1 DEF AloneAtWork, NoRequest
<1>2. ASSUME NEW r \in Requests, RequestStep(r) \/ ProviderThrows(r) \/ RequestDies(r)
      PROVE  AloneAtWork'
  <2>1. /\ pc[r] # "idle" /\ UNCHANGED <<sweep, job>>
        /\ \A q \in Requests \ {r} : pc'[q] = pc[q]
    BY <1>2 DEF RequestStep, MarkConnecting, ReachBroker, StoreConnected, StoreError,
       StoreDisconnected, Undeploy, StoreDisabled, Deploy, StoreEnabled, StoreSynced,
       ProviderThrows, RequestDies, Goto, TypeOK, RequestType
  <2>2. QED
    BY <2>1 DEF AloneAtWork
<1>3. CASE SweepStep \/ SweepThrows \/ SweepDies
  <2>1. UNCHANGED <<pc, job>> /\ (sweep # "idle" \/ NoRequest)
    BY <1>3 DEF SweepStep, ListAccount, ReadAccount, EnsureSession, GetPositions,
       FindVanished, CloseVanished, Backfill, FindMissing, StoreFigures, StoreFailure,
       SweepThrows, SweepDies, SweepGoto
  <2>2. QED
    BY <2>1 DEF AloneAtWork, NoRequest
<1>4. CASE \/ \E c \in Copies : TakeOpen(c) \/ TakeClose(c) \/ TakePartial(c)
           \/ JobStep \/ JobDies
  <2>1. UNCHANGED <<pc, sweep>> /\ (job.step # "idle" \/ NoRequest)
    BY <1>4 DEF TakeOpen, TakeClose, TakePartial, TakeJob, JobStep, JobDies, OrderExecuted,
       CloseExecuted, PartialExecuted, Refused, StoreMapping, StoreRemainder, StoreClosed,
       StoreCount, JobGoto
  <2>2. QED
    BY <2>1 DEF AloneAtWork, NoRequest
<1>5. CASE \/ StartCopying \/ PauseCopying \/ UNCHANGED vars
           \/ \E t \in 1 .. issued : ClosedOutside(t) \/ DealReported(t)
  <2>1. UNCHANGED <<pc, sweep, job>>
    BY <1>5 DEF StartCopying, PauseCopying, Toggle, ClosedOutside, DealReported, vars
  <2>2. QED
    BY <2>1 DEF AloneAtWork
<1>6. QED
  BY <1>1, <1>2, <1>3, <1>4, <1>5 DEF Next

\* History: an overlap and a failure are for good.
LEMMA OverlapStays ==
  ASSUME TypeOK, [Next]_vars
  PROVE  /\ ~overlapped' => ~overlapped
         /\ failures' = 0 => failures = 0
<1> USE DEF row, copy, broker, request, sweeper, bounds, history
<1>1. ASSUME NEW r \in Requests, Arrives(r)
      PROVE  failures' = failures /\ (overlapped => overlapped')
  <2>1. \E step : Begin(r, step)
    BY <1>1 DEF Arrives, Connect, Disconnect, Disable, Enable, Sync
  <2>2. QED
    BY <2>1 DEF Begin
<1>2. ASSUME NEW r \in Requests, RequestStep(r)
      PROVE  failures' = failures /\ overlapped' = overlapped
  BY <1>2 DEF RequestStep, MarkConnecting, ReachBroker, StoreConnected, StoreError,
     StoreDisconnected, Undeploy, StoreDisabled, Deploy, StoreEnabled, StoreSynced
<1>3. CASE \/ \E r \in Requests : ProviderThrows(r) \/ RequestDies(r)
           \/ SweepThrows \/ SweepDies \/ JobDies
  <2>1. failures' = failures + 1 /\ overlapped' = overlapped
    BY <1>3 DEF ProviderThrows, RequestDies, SweepThrows, SweepDies, JobDies, Fail
  <2>2. QED
    BY <2>1 DEF TypeOK, CountType
<1>4. CASE ListAccount
  BY <1>4 DEF ListAccount
<1>5. CASE SweepStep /\ ~ListAccount
  <2>1. failures' = failures /\ overlapped' = overlapped
    BY <1>5 DEF SweepStep, ReadAccount, EnsureSession, GetPositions,
       FindVanished, CloseVanished, Backfill, FindMissing, StoreFigures, StoreFailure
  <2>2. QED
    BY <2>1
<1>6. ASSUME NEW c \in Copies, TakeOpen(c) \/ TakeClose(c) \/ TakePartial(c)
      PROVE  failures' = failures /\ (overlapped => overlapped')
  <2>1. \E step, ticket : TakeJob(c, step, ticket)
    BY <1>6 DEF TakeOpen, TakeClose, TakePartial
  <2>2. QED
    BY <2>1 DEF TakeJob
<1>7. CASE \/ StartCopying \/ PauseCopying \/ UNCHANGED vars \/ JobStep
           \/ \E t \in 1 .. issued : ClosedOutside(t) \/ DealReported(t)
  <2>1. failures' = failures /\ overlapped' = overlapped
    BY <1>7 DEF StartCopying, PauseCopying, Toggle, ClosedOutside, DealReported, vars,
       JobStep, OrderExecuted, CloseExecuted, PartialExecuted, Refused, StoreMapping,
       StoreRemainder, StoreClosed, StoreCount
  <2>2. QED
    BY <2>1
<1>8. QED
  BY <1>1, <1>2, <1>3, <1>4, <1>5, <1>6, <1>7 DEF Next

\* The row: a request changes what is enabled or linked on its own, and a pass or a job
\* finds the account as it was listed or taken.
LEMMA RowKept ==
  ASSUME TypeOK, AloneAtWork, RowAgrees, [Next]_vars, ~overlapped'
  PROVE  RowAgrees'
<1> USE DEF row, copy, broker, request, sweeper, bounds, history
<1>1. ASSUME NEW r \in Requests, Arrives(r)
      PROVE  RowAgrees'
  <2>1. \A q \in Requests \ {r} : pc'[q] = pc[q]
    BY <1>1 DEF Arrives, Connect, Disconnect, Disable, Enable, Sync, Begin, TypeOK, RequestType
  <2>2. UNCHANGED <<status, enabled, linked, sweep>>
    BY <1>1 DEF Arrives, Connect, Disconnect, Disable, Enable, Sync, Begin
  <2>3. \/ pc'[r] \in {"connect", "undeploy", "disable"} /\ enabled
        \/ pc'[r] = "disconnect" \/ pc'[r] = "enable"
        \/ pc'[r] = "deploy" /\ linked
        \/ pc'[r] = "sync" /\ enabled /\ linked
    BY <1>1 DEF Arrives, Connect, Disconnect, Disable, Enable, Sync, Begin, TypeOK, RequestType
  <2>4. QED
    BY <2>1, <2>2, <2>3 DEF RowAgrees
<1>2. ASSUME NEW r \in Requests, RequestStep(r) \/ ProviderThrows(r) \/ RequestDies(r)
      PROVE  RowAgrees'
  <2>1. /\ sweep = "idle" /\ sweep' = "idle" /\ \A q \in Requests \ {r} : pc'[q] = "idle"
        /\ pc[r] # "idle"
    BY <1>2 DEF RequestStep, MarkConnecting, ReachBroker, StoreConnected, StoreError,
       StoreDisconnected, Undeploy, StoreDisabled, Deploy, StoreEnabled, StoreSynced,
       ProviderThrows, RequestDies, Goto, TypeOK, RequestType, AloneAtWork
  <2>2. CASE MarkConnecting(r) \/ ReachBroker(r) \/ StoreConnected(r) \/ StoreError(r)
    BY <2>1, <2>2 DEF MarkConnecting, ReachBroker, StoreConnected, StoreError, Goto,
       RowAgrees, TypeOK, RequestType
  <2>3. CASE StoreDisconnected(r) \/ Undeploy(r) \/ StoreDisabled(r)
    BY <2>1, <2>3 DEF StoreDisconnected, Undeploy, StoreDisabled, Goto,
       RowAgrees, TypeOK, RequestType
  <2>4. CASE Deploy(r) \/ StoreEnabled(r) \/ StoreSynced(r)
    BY <2>1, <2>4 DEF Deploy, StoreEnabled, StoreSynced, Goto, RowAgrees, TypeOK, RequestType
  <2>5. CASE ProviderThrows(r)
    BY <2>1, <2>5 DEF ProviderThrows, Goto, RowAgrees, TypeOK, RequestType
  <2>6. CASE RequestDies(r)
    BY <2>1, <2>6 DEF RequestDies, Goto, RowAgrees, TypeOK, RequestType
  <2>7. QED
    BY <1>2, <2>2, <2>3, <2>4, <2>5, <2>6 DEF RequestStep
<1>3. CASE SweepStep \/ SweepThrows \/ SweepDies
  <2>1. UNCHANGED <<pc, enabled, linked>>
    BY <1>3 DEF SweepStep, ListAccount, ReadAccount, EnsureSession, GetPositions,
       FindVanished, CloseVanished, Backfill, FindMissing, StoreFigures, StoreFailure,
       SweepThrows, SweepDies
  <2>2. enabled /\ linked
    BY <1>3 DEF SweepStep, ListAccount, ReadAccount, EnsureSession, GetPositions,
       FindVanished, CloseVanished, Backfill, FindMissing, StoreFigures, StoreFailure,
       SweepThrows, SweepDies, SweepGoto, RowAgrees
  <2>3. QED
    BY <2>1, <2>2 DEF RowAgrees
<1>4. CASE \/ StartCopying \/ PauseCopying \/ UNCHANGED vars
           \/ (\E c \in Copies : TakeOpen(c) \/ TakeClose(c) \/ TakePartial(c))
           \/ JobStep \/ JobDies
           \/ \E t \in 1 .. issued : ClosedOutside(t) \/ DealReported(t)
  <2>1. UNCHANGED <<pc, status, enabled, linked, sweep>>
    BY <1>4 DEF StartCopying, PauseCopying, Toggle, ClosedOutside, DealReported, vars,
       TakeOpen, TakeClose, TakePartial, TakeJob, JobStep, JobDies, OrderExecuted,
       CloseExecuted, PartialExecuted, Refused, StoreMapping, StoreRemainder, StoreClosed,
       StoreCount
  <2>2. QED
    BY <2>1 DEF RowAgrees
<1>5. QED
  BY <1>1, <1>2, <1>3, <1>4 DEF Next

\* The provider: without a failure, what deploys an account is linking it or enabling it.
LEMMA DeployedKept ==
  ASSUME TypeOK, ConnectedIsClean, AloneAtWork, RowAgrees, DeployedAgrees, [Next]_vars,
         ~overlapped', failures' = 0
  PROVE  DeployedAgrees'
<1> USE DEF row, copy, broker, request, sweeper, bounds, history
<1>1. ASSUME NEW r \in Requests, Arrives(r)
      PROVE  DeployedAgrees'
  <2>1. \A q \in Requests \ {r} : pc'[q] = pc[q]
    BY <1>1 DEF Arrives, Connect, Disconnect, Disable, Enable, Sync, Begin, TypeOK, RequestType
  <2>2. UNCHANGED <<deployed, enabled, linked>> /\ pc[r] = "idle" /\ NoRequest
    BY <1>1 DEF Arrives, Connect, Disconnect, Disable, Enable, Sync, Begin
  <2>3. pc'[r] = "disable" => ~linked
    BY <1>1 DEF Arrives, Connect, Disconnect, Disable, Enable, Sync, Begin, TypeOK, RequestType
  <2>4. deployed => linked /\ enabled
    BY <2>2 DEF DeployedAgrees, NoRequest
  <2>5. \A q \in Requests : pc'[q] = "disable" => ~deployed'
    BY <2>1, <2>2, <2>3, <2>4 DEF DeployedAgrees
  <2>6. QED
    BY <2>2, <2>4, <2>5 DEF DeployedAgrees
<1>2. ASSUME NEW r \in Requests, RequestStep(r)
      PROVE  DeployedAgrees'
  <2>1. /\ \A q \in Requests \ {r} : pc[q] = "idle" /\ pc'[q] = "idle"
        /\ pc[r] # "idle"
    BY <1>2 DEF RequestStep, MarkConnecting, ReachBroker, StoreConnected, StoreError,
       StoreDisconnected, Undeploy, StoreDisabled, Deploy, StoreEnabled, StoreSynced,
       Goto, TypeOK, RequestType, AloneAtWork
  <2>2. CASE MarkConnecting(r) \/ StoreError(r) \/ StoreDisconnected(r)
    BY <2>1, <2>2 DEF MarkConnecting, StoreError, StoreDisconnected, Goto,
       DeployedAgrees, TypeOK, RequestType
  <2>3. CASE ReachBroker(r)
    BY <2>1, <2>3 DEF ReachBroker, Goto, DeployedAgrees, RowAgrees, TypeOK, RequestType
  <2>4. CASE StoreConnected(r)
    BY <2>1, <2>4 DEF StoreConnected, Goto, DeployedAgrees, RowAgrees, TypeOK, RequestType
  <2>5. CASE Undeploy(r) \/ StoreDisabled(r)
    BY <2>1, <2>5 DEF Undeploy, StoreDisabled, Goto, DeployedAgrees, TypeOK, RequestType
  <2>6. CASE Deploy(r)
    BY <2>1, <2>6 DEF Deploy, Goto, DeployedAgrees, RowAgrees, TypeOK, RequestType
  <2>7. CASE StoreEnabled(r) \/ StoreSynced(r)
    BY <2>1, <2>7 DEF StoreEnabled, StoreSynced, Goto, DeployedAgrees, RowAgrees, TypeOK, RequestType
  <2>8. QED
    BY <1>2, <2>2, <2>3, <2>4, <2>5, <2>6, <2>7 DEF RequestStep
<1>3. ASSUME \/ \E r \in Requests : ProviderThrows(r) \/ RequestDies(r)
             \/ SweepThrows \/ SweepDies \/ JobDies
      PROVE  DeployedAgrees'
  <2>1. failures' = failures + 1
    BY <1>3 DEF ProviderThrows, RequestDies, SweepThrows, SweepDies, JobDies, Fail
  <2>2. QED
    BY <2>1 DEF TypeOK, CountType
<1>4. CASE SweepStep
  <2>1. UNCHANGED <<pc, enabled, linked>> /\ (deployed' = deployed \/ sweep # "idle")
    BY <1>4 DEF SweepStep, ListAccount, ReadAccount, EnsureSession, GetPositions,
       FindVanished, CloseVanished, Backfill, FindMissing, StoreFigures, StoreFailure,
       SweepGoto
  <2>2. sweep # "idle" => enabled /\ linked /\ \A r \in Requests : pc[r] = "idle"
    BY DEF RowAgrees, AloneAtWork
  <2>3. QED
    BY <2>1, <2>2 DEF DeployedAgrees
<1>5. ASSUME NEW c \in Copies, TakeOpen(c) \/ TakeClose(c) \/ TakePartial(c)
      PROVE  DeployedAgrees'
  <2>1. UNCHANGED <<pc, enabled, linked>> /\ status = "CONNECTED" /\ NoRequest
    BY <1>5 DEF TakeOpen, TakeClose, TakePartial, TakeJob
  <2>2. enabled /\ linked
    BY <2>1 DEF RowAgrees, ConnectedIsClean
  <2>3. QED
    BY <2>1, <2>2 DEF DeployedAgrees, NoRequest
<1>6. CASE \/ StartCopying \/ PauseCopying \/ UNCHANGED vars \/ JobStep
           \/ \E t \in 1 .. issued : ClosedOutside(t) \/ DealReported(t)
  <2>1. UNCHANGED <<pc, deployed, enabled, linked>>
    BY <1>6 DEF StartCopying, PauseCopying, Toggle, ClosedOutside, DealReported, vars,
       JobStep, OrderExecuted, CloseExecuted, PartialExecuted, Refused, StoreMapping,
       StoreRemainder, StoreClosed, StoreCount
  <2>2. QED
    BY <2>1 DEF DeployedAgrees
<1>7. QED
  BY <1>1, <1>2, <1>3, <1>4, <1>5, <1>6 DEF Next

\* Of requests, passes and jobs that do not overlap: once the request that disables an
\* account is through, the account stays disconnected, and the provider does not run it
\* unless a call failed.
THEOREM DisabledAccountStaysOff == Spec => []DisabledStaysOff
<1>1. Init => OffInvariant
  BY DEF Init, OffInvariant, AloneAtWork, RowAgrees, DeployedAgrees
<1>2. TypeOK /\ ConnectedIsClean /\ OffInvariant /\ [Next]_vars => OffInvariant'
  BY AloneKept, OverlapStays, RowKept, DeployedKept DEF OffInvariant
<1>3. OffInvariant => DisabledStaysOff
  BY DEF OffInvariant, RowAgrees, DeployedAgrees, DisabledStaysOff, NoRequest
<1>4. QED
  BY <1>1, <1>2, <1>3, AccountsTypeCorrect, ConnectedAlwaysClean, PTL DEF Spec
=============================================================================
