------------------------- MODULE CopyControlProofs -------------------------
(* Proofs about CopyControl for every member: any subscriptions, strategies *)
(* and accounts, any number of requests and jobs at once.                   *)
EXTENDS CopyControl, FiniteSetTheorems, TLAPS

-----------------------------------------------------------------------------
(* Type correctness.                                                       *)

LEMMA TypeInit == Init => TypeOK
<1> SUFFICES ASSUME Init PROVE TypeOK
  OBVIOUS
<1>1. members \in [Strategies -> Int]
  <2> SUFFICES ASSUME NEW t \in Strategies PROVE Cardinality(SubsOf(t)) \in Int
    BY DEF Init
  <2>1. SubsOf(t) \in SUBSET Subs
    BY DEF SubsOf
  <2>2. IsFiniteSet(SubsOf(t))
    BY <2>1, FiniteAssumption, FS_Subset
  <2> QED
    BY <2>2, FS_CardinalityType
<1>2. RowType
  BY <1>1 DEF Init, RowType, CopyStatus
<1>3. RequestType
  BY DEF Init, RequestType, PC
<1>4. OwnerType
  BY DEF Init, OwnerType, OwnerPC
<1>5. JobType
  BY DEF Init, JobType, JobPC, RiskType, Never
<1>6. CountType
  BY DEF Init, CountType
<1> QED
  BY <1>2, <1>3, <1>4, <1>5, <1>6 DEF TypeOK

\* A part of the state a step leaves alone stays well typed.
LEMMA RowKept == RowType /\ UNCHANGED rows => RowType'
BY DEF RowType, rows

LEMMA RequestKept == RequestType /\ UNCHANGED request => RequestType'
BY DEF RequestType, request

LEMMA OwnerKept == OwnerType /\ UNCHANGED owner => OwnerType'
BY DEF OwnerType, owner

LEMMA JobKept == JobType /\ UNCHANGED copying => JobType'
BY DEF JobType, copying

LEMMA CountKept == CountType /\ UNCHANGED <<today, armed, count>> => CountType'
BY DEF CountType, count

\* One more request.
LEMMA RequestCounted ==
  ASSUME CountType, CountRequest, UNCHANGED <<today, armed>>
  PROVE  CountType'
<1>1. made' \in Nat
  BY DEF CountType, CountRequest
<1>2. overlapped' \in BOOLEAN
  BY DEF CountRequest
<1> QED
  BY <1>1, <1>2 DEF CountType

\* A request that begins, ends or goes on.
LEMMA BeginType ==
  ASSUME TypeOK, NEW r \in Requests, NEW s \in Subs, NEW step \in PC, Begin(r, s, step)
  PROVE  TypeOK'
<1>1. RequestType'
  BY DEF TypeOK, RequestType, Begin, Goto
<1>2. CountType'
  BY RequestCounted DEF TypeOK, Begin
<1> QED
  BY <1>1, <1>2, RowKept, OwnerKept, JobKept DEF TypeOK, Begin

LEMMA EndType ==
  ASSUME RequestType, NEW r \in Requests, EndRequest(r)
  PROVE  RequestType'
BY DEF RequestType, EndRequest, Goto, PC

LEMMA ContinueType ==
  ASSUME RequestType, NEW r \in Requests, pc[r] # "idle", NEW step \in PC, Continue(r, step)
  PROVE  RequestType'
BY DEF RequestType, Continue, Goto

LEMMA CheckType ==
  ASSUME TypeOK, NEW r \in Requests, NEW from, from # "idle", NEW holds, NEW step \in PC,
         Check(r, from, holds, step)
  PROVE  TypeOK'
<1>1. pc[r] # "idle" /\ (Continue(r, step) \/ EndRequest(r))
  BY DEF Check
<1>2. RequestType'
  BY <1>1, ContinueType, EndType DEF TypeOK
<1> QED
  BY <1>2, RowKept, OwnerKept, JobKept, CountKept DEF TypeOK, Check

\* The update of a subscription changes the row to a status it may have.
LEMMA UpdateType ==
  ASSUME TypeOK, NEW r \in Requests, NEW from, from # "idle", NEW status \in CopyStatus,
         NEW step \in PC, UpdateSub(r, from, status, step)
  PROVE  RowType' /\ RequestType' /\ OwnerType' /\ JobType'
<1>1. pc[r] # "idle" /\ req[r] \in Subs
  BY DEF TypeOK, RequestType, UpdateSub
<1>2. RowType'
  BY <1>1 DEF TypeOK, RowType, UpdateSub
<1>3. Continue(r, step) \/ EndRequest(r)
  BY DEF UpdateSub
<1>4. RequestType'
  BY <1>1, <1>3, ContinueType, EndType DEF TypeOK
<1> QED
  BY <1>2, <1>4, OwnerKept, JobKept DEF TypeOK, UpdateSub

\* A request at work is about an account and a strategy.
LEMMA SlotType ==
  ASSUME RequestType, NEW r \in Requests, pc[r] # "idle"
  PROVE  Account(r) \in Accounts /\ Strategy(r) \in Strategies
BY SubsAssumption DEF RequestType, Account, Strategy

LEMMA RequestStepType ==
  ASSUME TypeOK, NEW r \in Requests, RequestStep(r)
  PROVE  TypeOK'
<1> USE DEF TypeOK
<1>1. CASE CheckLimit(r)
  BY <1>1, CheckType DEF CheckLimit, PC
<1>2. CASE CreateSub(r)
  <2>1. pc[r] # "idle" /\ req[r] \in Subs
    BY <1>2 DEF CreateSub, RequestType
  <2>2. RowType'
    BY <1>2, <2>1 DEF CreateSub, RowType, CopyStatus
  <2>3. RequestType'
    BY <1>2, <2>1, ContinueType, EndType DEF CreateSub, PC
  <2> QED
    BY <1>2, <2>2, <2>3, OwnerKept, JobKept, CountKept DEF CreateSub
<1>3. CASE CountMember(r)
  <2>1. RowType'
    BY <1>3, SlotType DEF CountMember, RowType
  <2> QED
    BY <1>3, <2>1, EndType, OwnerKept, JobKept, CountKept DEF CountMember
<1>4. CASE DeleteSub(r)
  <2>1. pc[r] # "idle" /\ req[r] \in Subs
    BY <1>4 DEF DeleteSub, RequestType
  <2>2. RowType'
    BY <1>4, <2>1 DEF DeleteSub, RowType
  <2>3. RequestType'
    BY <1>4, <2>1, ContinueType, EndType DEF DeleteSub, PC
  <2> QED
    BY <1>4, <2>2, <2>3, OwnerKept, JobKept, CountKept DEF DeleteSub
<1>5. CASE UncountMember(r)
  <2>1. RowType'
    BY <1>5, SlotType DEF UncountMember, RowType
  <2>2. RequestType'
    BY <1>5, ContinueType DEF UncountMember, PC
  <2> QED
    BY <1>5, <2>1, <2>2, OwnerKept, JobKept, CountKept DEF UncountMember
<1>6. CASE CheckAccount(r)
  BY <1>6, CheckType DEF CheckAccount, PC
<1>7. CASE CheckStrategy(r)
  BY <1>7, CheckType DEF CheckStrategy, PC
<1>8. CASE StartSub(r)
  <2>1. UpdateSub(r, "start", "COPYING", "show")
    BY <1>8 DEF StartSub
  <2>2. RowType' /\ RequestType' /\ OwnerType' /\ JobType'
    BY <2>1, UpdateType DEF PC, CopyStatus
  <2>3. armed' \in [Accounts -> BOOLEAN]
    BY <1>8 DEF StartSub, CountType
  <2> QED
    BY <2>1, <2>2, <2>3 DEF UpdateSub, CountType, count
<1>9. CASE ShowCopying(r)
  <2>1. RowType'
    BY <1>9 DEF ShowCopying, RowType
  <2> QED
    BY <1>9, <2>1, EndType, OwnerKept, JobKept, CountKept DEF ShowCopying
<1>10. CASE PauseSub(r)
  <2>1. RowType' /\ RequestType' /\ OwnerType' /\ JobType'
    BY <1>10, UpdateType DEF PauseSub, PC, CopyStatus
  <2> QED
    BY <1>10, <2>1, CountKept DEF PauseSub, UpdateSub
<1>11. CASE StopSub(r)
  <2>1. RowType' /\ RequestType' /\ OwnerType' /\ JobType'
    BY <1>11, UpdateType DEF StopSub, PC, CopyStatus
  <2> QED
    BY <1>11, <2>1, CountKept DEF StopSub, UpdateSub
<1>12. CASE CountCopying(r)
  <2>1. still' \in [Requests -> BOOLEAN]
    BY <1>12 DEF CountCopying, CopiesOn, RequestType
  <2>2. RequestType'
    BY <1>12, <2>1 DEF CountCopying, Goto, RequestType, PC
  <2> QED
    BY <1>12, <2>2, RowKept, OwnerKept, JobKept, CountKept DEF CountCopying
<1>13. CASE SyncAccount(r)
  <2>1. RowType'
    BY <1>13 DEF SyncAccount, RowType
  <2> QED
    BY <1>13, <2>1, EndType, OwnerKept, JobKept, CountKept DEF SyncAccount
<1> QED
  BY <1>1, <1>2, <1>3, <1>4, <1>5, <1>6, <1>7, <1>8, <1>9, <1>10, <1>11, <1>12, <1>13
  DEF RequestStep

LEMMA OwnerStepType ==
  ASSUME TypeOK, OwnerStep
  PROVE  TypeOK'
<1> USE DEF TypeOK
<1>1. CASE ReadAffected
  <2>1. affected' \subseteq Accounts
    BY <1>1, SubsAssumption DEF ReadAffected
  <2>2. OwnerType'
    BY <1>1, <2>1 DEF ReadAffected, OwnerType, OwnerPC
  <2> QED
    BY <1>1, <2>2, RowKept, RequestKept, JobKept, CountKept DEF ReadAffected
<1>2. CASE PauseAll
  <2>1. RowType'
    BY <1>2 DEF PauseAll, RowType, CopyStatus
  <2>2. OwnerType'
    BY <1>2 DEF PauseAll, OwnerType, OwnerPC
  <2> QED
    BY <1>2, <2>1, <2>2, RequestKept, JobKept, CountKept DEF PauseAll
<1>3. CASE CountAffected
  <2>1. OwnerType'
    BY <1>3 DEF CountAffected, OwnerType, OwnerPC
  <2> QED
    BY <1>3, <2>1, RowKept, RequestKept, JobKept, CountKept DEF CountAffected
<1>4. CASE ShowIdle
  <2>1. RowType'
    BY <1>4 DEF ShowIdle, RowType
  <2>2. OwnerType'
    BY <1>4 DEF ShowIdle, OwnerType, OwnerPC
  <2> QED
    BY <1>4, <2>1, <2>2, RequestKept, JobKept, CountKept DEF ShowIdle
<1>5. CASE OwnerEnds
  <2>1. OwnerType'
    BY <1>5 DEF OwnerEnds, OwnerType, OwnerPC
  <2> QED
    BY <1>5, <2>1, RowKept, RequestKept, JobKept, CountKept DEF OwnerEnds
<1> QED
  BY <1>1, <1>2, <1>3, <1>4, <1>5 DEF OwnerStep

\* What a job's next step leaves of the job.
LEMMA JobGotoType ==
  ASSUME JobType, NEW j \in Jobs, jobPc[j] # "idle", NEW step \in JobPC, JobGoto(j, step)
  PROVE  /\ jobPc' \in [Jobs -> JobPC]
         /\ job' \in [Jobs -> Subs \cup {NoSub}]
         /\ \A k \in Jobs : jobPc'[k] # "idle" => job'[k] \in Subs
BY DEF JobType, JobGoto

LEMMA EvaluateStep ==
  ASSUME NEW j \in Jobs, NEW breached, Evaluate(j, breached)
  PROVE  \E step \in JobPC : JobGoto(j, step)
BY DEF Evaluate, JobPC

LEMMA JobStepType ==
  ASSUME TypeOK, NEW j \in Jobs, JobStep(j) \/ \E s \in Subs : ListSub(j, s)
  PROVE  TypeOK'
<1> USE DEF TypeOK
<1>1. CASE LoadRisk(j)
  <2>1. jobPc[j] # "idle" /\ \E step \in JobPC : JobGoto(j, step)
    BY <1>1, EvaluateStep DEF LoadRisk, JobPC
  <2>2. jobDay' \in [Jobs -> Nat]
    BY <1>1 DEF LoadRisk, JobType, CountType
  <2>3. JobType'
    BY <1>1, <2>1, <2>2, JobGotoType DEF LoadRisk, JobType
  <2> QED
    BY <1>1, <2>3, RowKept, RequestKept, OwnerKept, CountKept DEF LoadRisk
<1>2. CASE ResetDay(j)
  <2>1. jobPc[j] # "idle" /\ \E step \in JobPC : JobGoto(j, step)
    BY <1>2, EvaluateStep DEF ResetDay
  <2>2. risk' \in [Accounts -> RiskType]
    BY <1>2 DEF ResetDay, JobType, RiskType
  <2>3. JobType'
    BY <1>2, <2>1, <2>2, JobGotoType DEF ResetDay, JobType
  <2> QED
    BY <1>2, <2>3, RowKept, RequestKept, OwnerKept, CountKept DEF ResetDay
<1>3. CASE PauseForBreach(j)
  <2>1. jobPc[j] # "idle" /\ job[j] \in Subs
    BY <1>3 DEF PauseForBreach, JobType
  <2>2. RowType'
    BY <1>3, <2>1 DEF PauseForBreach, RowType, CopyStatus
  <2>3. risk' \in [Accounts -> RiskType]
    <3>1. JobAccount(j) \in Accounts
      BY <2>1, SubsAssumption DEF JobAccount
    <3>2. [risk[JobAccount(j)] EXCEPT !.breached = TRUE] \in RiskType
      BY <3>1 DEF JobType, RiskType
    <3>3. \/ risk' = risk
          \/ risk' = [risk EXCEPT ![JobAccount(j)] = [risk[JobAccount(j)] EXCEPT !.breached = TRUE]]
      BY <1>3 DEF PauseForBreach
    <3> QED
      BY <3>2, <3>3 DEF JobType
  <2>4. breachDay' \in [Accounts -> Nat \cup {Never}]
    BY <1>3 DEF PauseForBreach, JobType
  <2>5. armed' \in [Accounts -> BOOLEAN]
    BY <1>3 DEF PauseForBreach, CountType
  <2>6. JobType'
    BY <1>3, <2>1, <2>3, <2>4, JobGotoType DEF PauseForBreach, JobType, JobPC
  <2>7. CountType'
    BY <1>3, <2>5 DEF PauseForBreach, CountType, count
  <2> QED
    BY <1>3, <2>2, <2>6, <2>7, RequestKept, OwnerKept DEF PauseForBreach
<1>4. CASE SendOrder(j)
  <2>1. JobType'
    BY <1>4, JobGotoType DEF SendOrder, JobType, JobPC
  <2> QED
    BY <1>4, <2>1, RowKept, RequestKept, OwnerKept, CountKept DEF SendOrder
<1>5. ASSUME NEW s \in Subs, ListSub(j, s)
      PROVE  TypeOK'
  <2>1. JobType'
    BY <1>5 DEF ListSub, JobType, JobPC
  <2> QED
    BY <1>5, <2>1, RowKept, RequestKept, OwnerKept, CountKept DEF ListSub
<1> QED
  BY <1>1, <1>2, <1>3, <1>4, <1>5 DEF JobStep

LEMMA TypeStep == TypeOK /\ [Next]_vars => TypeOK'
<1> SUFFICES ASSUME TypeOK, [Next]_vars PROVE TypeOK'
  OBVIOUS
<1>1. ASSUME NEW r \in Requests, RequestStep(r) PROVE TypeOK'
  BY <1>1, RequestStepType
<1>2. ASSUME NEW r \in Requests, NEW s \in Subs,
             \/ Subscribe(r, s) \/ Unsubscribe(r, s) \/ Start(r, s) \/ Pause(r, s) \/ Stop(r, s)
      PROVE  TypeOK'
  BY <1>2, BeginType DEF Subscribe, Unsubscribe, Start, Pause, Stop, PC
<1>3. ASSUME NEW a \in Accounts, Disconnect(a) \/ Connect(a) PROVE TypeOK'
  <2>1. RowType'
    BY <1>3 DEF TypeOK, RowType, Disconnect, Connect
  <2> QED
    BY <1>3, <2>1, RequestCounted, RequestKept, OwnerKept, JobKept
    DEF TypeOK, Disconnect, Connect
<1>4. CASE Suspend
  <2>1. RowType'
    BY <1>4 DEF TypeOK, RowType, Suspend, CopyStatus
  <2> QED
    BY <1>4, <2>1, RequestCounted, RequestKept, OwnerKept, JobKept DEF TypeOK, Suspend
<1>5. ASSUME NEW t \in Strategies, ActivateStrategy(t) \/ PauseStrategy(t) PROVE TypeOK'
  <2>1. RowType'
    BY <1>5 DEF TypeOK, RowType, ActivateStrategy, PauseStrategy
  <2>2. OwnerType'
    BY <1>5 DEF TypeOK, OwnerType, OwnerPC, ActivateStrategy, PauseStrategy, owner
  <2> QED
    BY <1>5, <2>1, <2>2, RequestCounted, RequestKept, JobKept
    DEF TypeOK, ActivateStrategy, PauseStrategy
<1>6. CASE OwnerStep
  BY <1>6, OwnerStepType
<1>7. ASSUME NEW j \in Jobs, JobStep(j) \/ \E s \in Subs : ListSub(j, s) PROVE TypeOK'
  BY <1>7, JobStepType
<1>8. CASE NextDay
  <2>1. CountType'
    BY <1>8 DEF TypeOK, CountType, NextDay, count
  <2> QED
    BY <1>8, <2>1, RowKept, RequestKept, OwnerKept, JobKept DEF TypeOK, NextDay
<1>9. CASE UNCHANGED vars
  BY <1>9, RowKept, RequestKept, OwnerKept, JobKept, CountKept DEF TypeOK, vars
<1> QED
  BY <1>1, <1>2, <1>3, <1>4, <1>5, <1>6, <1>7, <1>8, <1>9 DEF Next

\* Every reachable state of the copy controls is well typed, whatever requests,
\* owners, operators and jobs do at once.
THEOREM ControlTypeCorrect == Spec => []TypeOK
<1> QED
  BY TypeInit, TypeStep, PTL DEF Spec

-----------------------------------------------------------------------------
(* The member count.                                                       *)

LEMMA CountsFinite ==
  ASSUME NEW t, NEW step
  PROVE  /\ IsFiniteSet(SubsOf(t)) /\ Cardinality(SubsOf(t)) \in Nat
         /\ IsFiniteSet(Waiting(step, t)) /\ Cardinality(Waiting(step, t)) \in Nat
<1>1. SubsOf(t) \in SUBSET Subs /\ Waiting(step, t) \in SUBSET Requests
  BY DEF SubsOf, Waiting
<1>2. IsFiniteSet(SubsOf(t)) /\ IsFiniteSet(Waiting(step, t))
  BY <1>1, FiniteAssumption, FS_Subset
<1> QED
  BY <1>2, FS_CardinalityType

\* The requests counted as pending are the same after the step.
SamePending ==
  /\ \A r \in Requests, step \in {"increment", "decrement"} : pc'[r] = step <=> pc[r] = step
  /\ \A r \in Requests : pc[r] \in {"increment", "decrement"} => req'[r] = req[r]

SameSubs == \A s \in Subs : sub'[s] = "none" <=> sub[s] = "none"

LEMMA SubsSame == SameSubs => \A t : SubsOf(t)' = SubsOf(t)
BY DEF SubsOf, SameSubs

LEMMA PendingSame ==
  ASSUME SamePending, NEW t
  PROVE  /\ Waiting("increment", t)' = Waiting("increment", t)
         /\ Waiting("decrement", t)' = Waiting("decrement", t)
BY DEF SamePending, Waiting, Strategy

LEMMA StillCounted ==
  ASSUME MembersCounted, SameSubs, SamePending, members' = members
  PROVE  MembersCounted'
<1> SUFFICES ASSUME NEW t \in Strategies
             PROVE  members'[t] + Cardinality(Waiting("increment", t)') =
                      Cardinality(SubsOf(t)') + Cardinality(Waiting("decrement", t)')
  BY DEF MembersCounted
<1>1. SubsOf(t)' = SubsOf(t)
  BY SubsSame
<1>2. /\ Waiting("increment", t)' = Waiting("increment", t)
      /\ Waiting("decrement", t)' = Waiting("decrement", t)
  BY PendingSame
<1> QED
  BY <1>1, <1>2 DEF MembersCounted

\* A request that goes from one step to another, neither of them pending.
LEMMA PassesBy ==
  ASSUME RequestType, NEW r \in Requests, pc[r] \notin {"increment", "decrement"},
         NEW step \in PC \ {"increment", "decrement"}, NEW s,
         Continue(r, step) \/ EndRequest(r) \/ Begin(r, s, step) \/ (Goto(r, step) /\ req' = req)
  PROVE  SamePending
BY DEF RequestType, SamePending, Continue, EndRequest, Goto, Begin

\* A new row and the increment it will get are counted together.
LEMMA CreateCounted ==
  ASSUME TypeOK, MembersCounted, NEW r \in Requests, CreateSub(r), sub[req[r]] = "none"
  PROVE  MembersCounted'
<1>1. /\ pc[r] = "create" /\ req[r] \in Subs /\ req' = req /\ members' = members
      /\ pc' = [pc EXCEPT ![r] = "increment"] /\ sub' = [sub EXCEPT ![req[r]] = "IDLE"]
  BY DEF TypeOK, RequestType, CreateSub, Continue, Goto
<1> SUFFICES ASSUME NEW t \in Strategies
             PROVE  members'[t] + Cardinality(Waiting("increment", t)') =
                      Cardinality(SubsOf(t)') + Cardinality(Waiting("decrement", t)')
  BY DEF MembersCounted
<1>2. members[t] + Cardinality(Waiting("increment", t)) =
        Cardinality(SubsOf(t)) + Cardinality(Waiting("decrement", t))
  BY DEF MembersCounted
<1>3. members[t] \in Int
  BY DEF TypeOK, RowType
<1>4. Waiting("decrement", t)' = Waiting("decrement", t)
  BY <1>1 DEF Waiting, Strategy, TypeOK, RequestType
<1>5. CASE Strategy(r) = t
  <2>1. Waiting("increment", t)' = Waiting("increment", t) \cup {r}
    BY <1>1, <1>5 DEF Waiting, Strategy, TypeOK, RequestType
  <2>2. r \notin Waiting("increment", t)
    BY <1>1 DEF Waiting
  <2>3. SubsOf(t)' = SubsOf(t) \cup {req[r]} /\ req[r] \notin SubsOf(t)
    BY <1>1, <1>5 DEF SubsOf, Strategy, TypeOK, RowType
  <2>4. Cardinality(Waiting("increment", t)') = Cardinality(Waiting("increment", t)) + 1
    BY <2>1, <2>2, CountsFinite, FS_AddElement
  <2>5. Cardinality(SubsOf(t)') = Cardinality(SubsOf(t)) + 1
    BY <2>3, CountsFinite, FS_AddElement
  <2> QED
    BY <1>1, <1>2, <1>3, <1>4, <2>4, <2>5, CountsFinite
<1>6. CASE Strategy(r) # t
  <2>1. Waiting("increment", t)' = Waiting("increment", t)
    BY <1>1, <1>6 DEF Waiting, Strategy, TypeOK, RequestType
  <2>2. SubsOf(t)' = SubsOf(t)
    BY <1>1, <1>6 DEF SubsOf, Strategy, TypeOK, RowType
  <2> QED
    BY <1>1, <1>2, <1>4, <2>1, <2>2
<1> QED
  BY <1>5, <1>6

LEMMA DeleteCounted ==
  ASSUME TypeOK, MembersCounted, NEW r \in Requests, DeleteSub(r), sub[req[r]] # "none"
  PROVE  MembersCounted'
<1>1. /\ pc[r] = "delete" /\ req[r] \in Subs /\ req' = req /\ members' = members
      /\ pc' = [pc EXCEPT ![r] = "decrement"] /\ sub' = [sub EXCEPT ![req[r]] = "none"]
  BY DEF TypeOK, RequestType, DeleteSub, Continue, Goto
<1> SUFFICES ASSUME NEW t \in Strategies
             PROVE  members'[t] + Cardinality(Waiting("increment", t)') =
                      Cardinality(SubsOf(t)') + Cardinality(Waiting("decrement", t)')
  BY DEF MembersCounted
<1>2. members[t] + Cardinality(Waiting("increment", t)) =
        Cardinality(SubsOf(t)) + Cardinality(Waiting("decrement", t))
  BY DEF MembersCounted
<1>3. members[t] \in Int
  BY DEF TypeOK, RowType
<1>4. Waiting("increment", t)' = Waiting("increment", t)
  BY <1>1 DEF Waiting, Strategy, TypeOK, RequestType
<1>5. CASE Strategy(r) = t
  <2>1. Waiting("decrement", t)' = Waiting("decrement", t) \cup {r}
    BY <1>1, <1>5 DEF Waiting, Strategy, TypeOK, RequestType
  <2>2. r \notin Waiting("decrement", t)
    BY <1>1 DEF Waiting
  <2>3. SubsOf(t)' = SubsOf(t) \ {req[r]} /\ req[r] \in SubsOf(t)
    BY <1>1, <1>5 DEF SubsOf, Strategy, TypeOK, RowType
  <2>4. Cardinality(Waiting("decrement", t)') = Cardinality(Waiting("decrement", t)) + 1
    BY <2>1, <2>2, CountsFinite, FS_AddElement
  <2>5. Cardinality(SubsOf(t)') = Cardinality(SubsOf(t)) - 1
    BY <2>3, CountsFinite, FS_RemoveElement
  <2> QED
    BY <1>1, <1>2, <1>3, <1>4, <2>4, <2>5, CountsFinite
<1>6. CASE Strategy(r) # t
  <2>1. Waiting("decrement", t)' = Waiting("decrement", t)
    BY <1>1, <1>6 DEF Waiting, Strategy, TypeOK, RequestType
  <2>2. SubsOf(t)' = SubsOf(t)
    BY <1>1, <1>6 DEF SubsOf, Strategy, TypeOK, RowType
  <2> QED
    BY <1>1, <1>2, <1>4, <2>1, <2>2
<1> QED
  BY <1>5, <1>6

\* The increment and the decrement take their request off the pending ones.
LEMMA CountWritten ==
  ASSUME TypeOK, MembersCounted, NEW r \in Requests, CountMember(r) \/ UncountMember(r)
  PROVE  MembersCounted'
<1>1. /\ SameSubs /\ Strategy(r) \in Strategies
      /\ pc \in [Requests -> PC] /\ members \in [Strategies -> Int]
  BY SlotType DEF SameSubs, TypeOK, RequestType, RowType, CountMember, UncountMember
<1> SUFFICES ASSUME NEW t \in Strategies
             PROVE  members'[t] + Cardinality(Waiting("increment", t)') =
                      Cardinality(SubsOf(t)') + Cardinality(Waiting("decrement", t)')
  BY DEF MembersCounted
<1>2. members[t] + Cardinality(Waiting("increment", t)) =
        Cardinality(SubsOf(t)) + Cardinality(Waiting("decrement", t))
  BY DEF MembersCounted
<1>3. SubsOf(t)' = SubsOf(t)
  BY <1>1, SubsSame
<1>4. CASE CountMember(r)
  <2>1. /\ pc[r] = "increment" /\ pc' = [pc EXCEPT ![r] = "idle"]
        /\ req' = [req EXCEPT ![r] = NoSub] /\ req \in [Requests -> Subs \cup {NoSub}]
        /\ members' = [members EXCEPT ![Strategy(r)] = @ + 1]
    BY <1>4 DEF CountMember, EndRequest, Goto, TypeOK, RequestType
  <2>2. Waiting("decrement", t)' = Waiting("decrement", t)
    BY <1>1, <2>1 DEF Waiting, Strategy
  <2>3. CASE Strategy(r) = t
    <3>1. Waiting("increment", t)' = Waiting("increment", t) \ {r} /\ r \in Waiting("increment", t)
      BY <1>1, <2>1, <2>3 DEF Waiting, Strategy
    <3>2. Cardinality(Waiting("increment", t)') = Cardinality(Waiting("increment", t)) - 1
      BY <3>1, CountsFinite, FS_RemoveElement
    <3>3. members'[t] = members[t] + 1
      BY <1>1, <2>1, <2>3
    <3> QED
      BY <1>1, <1>2, <1>3, <2>2, <3>2, <3>3, CountsFinite
  <2>4. CASE Strategy(r) # t
    <3>1. Waiting("increment", t)' = Waiting("increment", t)
      BY <1>1, <2>1, <2>4 DEF Waiting, Strategy
    <3>2. members'[t] = members[t]
      BY <1>1, <2>1, <2>4
    <3> QED
      BY <1>2, <1>3, <2>2, <3>1, <3>2
  <2> QED
    BY <2>3, <2>4
<1>5. CASE UncountMember(r)
  <2>1. /\ pc[r] = "decrement" /\ pc' = [pc EXCEPT ![r] = "count"] /\ req' = req
        /\ members' = [members EXCEPT ![Strategy(r)] = @ - 1]
    BY <1>5 DEF UncountMember, Continue, Goto
  <2>2. Waiting("increment", t)' = Waiting("increment", t)
    BY <1>1, <2>1 DEF Waiting, Strategy
  <2>3. CASE Strategy(r) = t
    <3>1. Waiting("decrement", t)' = Waiting("decrement", t) \ {r} /\ r \in Waiting("decrement", t)
      BY <1>1, <2>1, <2>3 DEF Waiting, Strategy
    <3>2. Cardinality(Waiting("decrement", t)') = Cardinality(Waiting("decrement", t)) - 1
      BY <3>1, CountsFinite, FS_RemoveElement
    <3>3. members'[t] = members[t] - 1
      BY <1>1, <2>1, <2>3
    <3> QED
      BY <1>1, <1>2, <1>3, <2>2, <3>2, <3>3, CountsFinite
  <2>4. CASE Strategy(r) # t
    <3>1. Waiting("decrement", t)' = Waiting("decrement", t)
      BY <1>1, <2>1, <2>4 DEF Waiting, Strategy
    <3>2. members'[t] = members[t]
      BY <1>1, <2>1, <2>4
    <3> QED
      BY <1>2, <1>3, <2>2, <3>1, <3>2
  <2> QED
    BY <2>3, <2>4
<1> QED
  BY <1>4, <1>5

LEMMA CountedInit == Init => MembersCounted
<1> SUFFICES ASSUME Init, NEW t \in Strategies
             PROVE  members[t] + Cardinality(Waiting("increment", t)) =
                      Cardinality(SubsOf(t)) + Cardinality(Waiting("decrement", t))
  BY DEF MembersCounted
<1>1. Waiting("increment", t) = Waiting("decrement", t)
  BY DEF Init, Waiting
<1> QED
  BY <1>1 DEF Init

LEMMA RequestStepCounted ==
  ASSUME TypeOK, MembersCounted, NEW r \in Requests, RequestStep(r)
  PROVE  MembersCounted'
<1> USE DEF TypeOK
<1>1. ASSUME NEW from \in PC \ {"increment", "decrement"}, NEW holds,
             NEW step \in PC \ {"increment", "decrement"}, Check(r, from, holds, step)
      PROVE  MembersCounted'
  <2>1. SameSubs /\ members' = members
    BY <1>1 DEF Check, rows, SameSubs
  <2>2. SamePending
    BY <1>1, PassesBy DEF Check
  <2> QED
    BY <2>1, <2>2, StillCounted
<1>2. CASE CheckLimit(r) \/ CheckAccount(r) \/ CheckStrategy(r)
  BY <1>1, <1>2 DEF CheckLimit, CheckAccount, CheckStrategy, PC
<1>3. CASE CreateSub(r)
  <2>1. CASE sub[req[r]] # "none"
    <3>1. SameSubs /\ members' = members
      BY <1>3, <2>1 DEF CreateSub, SameSubs
    <3>2. SamePending
      <4>1. pc[r] \notin {"increment", "decrement"} /\ EndRequest(r)
        BY <1>3, <2>1 DEF CreateSub
      <4>2. "idle" \in PC \ {"increment", "decrement"}
        BY DEF PC
      <4> QED
        BY <4>1, <4>2, PassesBy
    <3> QED
      BY <3>1, <3>2, StillCounted
  <2> QED
    BY <1>3, <2>1, CreateCounted
<1>4. CASE DeleteSub(r)
  <2>1. CASE sub[req[r]] = "none"
    <3>1. SameSubs /\ members' = members
      BY <1>4, <2>1 DEF DeleteSub, SameSubs
    <3>2. SamePending
      <4>1. pc[r] \notin {"increment", "decrement"} /\ EndRequest(r)
        BY <1>4, <2>1 DEF DeleteSub
      <4>2. "idle" \in PC \ {"increment", "decrement"}
        BY DEF PC
      <4> QED
        BY <4>1, <4>2, PassesBy
    <3> QED
      BY <3>1, <3>2, StillCounted
  <2> QED
    BY <1>4, <2>1, DeleteCounted
<1>5. CASE CountMember(r) \/ UncountMember(r)
  BY <1>5, CountWritten
<1>6. ASSUME NEW from \in PC \ {"idle", "increment", "decrement"}, NEW status \in CopyStatus,
             NEW step \in PC \ {"increment", "decrement"}, UpdateSub(r, from, status, step)
      PROVE  MembersCounted'
  <2>1. SameSubs /\ members' = members
    BY <1>6 DEF UpdateSub, SameSubs, RowType, CopyStatus
  <2>2. SamePending
    BY <1>6, PassesBy DEF UpdateSub
  <2> QED
    BY <2>1, <2>2, StillCounted
<1>7. CASE StartSub(r) \/ PauseSub(r) \/ StopSub(r)
  BY <1>6, <1>7 DEF StartSub, PauseSub, StopSub, PC, CopyStatus
<1>8. CASE ShowCopying(r) \/ SyncAccount(r)
  <2>1. SameSubs /\ members' = members
    BY <1>8 DEF ShowCopying, SyncAccount, SameSubs
  <2>2. pc[r] \notin {"increment", "decrement"} /\ EndRequest(r) /\ "idle" \in PC
    BY <1>8 DEF ShowCopying, SyncAccount, PC
  <2>3. SamePending
    BY <2>2, PassesBy
  <2> QED
    BY <2>1, <2>3, StillCounted
<1>9. CASE CountCopying(r)
  <2>1. SameSubs /\ members' = members
    BY <1>9 DEF CountCopying, rows, SameSubs
  <2>2. pc[r] \notin {"increment", "decrement"} /\ Goto(r, "sync") /\ req' = req /\ "sync" \in PC
    BY <1>9 DEF CountCopying, PC
  <2>3. SamePending
    BY <2>2, PassesBy
  <2> QED
    BY <2>1, <2>3, StillCounted
<1> QED
  BY <1>2, <1>3, <1>4, <1>5, <1>7, <1>8, <1>9 DEF RequestStep

\* Whatever is not a request's step leaves rows in place, the count as it is and
\* no request pending that was not.
LEMMA OtherStepCounted ==
  ASSUME TypeOK, MembersCounted, UNCHANGED request, UNCHANGED members, SameSubs
  PROVE  MembersCounted'
<1>1. SamePending
  BY DEF SamePending, request
<1> QED
  BY <1>1, StillCounted

LEMMA CountedStep == TypeOK /\ MembersCounted /\ [Next]_vars => MembersCounted'
<1> SUFFICES ASSUME TypeOK, MembersCounted, [Next]_vars PROVE MembersCounted'
  OBVIOUS
<1>1. ASSUME NEW r \in Requests, RequestStep(r) PROVE MembersCounted'
  BY <1>1, RequestStepCounted
<1>2. ASSUME NEW r \in Requests, NEW s \in Subs,
             \/ Subscribe(r, s) \/ Unsubscribe(r, s) \/ Start(r, s) \/ Pause(r, s) \/ Stop(r, s)
      PROVE  MembersCounted'
  <2>1. PICK step \in PC \ {"increment", "decrement"} : Begin(r, s, step)
    BY <1>2 DEF Subscribe, Unsubscribe, Start, Pause, Stop, PC
  <2>2. SameSubs /\ members' = members /\ pc[r] = "idle"
    BY <2>1 DEF Begin, rows, SameSubs
  <2>3. SamePending
    BY <2>1, <2>2, PassesBy DEF TypeOK
  <2> QED
    BY <2>2, <2>3, StillCounted
<1>3. ASSUME NEW a \in Accounts, Disconnect(a) \/ Connect(a) PROVE MembersCounted'
  BY <1>3, OtherStepCounted DEF Disconnect, Connect, SameSubs
<1>4. CASE Suspend
  <2>1. SameSubs
    BY <1>4 DEF Suspend, SameSubs
  <2> QED
    BY <1>4, <2>1, OtherStepCounted DEF Suspend
<1>5. ASSUME NEW t \in Strategies, ActivateStrategy(t) \/ PauseStrategy(t) PROVE MembersCounted'
  BY <1>5, OtherStepCounted DEF ActivateStrategy, PauseStrategy, SameSubs
<1>6. CASE OwnerStep
  <2>1. SameSubs /\ UNCHANGED members /\ UNCHANGED request
    BY <1>6
    DEF OwnerStep, ReadAffected, PauseAll, CountAffected, ShowIdle, OwnerEnds, rows, SameSubs
  <2> QED
    BY <2>1, OtherStepCounted
<1>7. ASSUME NEW j \in Jobs, JobStep(j) \/ \E s \in Subs : ListSub(j, s) PROVE MembersCounted'
  <2>1. CASE PauseForBreach(j)
    <3>1. SameSubs
      BY <2>1 DEF PauseForBreach, SameSubs, TypeOK, RowType
    <3> QED
      BY <2>1, <3>1, OtherStepCounted DEF PauseForBreach
  <2>2. CASE ~PauseForBreach(j)
    <3>1. SameSubs /\ UNCHANGED members /\ UNCHANGED request
      BY <1>7, <2>2 DEF JobStep, LoadRisk, ResetDay, SendOrder, ListSub, rows, SameSubs
    <3> QED
      BY <3>1, OtherStepCounted
  <2> QED
    BY <2>1, <2>2
<1>8. CASE NextDay
  BY <1>8, OtherStepCounted DEF NextDay, rows, SameSubs
<1>9. CASE UNCHANGED vars
  BY <1>9, OtherStepCounted DEF vars, rows, SameSubs
<1> QED
  BY <1>1, <1>2, <1>3, <1>4, <1>5, <1>6, <1>7, <1>8, <1>9 DEF Next

\* The member count, kept by increments and decrements apart from the rows, is
\* right again as soon as the requests at work have written theirs: for any
\* number of members' requests in any order, whatever else runs.
THEOREM MembersAreCounted == Spec => []MembersCounted
<1> QED
  BY CountedInit, CountedStep, ControlTypeCorrect, PTL DEF Spec

-----------------------------------------------------------------------------
(* Requests that do not overlap: what members are shown is what happens.   *)

\* A request at work is the only one, a member's or an owner's.
AloneAtWork ==
  \A r \in Requests :
    pc[r] # "idle" => ownerPc = "idle" /\ \A q \in Requests : pc[q] # "idle" => q = r

\* A subscription copies from an active strategy, or its owner's request has yet to
\* pause it; a request about to start one has found its strategy active.
LiveAgrees ==
  /\ \A s \in Subs :
       sub[s] = "COPYING" => live[s[2]] \/ (ownerPc \in {"read", "pauseAll"} /\ ownerOf = s[2])
  /\ \A r \in Requests : pc[r] = "start" => live[Strategy(r)]

\* A request has changed a subscription of account a and will yet correct what a shows.
Settling(a) ==
  \/ \E r \in Requests : pc[r] \in {"decrement", "count", "sync"} /\ Account(r) = a
  \/ ownerPc = "count" /\ a \in affected
  \/ ownerPc = "show" /\ a \in affected \cup {ownerAt}

\* An account shows COPYING if it copies, if a breach stopped it since the member last
\* started it, or if a request will yet correct it; a request about to show COPYING, or to
\* write a count above zero, is right; the owner's request knows all it will pause.
ShownAgrees ==
  /\ \A a \in Accounts :
       armed[a] /\ shown[a] = "COPYING" => CopiesOn(a) \/ Settling(a)
  /\ \A r \in Requests :
       (pc[r] = "show" \/ (pc[r] = "sync" /\ still[r])) /\ armed[Account(r)]
         => CopiesOn(Account(r))
  /\ ownerPc = "pauseAll" =>
       \A s \in Subs : s[2] = ownerOf /\ sub[s] = "COPYING" => s[1] \in affected

\* The subscriptions in use, within the plan; one about to be created still fits.
Used == {s \in Subs : sub[s] # "none"}
PlanAgrees ==
  /\ Cardinality(Used) <= PlanLimit
  /\ \A r \in Requests : pc[r] = "create" => Cardinality(Used) < PlanLimit

ControlInvariant ==
  ~overlapped => AloneAtWork /\ LiveAgrees /\ ShownAgrees /\ PlanAgrees

\* The member's requests as they arrive.
Arrives(r, s) == Subscribe(r, s) \/ Unsubscribe(r, s) \/ Start(r, s) \/ Pause(r, s) \/ Stop(r, s)

\* A step of a request touches nothing of the other requests, the owner and the jobs.
LEMMA RequestFrame ==
  ASSUME TypeOK, NEW r \in Requests, RequestStep(r)
  PROVE  /\ pc[r] # "idle" /\ UNCHANGED <<today, owner, copying, count, live, connected>>
         /\ \A q \in Requests \ {r} : pc'[q] = pc[q] /\ req'[q] = req[q] /\ still'[q] = still[q]
<1> USE DEF TypeOK, RequestType, EndRequest, Continue, Goto, rows, copying
<1>1. CASE CheckLimit(r) \/ CreateSub(r) \/ CountMember(r)
  BY <1>1 DEF CheckLimit, CreateSub, CountMember, Check
<1>2. CASE DeleteSub(r) \/ UncountMember(r)
  BY <1>2 DEF DeleteSub, UncountMember
<1>3. CASE CheckAccount(r) \/ CheckStrategy(r)
  BY <1>3 DEF CheckAccount, CheckStrategy, Check
<1>4. CASE StartSub(r) \/ PauseSub(r) \/ StopSub(r)
  BY <1>4 DEF StartSub, PauseSub, StopSub, UpdateSub
<1>5. CASE ShowCopying(r) \/ CountCopying(r) \/ SyncAccount(r)
  BY <1>5 DEF ShowCopying, CountCopying, SyncAccount
<1> QED
  BY <1>1, <1>2, <1>3, <1>4, <1>5 DEF RequestStep

\* A request that overlaps nothing arrives when no other is at work.
LEMMA ArrivalFrame ==
  ASSUME TypeOK, NEW r \in Requests, NEW s \in Subs, Arrives(r, s), ~overlapped'
  PROVE  /\ Quiet /\ UNCHANGED <<rows, owner, copying, armed>>
         /\ pc' = [pc EXCEPT ![r] = pc'[r]] /\ req'[r] = s
         /\ pc'[r] \in {"limit", "delete", "account", "pause", "stop"}
         /\ \A q \in Requests \ {r} : pc'[q] = "idle"
<1>1. PICK step \in {"limit", "delete", "account", "pause", "stop"} : Begin(r, s, step)
  BY DEF Arrives, Subscribe, Unsubscribe, Start, Pause, Stop
<1>2. Quiet
  BY <1>1 DEF Begin, CountRequest
<1> QED
  BY <1>1, <1>2 DEF Begin, Goto, Quiet, TypeOK, RequestType

\* So do the requests of one write.
LEMMA WriteFrame ==
  ASSUME ~overlapped',
         \/ \E a \in Accounts : Disconnect(a) \/ Connect(a)
         \/ Suspend
         \/ \E t \in Strategies : ActivateStrategy(t) \/ PauseStrategy(t)
  PROVE  Quiet /\ UNCHANGED <<request, copying, armed>>
BY DEF Disconnect, Connect, Suspend, ActivateStrategy, PauseStrategy, CountRequest

\* A job only ever pauses a subscription, of an account it disarms.
LEMMA JobFrame ==
  ASSUME TypeOK, NEW j \in Jobs, JobStep(j) \/ \E s \in Subs : ListSub(j, s)
  PROVE  /\ UNCHANGED <<shown, connected, live, members, request, owner, count>>
         /\ \/ UNCHANGED <<sub, armed>>
            \/ /\ job[j] \in Subs /\ sub[job[j]] # "none"
               /\ sub' = [sub EXCEPT ![job[j]] = "PAUSED"]
               /\ armed' = [armed EXCEPT ![job[j][1]] = FALSE]
<1>1. CASE PauseForBreach(j)
  BY <1>1 DEF PauseForBreach, TypeOK, JobType, JobAccount
<1>2. CASE ~PauseForBreach(j)
  BY <1>2 DEF JobStep, LoadRisk, ResetDay, SendOrder, ListSub, rows
<1> QED
  BY <1>1, <1>2

LEMMA AloneKept ==
  ASSUME TypeOK, AloneAtWork, [Next]_vars, ~overlapped'
  PROVE  AloneAtWork'
<1>1. ASSUME NEW r \in Requests, RequestStep(r) PROVE AloneAtWork'
  BY <1>1, RequestFrame DEF AloneAtWork, owner
<1>2. ASSUME NEW r \in Requests, NEW s \in Subs, Arrives(r, s) PROVE AloneAtWork'
  BY <1>2, ArrivalFrame DEF AloneAtWork, Quiet, owner
<1>3. CASE \/ \E a \in Accounts : Disconnect(a) \/ Connect(a)
           \/ Suspend
           \/ \E t \in Strategies : ActivateStrategy(t) \/ PauseStrategy(t)
  BY <1>3, WriteFrame DEF AloneAtWork, Quiet, request
<1>4. CASE OwnerStep
  <2>1. ownerPc # "idle" /\ UNCHANGED request
    BY <1>4 DEF OwnerStep, ReadAffected, PauseAll, CountAffected, ShowIdle, OwnerEnds
  <2> QED
    BY <2>1 DEF AloneAtWork, request
<1>5. ASSUME NEW j \in Jobs, JobStep(j) \/ \E s \in Subs : ListSub(j, s) PROVE AloneAtWork'
  BY <1>5, JobFrame DEF AloneAtWork, request, owner
<1>6. CASE NextDay \/ UNCHANGED vars
  BY <1>6 DEF NextDay, vars, AloneAtWork, request, owner
<1> QED
  BY <1>1, <1>2, <1>3, <1>4, <1>5, <1>6 DEF Next, Arrives

\* Only CheckStrategy leads to the start, and only the start to COPYING.
LEMMA LiveKept ==
  ASSUME TypeOK, AloneAtWork, LiveAgrees, [Next]_vars, ~overlapped'
  PROVE  LiveAgrees'
<1>1. ASSUME NEW r \in Requests, RequestStep(r) PROVE LiveAgrees'
  <2>1. /\ pc[r] # "idle" /\ UNCHANGED <<ownerPc, ownerOf, live>> /\ req[r] \in Subs
        /\ \A q \in Requests \ {r} : pc'[q] = "idle"
    BY <1>1, RequestFrame DEF AloneAtWork, owner, TypeOK, RequestType
  <2>2. pc'[r] = "start" => req'[r] = req[r] /\ live[Strategy(r)]
    BY <1>1 DEF RequestStep, CheckLimit, CreateSub, CountMember, DeleteSub, UncountMember,
       CheckAccount, CheckStrategy, Check, StartSub, ShowCopying, PauseSub, StopSub, UpdateSub,
       CountCopying, SyncAccount, Continue, EndRequest, Goto, TypeOK, RequestType
  <2>3. \/ sub' = sub
        \/ \E status \in {"none", "IDLE", "PAUSED", "STOPPED"} : sub' = [sub EXCEPT ![req[r]] = status]
        \/ pc[r] = "start" /\ sub' = [sub EXCEPT ![req[r]] = "COPYING"]
    BY <1>1 DEF RequestStep, CheckLimit, CreateSub, CountMember, DeleteSub, UncountMember,
       CheckAccount, CheckStrategy, Check, StartSub, ShowCopying, PauseSub, StopSub, UpdateSub,
       CountCopying, SyncAccount, rows
  <2>4. \A s \in Subs : sub'[s] = "COPYING" => sub[s] = "COPYING" \/ live[s[2]]
    BY <2>1, <2>3 DEF LiveAgrees, Strategy, TypeOK, RowType
  <2>5. \A q \in Requests : pc'[q] = "start" => live'[Strategy(q)']
    BY <2>1, <2>2 DEF Strategy
  <2> QED
    BY <2>1, <2>4, <2>5 DEF LiveAgrees
<1>2. ASSUME NEW r \in Requests, NEW s \in Subs, Arrives(r, s) PROVE LiveAgrees'
  BY <1>2, ArrivalFrame DEF LiveAgrees, Quiet, owner, rows
<1>3. ASSUME NEW a \in Accounts, Disconnect(a) \/ Connect(a) PROVE LiveAgrees'
  BY <1>3 DEF Disconnect, Connect, LiveAgrees, request, owner, Strategy
<1>4. CASE Suspend
  BY <1>4 DEF Suspend, LiveAgrees, request, owner, Strategy
<1>5. ASSUME NEW t \in Strategies, ActivateStrategy(t) PROVE LiveAgrees'
  BY <1>5 DEF ActivateStrategy, LiveAgrees, request, owner, Strategy, TypeOK, RowType
<1>6. ASSUME NEW t \in Strategies, PauseStrategy(t) PROVE LiveAgrees'
  <2>1. Quiet /\ UNCHANGED <<sub, pc>> /\ ownerPc' = "read" /\ ownerOf' = t
    BY <1>6, WriteFrame DEF PauseStrategy, request
  <2>2. \A s \in Subs : s[2] # t => live'[s[2]] = live[s[2]]
    BY <1>6 DEF PauseStrategy, TypeOK, RowType
  <2> QED
    BY <2>1, <2>2 DEF LiveAgrees, Quiet
<1>7. CASE OwnerStep
  <2>1. UNCHANGED <<live, request, ownerOf>>
    BY <1>7 DEF OwnerStep, ReadAffected, PauseAll, CountAffected, ShowIdle, OwnerEnds, rows
  <2>2. \A s \in Subs : sub'[s] = "COPYING" =>
          sub[s] = "COPYING" /\ (ownerPc = "pauseAll" => s[2] # ownerOf)
    BY <1>7 DEF OwnerStep, ReadAffected, PauseAll, CountAffected, ShowIdle, OwnerEnds, rows
  <2>3. ownerPc = "read" => ownerPc' = "pauseAll"
    BY <1>7 DEF OwnerStep, ReadAffected, PauseAll, CountAffected, ShowIdle, OwnerEnds
  <2> QED
    BY <2>1, <2>2, <2>3 DEF LiveAgrees, request, Strategy
<1>8. ASSUME NEW j \in Jobs, JobStep(j) \/ \E s \in Subs : ListSub(j, s) PROVE LiveAgrees'
  <2>1. UNCHANGED <<live, request, owner>>
    BY <1>8, JobFrame
  <2>2. \A s \in Subs : sub'[s] = "COPYING" => sub[s] = "COPYING"
    BY <1>8, JobFrame DEF TypeOK, RowType
  <2> QED
    BY <2>1, <2>2 DEF LiveAgrees, request, owner, Strategy
<1>9. CASE NextDay \/ UNCHANGED vars
  BY <1>9 DEF NextDay, vars, LiveAgrees, request, owner, rows, Strategy
<1> QED
  BY <1>1, <1>2, <1>3, <1>4, <1>5, <1>6, <1>7, <1>8, <1>9 DEF Next, Arrives

\* A member's request: what it changes of its account it corrects at the end.
LEMMA ShownByRequest ==
  ASSUME TypeOK, AloneAtWork, ShownAgrees, NEW r \in Requests, RequestStep(r)
  PROVE  ShownAgrees'
<1>0. PICK a0 \in Accounts : a0 = req[r][1]
  BY RequestFrame, SlotType DEF TypeOK, Account
<1>1. /\ pc[r] # "idle" /\ ownerPc = "idle" /\ ownerPc' = "idle" /\ req[r] \in Subs
      /\ \A q \in Requests \ {r} : pc[q] = "idle" /\ pc'[q] = "idle"
  BY RequestFrame DEF AloneAtWork, owner, TypeOK, RequestType, Account
<1>2. \A a \in Accounts :
        armed[a] /\ shown[a] = "COPYING"
          => CopiesOn(a) \/ (pc[r] \in {"decrement", "count", "sync"} /\ a0 = a)
  BY <1>0, <1>1 DEF ShownAgrees, Settling, Account
<1>3. SUFFICES
        /\ \A a \in Accounts :
             armed'[a] /\ shown'[a] = "COPYING"
               => CopiesOn(a)' \/ (pc'[r] \in {"decrement", "count", "sync"} /\ req'[r][1] = a)
        /\ (pc'[r] = "show" \/ (pc'[r] = "sync" /\ still'[r])) /\ armed'[req'[r][1]]
             => \E s \in Subs : s[1] = req'[r][1] /\ sub'[s] = "COPYING"
  BY <1>1 DEF ShownAgrees, Settling, Account, CopiesOn
<1>4. CASE CheckLimit(r) \/ CheckAccount(r) \/ CheckStrategy(r) \/ CountMember(r)
  <2>1. /\ UNCHANGED <<sub, shown, armed>>
        /\ pc[r] \notin {"decrement", "count", "sync"} /\ pc'[r] \notin {"show", "sync"}
    BY <1>4 DEF CheckLimit, CheckAccount, CheckStrategy, Check, CountMember, Continue,
       EndRequest, Goto, rows, TypeOK, RequestType
  <2> QED
    BY <1>2, <2>1 DEF CopiesOn
<1>5. CASE CreateSub(r)
  <2>1. /\ UNCHANGED <<shown, armed>> /\ pc[r] = "create" /\ pc'[r] \notin {"show", "sync"}
        /\ \A s \in Subs : sub'[s] = "COPYING" <=> sub[s] = "COPYING"
    BY <1>1, <1>5 DEF CreateSub, Continue, EndRequest, Goto, TypeOK, RequestType, RowType
  <2> QED
    BY <1>2, <2>1 DEF CopiesOn
<1>6. CASE DeleteSub(r) \/ PauseSub(r) \/ StopSub(r)
  <2>1. /\ UNCHANGED <<shown, armed>> /\ pc[r] \in {"delete", "pause", "stop"}
        /\ pc'[r] \notin {"show", "sync"}
    BY <1>0, <1>6 DEF DeleteSub, PauseSub, StopSub, UpdateSub, Continue, EndRequest, Goto, TypeOK,
       RequestType
  <2>2. \/ sub' = sub
        \/ /\ pc'[r] \in {"decrement", "count"} /\ req'[r][1] = a0
           /\ \A s \in Subs : s # req[r] => sub'[s] = sub[s]
    BY <1>0, <1>1, <1>6 DEF DeleteSub, PauseSub, StopSub, UpdateSub, Continue, Goto, TypeOK,
       RequestType, RowType
  <2>3. CASE sub' = sub
    BY <1>2, <2>1, <2>3 DEF CopiesOn
  <2>4. CASE /\ pc'[r] \in {"decrement", "count"} /\ req'[r][1] = a0
             /\ \A s \in Subs : s # req[r] => sub'[s] = sub[s]
    <3>1. \A a \in Accounts : a # a0 => (CopiesOn(a) => CopiesOn(a)')
      BY <1>0, <2>4 DEF CopiesOn
    <3> QED
      BY <1>2, <2>1, <2>4, <3>1
  <2> QED
    BY <2>2, <2>3, <2>4
<1>7. CASE UncountMember(r)
  <2>1. /\ UNCHANGED <<sub, shown, armed>> /\ pc'[r] = "count" /\ req'[r][1] = a0
    BY <1>0, <1>7 DEF UncountMember, Continue, Goto, TypeOK, RequestType
  <2> QED
    BY <1>2, <2>1 DEF CopiesOn
<1>8. CASE StartSub(r)
  <2>1. /\ UNCHANGED shown /\ pc[r] = "start"
        /\ \A a \in Accounts : a # a0 => armed'[a] = armed[a]
    BY <1>0, <1>8 DEF StartSub, UpdateSub, Account, TypeOK, CountType
  <2>2. CASE sub[req[r]] = "none"
    <3>1. sub' = sub /\ pc'[r] = "idle"
      BY <1>8, <2>2 DEF StartSub, UpdateSub, EndRequest, Goto, TypeOK, RequestType
    <3>2. \A a \in Accounts : armed'[a] <=> armed[a]
      BY <1>1, <1>8, <2>1, <2>2 DEF StartSub, Account, TypeOK, CountType
    <3> QED
      BY <1>2, <2>1, <3>1, <3>2 DEF CopiesOn
  <2>3. CASE sub[req[r]] # "none"
    <3>1. /\ sub' = [sub EXCEPT ![req[r]] = "COPYING"] /\ req'[r] = req[r]
      BY <1>8, <2>3 DEF StartSub, UpdateSub, Continue
    <3>2. sub'[req[r]] = "COPYING" /\ \A s \in Subs : sub[s] = "COPYING" => sub'[s] = "COPYING"
      BY <1>1, <3>1 DEF TypeOK, RowType
    <3>3. CopiesOn(a0)' /\ \A a \in Accounts : CopiesOn(a) => CopiesOn(a)'
      BY <1>0, <1>1, <3>2 DEF CopiesOn
    <3>4. \E s \in Subs : s[1] = req'[r][1] /\ sub'[s] = "COPYING"
      BY <1>1, <3>1, <3>2
    <3> QED
      BY <1>2, <2>1, <3>3, <3>4
  <2> QED
    BY <2>2, <2>3
<1>9. CASE ShowCopying(r)
  <2>1. /\ UNCHANGED <<sub, armed>> /\ pc[r] = "show" /\ pc'[r] = "idle"
        /\ \A a \in Accounts : a # a0 => shown'[a] = shown[a]
    BY <1>0, <1>9 DEF ShowCopying, EndRequest, Goto, Account, TypeOK, RequestType, RowType
  <2>2. armed[a0] => CopiesOn(a0)
    BY <1>0, <2>1 DEF ShownAgrees, Account
  <2> QED
    BY <1>2, <2>1, <2>2 DEF CopiesOn
<1>10. CASE CountCopying(r)
  <2>1. /\ UNCHANGED <<sub, armed, shown>> /\ pc[r] = "count" /\ pc'[r] = "sync"
        /\ req'[r][1] = a0 /\ (still'[r] => CopiesOn(a0))
    BY <1>0, <1>10 DEF CountCopying, Goto, Account, rows, TypeOK, RequestType
  <2> QED
    BY <1>2, <2>1 DEF CopiesOn
<1>11. CASE SyncAccount(r)
  <2>1. /\ UNCHANGED <<sub, armed>> /\ pc[r] = "sync" /\ pc'[r] = "idle"
        /\ \A a \in Accounts : a # a0 => shown'[a] = shown[a]
        /\ shown'[a0] = IF still[r] THEN "COPYING" ELSE "IDLE"
    BY <1>0, <1>1, <1>11 DEF SyncAccount, EndRequest, Goto, Account, TypeOK, RequestType, RowType
  <2>2. still[r] /\ armed[a0] => CopiesOn(a0)
    BY <1>0, <2>1 DEF ShownAgrees, Account
  <2> QED
    BY <1>2, <2>1, <2>2 DEF CopiesOn
<1> QED
  BY <1>4, <1>5, <1>6, <1>7, <1>8, <1>9, <1>10, <1>11 DEF RequestStep

\* The owner's request: the accounts it stopped are looked at one by one.
LEMMA ShownByOwner ==
  ASSUME TypeOK, AloneAtWork, ShownAgrees, OwnerStep
  PROVE  ShownAgrees'
<1>1. /\ \A r \in Requests : pc[r] = "idle" /\ pc'[r] = "idle"
      /\ armed' = armed
  BY DEF AloneAtWork, OwnerStep, ReadAffected, PauseAll, CountAffected, ShowIdle, OwnerEnds, request
<1>2. SUFFICES
        /\ \A a \in Accounts :
             armed'[a] /\ shown'[a] = "COPYING"
               => \/ CopiesOn(a)'
                  \/ ownerPc' = "count" /\ a \in affected'
                  \/ ownerPc' = "show" /\ a \in affected' \cup {ownerAt'}
        /\ ownerPc' = "pauseAll" =>
             \A s \in Subs : s[2] = ownerOf' /\ sub'[s] = "COPYING" => s[1] \in affected'
  BY <1>1 DEF ShownAgrees, Settling
<1>3. \A a \in Accounts :
        armed[a] /\ shown[a] = "COPYING"
          => \/ CopiesOn(a)
             \/ ownerPc = "count" /\ a \in affected
             \/ ownerPc = "show" /\ a \in affected \cup {ownerAt}
  BY <1>1 DEF ShownAgrees, Settling
<1>4. CASE ReadAffected
  BY <1>1, <1>3, <1>4 DEF ReadAffected, rows, CopiesOn
<1>5. CASE PauseAll
  <2>1. \A a \in Accounts : CopiesOn(a) => CopiesOn(a)' \/ a \in affected
    BY <1>5 DEF PauseAll, ShownAgrees, CopiesOn
  <2> QED
    BY <1>1, <1>3, <1>5, <2>1 DEF PauseAll
<1>6. CASE CountAffected
  <2>1. PICK a \in affected : /\ affected' = affected \ {a} /\ ownerAt' = a
                              /\ ownerPc' = IF CopiesOn(a) THEN "count" ELSE "show"
    BY <1>6 DEF CountAffected
  <2>2. UNCHANGED <<sub, shown>> /\ ownerPc = "count"
    BY <1>6 DEF CountAffected, rows
  <2> QED
    BY <1>1, <1>3, <2>1, <2>2 DEF CopiesOn
<1>7. CASE ShowIdle
  <2>1. /\ UNCHANGED <<sub, affected>> /\ ownerPc = "show" /\ ownerPc' = "count"
        /\ \A a \in Accounts : a # ownerAt => shown'[a] = shown[a]
        /\ shown'[ownerAt] = "IDLE"
    BY <1>7 DEF ShowIdle, TypeOK, RowType, OwnerType
  <2> QED
    BY <1>1, <1>3, <2>1 DEF CopiesOn
<1>8. CASE OwnerEnds
  BY <1>1, <1>3, <1>8 DEF OwnerEnds, rows, CopiesOn
<1> QED
  BY <1>4, <1>5, <1>6, <1>7, <1>8 DEF OwnerStep

LEMMA ShownKept ==
  ASSUME TypeOK, AloneAtWork, ShownAgrees, [Next]_vars, ~overlapped'
  PROVE  ShownAgrees'
<1>1. ASSUME NEW r \in Requests, NEW s \in Subs, Arrives(r, s) PROVE ShownAgrees'
  <2>1. /\ \A q \in Requests : pc[q] = "idle"
        /\ \A q \in Requests : pc'[q] \notin {"decrement", "count", "sync", "show"}
        /\ ownerPc = "idle" /\ UNCHANGED <<sub, shown, armed, ownerPc>>
    BY <1>1, ArrivalFrame DEF Quiet, rows, owner, TypeOK, RequestType
  <2> QED
    BY <2>1 DEF ShownAgrees, Settling, CopiesOn
<1>2. CASE \/ \E a \in Accounts : Disconnect(a) \/ Connect(a)
           \/ Suspend
           \/ \E t \in Strategies : ActivateStrategy(t) \/ PauseStrategy(t)
  <2>1. /\ \A q \in Requests : pc[q] = "idle" /\ pc'[q] = "idle"
        /\ ownerPc = "idle" /\ ownerPc' \in {"idle", "read"} /\ armed' = armed
    BY <1>2, WriteFrame
    DEF Quiet, request, Disconnect, Connect, Suspend, ActivateStrategy, PauseStrategy, owner
  <2>2. \A a \in Accounts : shown'[a] = "COPYING" =>
          shown[a] = "COPYING" /\ (CopiesOn(a) => CopiesOn(a)')
    BY <1>2 DEF Disconnect, Connect, Suspend, ActivateStrategy, PauseStrategy, CopiesOn, TypeOK, RowType
  <2> QED
    BY <2>1, <2>2 DEF ShownAgrees, Settling
<1>3. ASSUME NEW j \in Jobs, JobStep(j) \/ \E s \in Subs : ListSub(j, s) PROVE ShownAgrees'
  <2>1. UNCHANGED <<shown, pc, req, still, ownerPc, ownerOf, affected, ownerAt>>
    BY <1>3, JobFrame DEF request, owner
  <2>2. \A a \in Accounts : armed'[a] => armed[a] /\ (CopiesOn(a) => CopiesOn(a)')
    BY <1>3, JobFrame DEF CopiesOn, TypeOK, RowType, CountType
  <2>3. \A s \in Subs : sub'[s] = "COPYING" => sub[s] = "COPYING"
    BY <1>3, JobFrame DEF TypeOK, RowType
  <2>4. \A a : Settling(a)' <=> Settling(a)
    BY <2>1 DEF Settling, Account
  <2>5. \A r \in Requests : pc[r] # "idle" => Account(r) \in Accounts
    BY SlotType DEF TypeOK
  <2>6. \A a \in Accounts :
          armed'[a] /\ shown'[a] = "COPYING" => CopiesOn(a)' \/ Settling(a)'
    BY <2>1, <2>2, <2>4 DEF ShownAgrees
  <2>7. ASSUME NEW r \in Requests, pc'[r] = "show" \/ (pc'[r] = "sync" /\ still'[r]),
               armed'[Account(r)']
        PROVE  CopiesOn(Account(r))'
    BY <2>1, <2>2, <2>5, <2>7 DEF ShownAgrees, CopiesOn, Account
  <2>8. ownerPc' = "pauseAll" =>
          \A s \in Subs : s[2] = ownerOf' /\ sub'[s] = "COPYING" => s[1] \in affected'
    BY <2>1, <2>3 DEF ShownAgrees
  <2> QED
    BY <2>6, <2>7, <2>8 DEF ShownAgrees
<1>4. CASE NextDay \/ UNCHANGED vars
  BY <1>4 DEF NextDay, vars, ShownAgrees, Settling, CopiesOn, Account, request, owner, rows
<1> QED
  BY <1>1, <1>2, <1>3, <1>4, ShownByRequest, ShownByOwner DEF Next, Arrives

\* The plan: only CheckLimit leads to the row of a new subscription, and while its request
\* is alone no other row is added.
LEMMA PlanSame ==
  ASSUME PlanAgrees, SameSubs, \A r \in Requests : pc'[r] = "create" => pc[r] = "create"
  PROVE  PlanAgrees'
<1>1. Used' = Used
  BY DEF Used, SameSubs
<1> QED
  BY <1>1 DEF PlanAgrees

LEMMA PlanKept ==
  ASSUME TypeOK, AloneAtWork, PlanAgrees, [Next]_vars, ~overlapped'
  PROVE  PlanAgrees'
<1>1. IsFiniteSet(Used) /\ Cardinality(Used) \in Nat /\ PlanLimit \in Nat
  <2>1. Used \in SUBSET Subs
    BY DEF Used
  <2>2. IsFiniteSet(Used)
    BY <2>1, FiniteAssumption, FS_Subset
  <2> QED
    BY <2>2, FS_CardinalityType, LimitsAssumption
<1>2. ASSUME NEW r \in Requests, RequestStep(r) PROVE PlanAgrees'
  <2>1. pc[r] # "idle" /\ req[r] \in Subs /\ \A q \in Requests \ {r} : pc'[q] = "idle"
    BY <1>2, RequestFrame DEF AloneAtWork, TypeOK, RequestType
  <2>2. CASE CheckLimit(r)
    <3>1. pc'[r] = "create" => Cardinality(Used) < PlanLimit
      BY <2>2 DEF CheckLimit, Check, Used, EndRequest, Goto, TypeOK, RequestType
    <3>2. Used' = Used
      BY <2>2 DEF CheckLimit, Check, Used, rows
    <3> QED
      BY <2>1, <3>1, <3>2 DEF PlanAgrees
  <2>3. CASE CreateSub(r)
    <3>1. pc[r] = "create" /\ pc'[r] # "create"
      BY <2>3 DEF CreateSub, Continue, EndRequest, Goto, TypeOK, RequestType
    <3>2. Used' = Used \/ (req[r] \notin Used /\ Used' = Used \cup {req[r]})
      BY <2>1, <2>3 DEF CreateSub, Used, TypeOK, RowType
    <3>3. Cardinality(Used)' <= PlanLimit
      BY <1>1, <3>1, <3>2, FS_AddElement DEF PlanAgrees
    <3> QED
      BY <2>1, <3>1, <3>3 DEF PlanAgrees
  <2>4. CASE DeleteSub(r)
    <3>1. pc'[r] # "create"
      BY <2>4 DEF DeleteSub, Continue, EndRequest, Goto, TypeOK, RequestType
    <3>2. Used' \in SUBSET Used
      BY <2>1, <2>4 DEF DeleteSub, Used, TypeOK, RowType
    <3>3. Cardinality(Used') <= Cardinality(Used) /\ Cardinality(Used') \in Nat
      BY <1>1, <3>2, FS_Subset, FS_CardinalityType
    <3> QED
      BY <1>1, <2>1, <3>1, <3>3 DEF PlanAgrees
  <2>5. CASE StartSub(r) \/ PauseSub(r) \/ StopSub(r)
    <3>1. SameSubs
      BY <2>1, <2>5 DEF StartSub, PauseSub, StopSub, UpdateSub, SameSubs, TypeOK, RowType
    <3>2. pc'[r] # "create"
      BY <2>5 DEF StartSub, PauseSub, StopSub, UpdateSub, Continue, EndRequest, Goto, TypeOK, RequestType
    <3> QED
      BY <2>1, <3>1, <3>2, PlanSame
  <2>6. CASE \/ CountMember(r) \/ UncountMember(r) \/ CheckAccount(r) \/ CheckStrategy(r)
             \/ ShowCopying(r) \/ CountCopying(r) \/ SyncAccount(r)
    <3>1. SameSubs
      BY <2>6 DEF CountMember, UncountMember, CheckAccount, CheckStrategy, Check, ShowCopying,
         CountCopying, SyncAccount, SameSubs, rows
    <3>2. pc'[r] # "create"
      BY <2>6 DEF CountMember, UncountMember, CheckAccount, CheckStrategy, Check, ShowCopying,
         CountCopying, SyncAccount, Continue, EndRequest, Goto, TypeOK, RequestType
    <3> QED
      BY <2>1, <3>1, <3>2, PlanSame
  <2> QED
    BY <1>2, <2>2, <2>3, <2>4, <2>5, <2>6 DEF RequestStep
<1>3. ASSUME NEW r \in Requests, NEW s \in Subs, Arrives(r, s) PROVE PlanAgrees'
  <2>1. SameSubs /\ \A q \in Requests : pc'[q] # "create"
    BY <1>3, ArrivalFrame DEF SameSubs, rows
  <2> QED
    BY <2>1, PlanSame
<1>4. CASE \/ \E a \in Accounts : Disconnect(a) \/ Connect(a)
           \/ Suspend
           \/ \E t \in Strategies : ActivateStrategy(t) \/ PauseStrategy(t)
  <2>1. SameSubs /\ UNCHANGED request
    BY <1>4 DEF Disconnect, Connect, Suspend, ActivateStrategy, PauseStrategy, SameSubs
  <2> QED
    BY <2>1, PlanSame DEF request
<1>5. CASE OwnerStep
  <2>1. SameSubs /\ UNCHANGED request
    BY <1>5
    DEF OwnerStep, ReadAffected, PauseAll, CountAffected, ShowIdle, OwnerEnds, rows, SameSubs
  <2> QED
    BY <2>1, PlanSame DEF request
<1>6. ASSUME NEW j \in Jobs, JobStep(j) \/ \E s \in Subs : ListSub(j, s) PROVE PlanAgrees'
  <2>1. SameSubs /\ UNCHANGED request
    BY <1>6, JobFrame DEF SameSubs, TypeOK, RowType
  <2> QED
    BY <2>1, PlanSame DEF request
<1>7. CASE NextDay \/ UNCHANGED vars
  <2>1. SameSubs /\ UNCHANGED request
    BY <1>7 DEF NextDay, vars, rows, SameSubs
  <2> QED
    BY <2>1, PlanSame DEF request
<1> QED
  BY <1>2, <1>3, <1>4, <1>5, <1>6, <1>7 DEF Next, Arrives

LEMMA ControlInit == Init => ControlInvariant
BY DEF Init, ControlInvariant, AloneAtWork, LiveAgrees, ShownAgrees, PlanAgrees, Used

LEMMA ControlNext == TypeOK /\ ControlInvariant /\ [Next]_vars => ControlInvariant'
<1> SUFFICES ASSUME TypeOK, ControlInvariant, [Next]_vars, ~overlapped'
             PROVE  (AloneAtWork /\ LiveAgrees /\ ShownAgrees /\ PlanAgrees)'
  BY DEF ControlInvariant
<1>1. ~overlapped
  <2>1. ASSUME NEW r \in Requests, RequestStep(r) PROVE UNCHANGED count
    BY <2>1, RequestFrame
  <2>2. ASSUME NEW j \in Jobs, JobStep(j) \/ \E s \in Subs : ListSub(j, s) PROVE UNCHANGED count
    BY <2>2, JobFrame
  <2>3. ASSUME NEW r \in Requests, NEW s \in Subs, Arrives(r, s) PROVE CountRequest
    BY <2>3 DEF Arrives, Subscribe, Unsubscribe, Start, Pause, Stop, Begin
  <2>4. CASE \/ \E a \in Accounts : Disconnect(a) \/ Connect(a)
             \/ Suspend
             \/ \E t \in Strategies : ActivateStrategy(t) \/ PauseStrategy(t)
    BY <2>4 DEF Disconnect, Connect, Suspend, ActivateStrategy, PauseStrategy, CountRequest
  <2>5. CASE OwnerStep \/ NextDay \/ UNCHANGED vars
    BY <2>5 DEF OwnerStep, ReadAffected, PauseAll, CountAffected, ShowIdle, OwnerEnds, NextDay,
       vars, count
  <2> QED
    BY <2>1, <2>2, <2>3, <2>4, <2>5 DEF Next, Arrives, CountRequest, count
<1>2. AloneAtWork /\ LiveAgrees /\ ShownAgrees /\ PlanAgrees
  BY <1>1 DEF ControlInvariant
<1> QED
  BY <1>2, AloneKept, LiveKept, ShownKept, PlanKept

LEMMA ControlHolds == Spec => []ControlInvariant
BY ControlInit, ControlNext, ControlTypeCorrect, PTL DEF Spec

\* Of requests that do not overlap, whatever copy jobs run beside them: between requests no
\* account is shown copying that does not, unless a breach has stopped it, and nothing
\* copies from a strategy that is not active.
THEOREM ShownStatusIsHonest == Spec => []StatusIsHonest
<1>1. ControlInvariant => StatusIsHonest
  BY DEF ControlInvariant, LiveAgrees, ShownAgrees, Settling, StatusIsHonest, ShownMeansCopying,
     PausedMeansStill, Quiet
<1> QED
  BY <1>1, ControlHolds, PTL

\* Of such requests, a member never has more subscriptions than the plan allows.
THEOREM SubscriptionsWithinPlan == Spec => []WithinPlan
<1>1. ControlInvariant => WithinPlan
  BY DEF ControlInvariant, PlanAgrees, WithinPlan, Used
<1> QED
  BY <1>1, ControlHolds, PTL
-----------------------------------------------------------------------------
(* A breach stops the account for its day, with one job at work at a time.   *)
(* Two jobs of one account do not keep it: the reset of the slower one may   *)
(* erase the breach the faster one has found.                                *)

OneJob == \A j, k \in Jobs : j = k

\* The risk state is of no later day than today, and marks a breach of its own day; what a
\* job has evaluated is still the state of its account.
RiskKnown(a) ==
  /\ risk[a].day <= today /\ breachDay[a] <= risk[a].day
  /\ breachDay[a] = risk[a].day => risk[a].breached
JobKnown(j) ==
  /\ jobPc[j] \in {"reset", "order", "breach"} => jobDay[j] <= today
  /\ jobPc[j] = "reset" => risk[JobAccount(j)].day < jobDay[j]
  /\ jobPc[j] \in {"order", "breach"} => risk[JobAccount(j)].day = jobDay[j]

BreachInvariant == (\A a \in Accounts : RiskKnown(a)) /\ (\A j \in Jobs : JobKnown(j))

LEMMA BreachInit == Init => BreachInvariant
BY DEF Init, BreachInvariant, RiskKnown, JobKnown, Never

\* What is not a job's leaves the risk states and the jobs as they are.
LEMMA RiskFrame ==
  ASSUME TypeOK, [Next]_vars,
         ~ \E j \in Jobs : JobStep(j) \/ \E s \in Subs : ListSub(j, s)
  PROVE  UNCHANGED copying /\ (today' = today \/ today' = today + 1)
<1>1. ASSUME NEW r \in Requests, RequestStep(r) PROVE UNCHANGED <<copying, today>>
  BY <1>1, RequestFrame
<1>2. ASSUME NEW r \in Requests, NEW s \in Subs, Arrives(r, s) PROVE UNCHANGED <<copying, today>>
  BY <1>2 DEF Arrives, Subscribe, Unsubscribe, Start, Pause, Stop, Begin
<1>3. CASE \/ \E a \in Accounts : Disconnect(a) \/ Connect(a)
           \/ Suspend
           \/ \E t \in Strategies : ActivateStrategy(t) \/ PauseStrategy(t)
  BY <1>3 DEF Disconnect, Connect, Suspend, ActivateStrategy, PauseStrategy
<1>4. CASE OwnerStep
  BY <1>4 DEF OwnerStep, ReadAffected, PauseAll, CountAffected, ShowIdle, OwnerEnds
<1>5. CASE NextDay \/ UNCHANGED vars
  BY <1>5 DEF NextDay, vars
<1> QED
  BY <1>1, <1>2, <1>3, <1>4, <1>5 DEF Next, Arrives

LEMMA BreachStep == OneJob /\ TypeOK /\ BreachInvariant /\ [Next]_vars => BreachInvariant'
<1> SUFFICES ASSUME OneJob, TypeOK, BreachInvariant, [Next]_vars PROVE BreachInvariant'
  OBVIOUS
<1>0. /\ \A a \in Accounts : /\ risk[a].day \in Nat /\ risk[a].breached \in BOOLEAN
                             /\ breachDay[a] \in Int
      /\ today \in Nat /\ jobDay \in [Jobs -> Nat] /\ jobPc \in [Jobs -> JobPC]
      /\ \A j \in Jobs : jobPc[j] # "idle" => JobAccount(j) \in Accounts
  BY SubsAssumption DEF TypeOK, JobType, CountType, RiskType, Never, JobAccount
<1>1. CASE ~ \E j \in Jobs : JobStep(j) \/ \E s \in Subs : ListSub(j, s)
  <2>1. UNCHANGED copying /\ (today' = today \/ today' = today + 1)
    BY <1>1, RiskFrame
  <2> QED
    BY <1>0, <2>1 DEF BreachInvariant, RiskKnown, JobKnown, JobAccount, copying
<1>2. ASSUME NEW j \in Jobs, JobStep(j) \/ \E s \in Subs : ListSub(j, s)
      PROVE  BreachInvariant'
  <2>1. \A k \in Jobs : k = j
    BY DEF OneJob
  <2>2. RiskKnown(JobAccount(j)) \/ jobPc[j] = "idle"
    BY <1>0 DEF BreachInvariant
  <2>3. JobKnown(j)
    BY DEF BreachInvariant
  <2>4. SUFFICES /\ \A a \in Accounts : RiskKnown(a)'
                 /\ JobKnown(j)'
    BY <2>1 DEF BreachInvariant
  <2>5. CASE LoadRisk(j)
    <3>1. PICK a \in Accounts : a = JobAccount(j)
      BY <1>0, <2>5 DEF LoadRisk
    <3>2. \/ jobPc'[j] = "reset" /\ risk[a].day # today /\ JobAccount(j)' = a
          \/ jobPc'[j] = "idle"
          \/ jobPc'[j] \in {"order", "breach"} /\ risk[a].day = today /\ JobAccount(j)' = a
      BY <1>0, <2>5, <3>1 DEF LoadRisk, Evaluate, JobGoto, JobAccount
    <3>3. jobDay'[j] = today /\ UNCHANGED <<risk, breachDay, today>>
      BY <1>0, <2>5 DEF LoadRisk
    <3>4. risk[a].day <= today
      BY DEF BreachInvariant, RiskKnown
    <3> QED
      BY <1>0, <3>2, <3>3, <3>4 DEF BreachInvariant, RiskKnown, JobKnown
  <2>6. CASE ResetDay(j)
    <3>1. PICK a \in Accounts : a = JobAccount(j)
      BY <1>0, <2>6 DEF ResetDay
    <3>2. PICK d \in Nat : d = jobDay[j]
      BY <1>0
    <3>3. jobPc'[j] = "idle" \/ (JobAccount(j)' = a /\ jobPc'[j] \in {"order", "breach"})
      <4>1. PICK step \in {"idle", "order", "breach"} : JobGoto(j, step)
        BY <2>6 DEF ResetDay, Evaluate
      <4>2. jobPc'[j] = step /\ (step # "idle" => job' = job)
        BY <1>0, <4>1 DEF JobGoto
      <4>3. CASE step = "idle"
        BY <4>2, <4>3
      <4>4. CASE step # "idle"
        <5>1. JobAccount(j)' = JobAccount(j)
          BY <4>2, <4>4 DEF JobAccount
        <5> QED
          BY <3>1, <4>1, <4>2, <4>4, <5>1
      <4> QED
        BY <4>3, <4>4
    <3>4. /\ risk' = [risk EXCEPT ![a] = [day |-> d, breached |-> FALSE]]
          /\ UNCHANGED <<jobDay, breachDay, today>>
      BY <2>6, <3>1, <3>2 DEF ResetDay
    <3>5. risk'[a].day = d /\ \A b \in Accounts \ {a} : risk'[b] = risk[b]
      BY <3>4 DEF TypeOK, JobType
    <3>6. risk[a].day < d /\ d <= today
      BY <2>3, <2>6, <3>1, <3>2 DEF JobKnown, ResetDay
    <3>7. breachDay[a] <= risk[a].day
      BY DEF BreachInvariant, RiskKnown
    <3>8. RiskKnown(a)'
      BY <1>0, <3>4, <3>5, <3>6, <3>7 DEF RiskKnown
    <3>9. \A b \in Accounts \ {a} : RiskKnown(b)'
      BY <3>4, <3>5 DEF BreachInvariant, RiskKnown
    <3>10. JobKnown(j)'
      BY <3>2, <3>3, <3>4, <3>5, <3>6 DEF JobKnown
    <3> QED
      BY <3>8, <3>9, <3>10
  <2>7. CASE PauseForBreach(j)
    <3>1. PICK a \in Accounts : a = JobAccount(j)
      BY <1>0, <2>7 DEF PauseForBreach
    <3>2. jobPc'[j] = "idle" /\ UNCHANGED today
      BY <1>0, <2>7 DEF PauseForBreach, JobGoto
    <3>3. risk[a].day = jobDay[j]
      BY <2>3, <2>7, <3>1 DEF JobKnown, PauseForBreach
    <3>4. CASE sub[job[j]] = "none"
      BY <2>7, <3>2, <3>4 DEF PauseForBreach, BreachInvariant, RiskKnown, JobKnown
    <3>5. CASE sub[job[j]] # "none"
      <4>1. /\ risk' = [risk EXCEPT ![a].breached = TRUE]
            /\ breachDay' = [breachDay EXCEPT ![a] = jobDay[j]]
        BY <2>7, <3>1, <3>5 DEF PauseForBreach
      <4>2. risk[a] \in [day : Nat, breached : BOOLEAN]
        BY DEF TypeOK, JobType, RiskType
      <4>3. risk'[a] = [risk[a] EXCEPT !.breached = TRUE] /\ breachDay'[a] = jobDay[j]
        BY <4>1 DEF TypeOK, JobType
      <4>4. risk'[a].breached /\ risk'[a].day = risk[a].day
        BY <4>2, <4>3
      <4>5. \A b \in Accounts \ {a} : risk'[b] = risk[b] /\ breachDay'[b] = breachDay[b]
        BY <4>1 DEF TypeOK, JobType
      <4>6. risk[a].day <= today
        BY DEF BreachInvariant, RiskKnown
      <4>7. RiskKnown(a)'
        BY <1>0, <3>2, <3>3, <4>3, <4>4, <4>6 DEF RiskKnown
      <4>8. \A b \in Accounts \ {a} : RiskKnown(b)'
        BY <3>2, <4>5 DEF BreachInvariant, RiskKnown
      <4> QED
        BY <3>2, <4>7, <4>8 DEF JobKnown
    <3> QED
      BY <3>4, <3>5
  <2>8. CASE SendOrder(j)
    <3>1. jobPc'[j] = "idle" /\ UNCHANGED <<risk, breachDay, today>>
      BY <1>0, <2>8 DEF SendOrder, JobGoto
    <3> QED
      BY <3>1 DEF BreachInvariant, RiskKnown, JobKnown
  <2>9. ASSUME NEW s \in Subs, ListSub(j, s)
        PROVE  (\A a \in Accounts : RiskKnown(a)') /\ JobKnown(j)'
    <3>1. jobPc'[j] = "load" /\ UNCHANGED <<risk, breachDay, today>>
      BY <1>0, <2>9 DEF ListSub
    <3> QED
      BY <3>1 DEF BreachInvariant, RiskKnown, JobKnown
  <2> QED
    BY <1>2, <2>5, <2>6, <2>7, <2>8, <2>9 DEF JobStep
<1> QED
  BY <1>1, <1>2

\* Of one job at a time: after a breach no order of the account is admitted for the rest of
\* its trading day, of whichever subscription, whether or not its member starts the paused one
\* again (evaluateRisk, loadRiskState, pauseForBreach), however requests and jobs interleave.
THEOREM BreachStopsTheDay ==
  ASSUME OneJob PROVE Spec => BreachHoldsToday
<1>1. TypeOK /\ BreachInvariant /\ [Next]_vars
        => [\A j \in Jobs : Admits(j) => breachDay[JobAccount(j)] # jobDay'[j]]_vars
  <2> SUFFICES ASSUME TypeOK, BreachInvariant, [Next]_vars, vars' # vars, NEW j \in Jobs, Admits(j)
               PROVE  breachDay[JobAccount(j)] # jobDay'[j]
    OBVIOUS
  <2>0. /\ jobPc \in [Jobs -> JobPC] /\ jobDay \in [Jobs -> Nat]
        /\ JobAccount(j) \in Accounts /\ JobKnown(j)
    BY SubsAssumption DEF TypeOK, JobType, JobAccount, Admits, BreachInvariant
  <2>1. PICK a \in Accounts : a = JobAccount(j)
    BY <2>0
  <2>2. RiskKnown(a) /\ risk[a].day \in Nat /\ risk[a].breached \in BOOLEAN /\ breachDay[a] \in Int
    BY DEF BreachInvariant, TypeOK, JobType, RiskType, Never
  <2>3. \E k \in Jobs : JobStep(k) \/ \E s \in Subs : ListSub(k, s)
    BY RiskFrame DEF Admits, copying
  <2>4. JobStep(j) \/ \E s \in Subs : ListSub(j, s)
    BY <2>3, OneJob DEF OneJob
  <2>5. CASE LoadRisk(j)
    <3>1. jobDay'[j] = today /\ risk[a].day = today /\ ~risk[a].breached
      BY <2>0, <2>1, <2>5 DEF LoadRisk, Evaluate, JobGoto, Admits
    <3> QED
      BY <2>1, <2>2, <3>1 DEF RiskKnown
  <2>6. CASE ResetDay(j)
    <3>1. jobDay'[j] = jobDay[j] /\ risk[a].day < jobDay[j]
      BY <2>0, <2>1, <2>6 DEF ResetDay, JobKnown
    <3> QED
      BY <2>0, <2>1, <2>2, <3>1 DEF RiskKnown
  <2>7. CASE PauseForBreach(j) \/ SendOrder(j) \/ \E s \in Subs : ListSub(j, s)
    BY <2>7 DEF PauseForBreach, SendOrder, ListSub, Admits
  <2> QED
    BY <2>4, <2>5, <2>6, <2>7 DEF JobStep
<1>2. Init => BreachInvariant
  BY BreachInit
<1>3. TypeOK /\ BreachInvariant /\ [Next]_vars => BreachInvariant'
  BY OneJob, BreachStep
<1> QED
  BY <1>1, <1>2, <1>3, ControlTypeCorrect, PTL DEF Spec, BreachHoldsToday
=============================================================================
