---------------------------- MODULE MarketProofs ----------------------------
(* Proofs about Market for every marketplace: any members and strategies,  *)
(* any plans and limits, any number of requests, in flight and dying.      *)
EXTENDS Market, WellFoundedInduction, FiniteSetTheorems, SequenceTheorems, TLAPS

\* What a request in flight is about, by its step.
Shaped(r) ==
  /\ r \in RequestType
  /\ r.step = "apply" =>
       r.who \in Applicants /\ r.saw \in {""} \cup ProviderStatuses /\ (r.saw # "" => profile[r.who] # None)
  /\ r.step \in {"create", "total"} => r.who \in Applicants /\ r.at \in Strategies /\ profile[r.who] # None
  /\ r.step \in {"link", "issue", "revoke"} => r.who \in Applicants \cup {Admin} /\ r.at \in Strategies
  /\ r.step \in {"count", "remove"} => r.who = Admin /\ r.at \in Strategies
  /\ r.step \in {"limit", "follow", "member", "unfollow", "leave"} => r.who \in Followers /\ r.at \in Strategies
  /\ r.step = "unfollow" => r = Request("unfollow", r.who, r.at)
  /\ r.step \in {"checkout", "apply plan"} => r.who \in Followers /\ r.saw \in DOMAIN Limit

\* What the recount has in hand.
JobShape ==
  /\ job.step = "strategies" => job.left \subseteq Strategies /\ job.of \in Strategies \cup {None}
  /\ job.step = "providers" =>
       job.left \subseteq {p \in Applicants : profile[p] # None} /\ job.of \in job.left \cup {None}

RequestShape == \A t \in 1..Tabs : Shaped(req[t])

TypeInvariant == TypeOK /\ RequestShape /\ JobShape

-----------------------------------------------------------------------------
(* Type correctness.                                                       *)

\* No row of a provider is ever deleted.
ProfilesStay == \A p \in Applicants : profile[p] # None => profile'[p] # None

LEMMA IdleShaped == Idle \in RequestType /\ Shaped(Idle)
BY DEF Idle, Shaped, RequestType, Steps

LEMMA RestType == Rest \in JobType
BY DEF Rest, JobType

LEMMA RowsKept == RowType /\ UNCHANGED rows => RowType'
BY DEF RowType, rows, FollowersOf

LEMMA JobKept == JobShape /\ ProfilesStay /\ job' = job => JobShape'
BY DEF JobShape, ProfilesStay

\* A request stays what it is while others are served.
LEMMA ShapeKept ==
  ASSUME NEW r, Shaped(r), ProfilesStay
  PROVE  Shaped(r)'
BY DEF Shaped, ProfilesStay, RequestType

\* The requests after a step that gives tab t the request new.
LEMMA ShapesKept ==
  ASSUME RequestShape, ProfilesStay, req \in [1..Tabs -> RequestType],
         NEW t \in 1..Tabs, NEW new \in RequestType, Shaped(new), req' = [req EXCEPT ![t] = new]
  PROVE  req' \in [1..Tabs -> RequestType] /\ RequestShape'
<1> SUFFICES ASSUME NEW u \in 1..Tabs PROVE Shaped(req[u])'
  BY DEF RequestShape
<1>1. PICK r : r = req'[u]
  OBVIOUS
<1>2. Shaped(r)
  BY <1>1 DEF RequestShape
<1>3. Shaped(r)'
  BY <1>2, ShapeKept
<1> QED
  BY <1>1, <1>3

LEMMA ShapesStay ==
  ASSUME RequestShape, ProfilesStay, UNCHANGED req
  PROVE  RequestShape'
<1> SUFFICES ASSUME NEW u \in 1..Tabs PROVE Shaped(req[u])'
  BY DEF RequestShape
<1>1. PICK r : r = req[u]
  OBVIOUS
<1>2. Shaped(r)
  BY <1>1 DEF RequestShape
<1>3. Shaped(r)'
  BY <1>2, ShapeKept
<1> QED
  BY <1>1, <1>3

LEMMA CountType ==
  ASSUME TrafficType, NEW who \in Members \cup {None}, NEW at \in Strategies \cup {None}, Count(who, at)
  PROVE  raced' \subseteq Members \cup Strategies /\ requests' \in 0..MaxRequests
<1>1. raced' \subseteq Members \cup Strategies
  <2>1. ({who, at} \cap UNION {{req[t].who, req[t].at} : t \in 1..Tabs}) \ {None, Admin} \subseteq Members \cup Strategies
    OBVIOUS
  <2> QED
    BY <2>1 DEF TrafficType, Count
<1>2. requests' \in 0..MaxRequests
  BY MarketAssumption DEF TrafficType, Count
<1> QED
  BY <1>1, <1>2

LEMMA SendType ==
  ASSUME TypeInvariant, NEW t \in 1..Tabs, NEW r, Shaped(r), Send(t, r), UNCHANGED rows
  PROVE  TypeInvariant'
<1>1. r \in RequestType /\ r.who \in Members \cup {None} /\ r.at \in Strategies \cup {None}
  BY DEF Shaped, RequestType
<1>2. ProfilesStay
  BY DEF ProfilesStay, rows
<1>3. req' \in [1..Tabs -> RequestType] /\ RequestShape'
  BY <1>1, <1>2, ShapesKept DEF TypeInvariant, TypeOK, TrafficType, Send
<1>4. TrafficType'
  BY <1>1, <1>3, CountType DEF TypeInvariant, TypeOK, TrafficType, Send, Count
<1>5. JobShape'
  BY <1>2, JobKept DEF TypeInvariant, Send, Count
<1> QED
  BY <1>3, <1>4, <1>5, RowsKept DEF TypeInvariant, TypeOK

LEMMA ServeType ==
  ASSUME TypeInvariant, NEW who \in Members \cup {None}, NEW at \in Strategies \cup {None},
         Serve(who, at), ProfilesStay, RowType'
  PROVE  TypeInvariant'
<1>1. RequestShape'
  BY ShapesStay DEF TypeInvariant, Serve
<1>2. TrafficType'
  BY CountType DEF TypeInvariant, TypeOK, TrafficType, Serve, Count
<1>3. JobShape'
  BY JobKept DEF TypeInvariant, Serve, Count
<1> QED
  BY <1>1, <1>2, <1>3 DEF TypeInvariant, TypeOK

LEMMA DoneType ==
  ASSUME TypeInvariant, NEW t \in 1..Tabs, Done(t), ProfilesStay, RowType'
  PROVE  TypeInvariant'
<1>1. req' \in [1..Tabs -> RequestType] /\ RequestShape'
  BY IdleShaped, ShapesKept DEF TypeInvariant, TypeOK, TrafficType, Done
<1>2. TrafficType'
  BY <1>1 DEF TypeInvariant, TypeOK, TrafficType, Done
<1>3. JobShape'
  BY JobKept DEF TypeInvariant, Done
<1> QED
  BY <1>1, <1>2, <1>3 DEF TypeInvariant, TypeOK

LEMMA GotoType ==
  ASSUME TypeInvariant, NEW t \in 1..Tabs, NEW step \in Steps, Goto(t, step),
         Shaped([req[t] EXCEPT !.step = step]), ProfilesStay, RowType'
  PROVE  TypeInvariant'
<1>1. PICK new : new = [req[t] EXCEPT !.step = step]
  OBVIOUS
<1>2. new \in RequestType /\ Shaped(new)
  BY <1>1 DEF Shaped
<1>3. req' = [req EXCEPT ![t] = new]
  BY <1>1 DEF Goto, TypeInvariant, TypeOK, TrafficType
<1>4. req' \in [1..Tabs -> RequestType] /\ RequestShape'
  BY <1>2, <1>3, ShapesKept DEF TypeInvariant, TypeOK, TrafficType
<1>5. TrafficType'
  BY <1>4 DEF TypeInvariant, TypeOK, TrafficType, Goto
<1>6. JobShape'
  BY JobKept DEF TypeInvariant, Goto
<1> QED
  BY <1>4, <1>5, <1>6 DEF TypeInvariant, TypeOK

LEMMA JobStepType ==
  ASSUME TypeInvariant, NEW next \in JobType, JobGoes(next), JobShape', ProfilesStay, RowType'
  PROVE  TypeInvariant'
<1>1. RequestShape'
  BY ShapesStay DEF TypeInvariant, JobGoes
<1>2. TrafficType'
  BY DEF TypeInvariant, TypeOK, TrafficType, JobGoes
<1> QED
  BY <1>1, <1>2 DEF TypeInvariant, TypeOK
\* A tab is at a step: what its request is about.
LEMMA TabShape ==
  ASSUME TypeInvariant, NEW t \in 1..Tabs
  PROVE  Shaped(req[t])
BY DEF TypeInvariant, RequestShape

-----------------------------------------------------------------------------
LEMMA NewRequestType ==
  ASSUME TypeInvariant, NEW t \in 1..Tabs, NewRequest(t)
  PROVE  TypeInvariant'
<1>1. ASSUME NEW p \in Applicants, Apply(t, p)
      PROVE  TypeInvariant'
  <2>1. PICK saw : saw = IF profile[p] = None THEN "" ELSE profile[p].status
    OBVIOUS
  <2>2. saw \in {""} \cup ProviderStatuses /\ (profile[p] = None => saw = "")
    BY <2>1 DEF TypeInvariant, TypeOK, RowType, ProfileType
  <2>3. Shaped([ApplicationForm(p) EXCEPT !.saw = saw])
    BY <2>2 DEF Shaped, RequestType, Steps, Members, ApplicationForm, Request, Idle
  <2>4. Send(t, [ApplicationForm(p) EXCEPT !.saw = saw]) /\ UNCHANGED rows
    BY <1>1, <2>1 DEF Apply
  <2> QED
    BY <2>3, <2>4, SendType
<1>2. ASSUME NEW p \in Applicants, NEW s \in Strategies, CreateProviderStrategy(t, p, s)
      PROVE  TypeInvariant'
  <2>1. Shaped(StrategyForm(p, s))
    BY <1>2, NamesAssumption
    DEF Shaped, RequestType, Steps, Members, StrategyForm, Request, Idle, CreateProviderStrategy, ProviderPage, Approved
  <2> QED
    BY <1>2, <2>1, SendType DEF CreateProviderStrategy
<1>3. ASSUME NEW s \in Strategies, NEW who \in Applicants \cup {Admin}, RequestKey(t, who, s) \/ RevokeKey(t, who, s)
      PROVE  TypeInvariant'
  <2>1. Shaped(Request("issue", who, s)) /\ Shaped(Request("revoke", who, s))
    BY DEF Shaped, RequestType, Steps, Members, Request, Idle
  <2> QED
    BY <1>3, <2>1, SendType DEF RequestKey, RevokeKey
<1>4. ASSUME NEW s \in Strategies, NEW who \in Applicants \cup {Admin}, NEW owner \in Members \cup {None},
             ChooseSource(t, who, s, owner)
      PROVE  TypeInvariant'
  <2>1. Shaped(SourceForm(who, s, owner))
    BY DEF Shaped, RequestType, Steps, Members, SourceForm, Request, Idle
  <2> QED
    BY <1>4, <2>1, SendType DEF ChooseSource
<1>5. ASSUME NEW s \in Strategies, DeleteStrategy(t, s)
      PROVE  TypeInvariant'
  <2>1. Shaped(Request("count", Admin, s))
    BY DEF Shaped, RequestType, Steps, Members, Request, Idle
  <2> QED
    BY <1>5, <2>1, SendType DEF DeleteStrategy
<1>6. ASSUME NEW f \in Followers, NEW s \in Strategies, Subscribe(t, f, s) \/ Unsubscribe(t, f, s)
      PROVE  TypeInvariant'
  <2>1. Shaped(Request("limit", f, s)) /\ Shaped(Request("unfollow", f, s))
    BY DEF Shaped, RequestType, Steps, Members, Request, Idle
  <2> QED
    BY <1>6, <2>1, SendType DEF Subscribe, Unsubscribe, SubscribeDialog
<1>7. ASSUME NEW f \in Followers, NEW tier \in DOMAIN Limit, ChangePlan(t, f, tier)
      PROVE  TypeInvariant'
  <2> DEFINE r == [Request("checkout", f, None) EXCEPT !.saw = tier]
  <2>1. Shaped(r)
    BY DEF Shaped, RequestType, Steps, Members, Request, Idle
  <2> QED
    BY <1>7, <2>1, SendType DEF ChangePlan
<1> QED
  BY <1>1, <1>2, <1>3, <1>4, <1>5, <1>6, <1>7 DEF NewRequest

\* The rows after a write to one of the tables.
LEMMA ProfileWritten ==
  ASSUME TypeInvariant, NEW p \in Applicants, NEW row \in ProfileType, profile' = [profile EXCEPT ![p] = row],
         UNCHANGED <<strategy, gone, keys, follows, plan, payments>>
  PROVE  RowType' /\ ProfilesStay
<1>1. RowType'
  BY DEF TypeInvariant, TypeOK, RowType
<1>2. ProfilesStay
  BY NamesAssumption DEF TypeInvariant, TypeOK, RowType, ProfilesStay
<1> QED
  BY <1>1, <1>2

LEMMA StrategyWritten ==
  ASSUME TypeInvariant, NEW s \in Strategies, NEW row \in StrategyType \cup {None},
         strategy' = [strategy EXCEPT ![s] = row], row = None => s \notin keys,
         UNCHANGED <<profile, gone, keys, follows, plan, payments>>
  PROVE  RowType' /\ ProfilesStay
<1>1. RowType'
  BY NamesAssumption DEF TypeInvariant, TypeOK, RowType
<1> QED
  BY <1>1 DEF ProfilesStay

LEMMA FollowsWritten ==
  ASSUME TypeInvariant, follows' \in [Followers \X Strategies -> {"none", "IDLE", "COPYING", "PAUSED"}],
         UNCHANGED <<profile, strategy, gone, keys, plan, payments>>
  PROVE  RowType' /\ ProfilesStay
BY DEF TypeInvariant, TypeOK, RowType, ProfilesStay

LEMMA PlanWritten ==
  ASSUME TypeInvariant, NEW f \in Followers, NEW row \in PlanType, plan' = [plan EXCEPT ![f] = row],
         UNCHANGED <<profile, strategy, gone, keys, follows, payments>>
  PROVE  RowType' /\ ProfilesStay
BY DEF TypeInvariant, TypeOK, RowType, ProfilesStay

\* A strategy with a key has a row, and a row is not None.
LEMMA RowOrNone ==
  ASSUME TypeInvariant, NEW s, NEW row, IF strategy[s] = None THEN row = None ELSE row \in StrategyType
  PROVE  row = None => s \notin keys
<1>1. None \notin StrategyType
  BY NamesAssumption
<1> QED
  BY <1>1 DEF TypeInvariant, TypeOK, RowType

LEMMA NewStrategyType ==
  ASSUME NEW owner \in Applicants \cup {Admin}, NEW public \in BOOLEAN
  PROVE  NewStrategy(owner, public) \in StrategyType
BY DEF NewStrategy, StrategyType, StrategyStatuses

LEMMA ServedType ==
  ASSUME TypeInvariant
  PROVE  /\ \A p \in Applicants, decision \in ProviderStatuses : Review(p, decision) => TypeInvariant'
         /\ \A s \in Strategies, public \in BOOLEAN : CreatePlatformStrategy(s, public) => TypeInvariant'
         /\ \A s \in Strategies : UpdateStrategy(s) => TypeInvariant'
         /\ \A s \in Strategies, status \in StrategyStatuses : SetStrategyStatus(s, status) => TypeInvariant'
         /\ \A f \in Followers : CancelPlan(f) => TypeInvariant'
         /\ \A f \in Followers, s \in Strategies, copyStatus \in {"COPYING", "PAUSED"} :
              Control(f, s, copyStatus) => TypeInvariant'
<1>1. ASSUME NEW p \in Applicants, NEW decision \in ProviderStatuses, Review(p, decision)
      PROVE  TypeInvariant'
  <2>1. PICK row : row = [profile[p] EXCEPT !.status = decision]
    OBVIOUS
  <2>2. row \in ProfileType /\ profile' = [profile EXCEPT ![p] = row]
    BY <1>1, <2>1 DEF Review, ProfileType, TypeInvariant, TypeOK, RowType
  <2>3. RowType' /\ ProfilesStay
    BY <1>1, <2>2, ProfileWritten DEF Review
  <2> QED
    BY <1>1, <2>3, ServeType DEF Review, Members
<1>2. ASSUME NEW s \in Strategies, NEW public \in BOOLEAN, CreatePlatformStrategy(s, public)
      PROVE  TypeInvariant'
  <2>1. NewStrategy(Admin, public) \in StrategyType
    BY NewStrategyType
  <2>2. RowType' /\ ProfilesStay
    BY <1>2, <2>1, StrategyWritten, NamesAssumption DEF CreatePlatformStrategy
  <2> QED
    BY <1>2, <2>2, ServeType DEF CreatePlatformStrategy, Members
<1>3. ASSUME NEW s \in Strategies, UpdateStrategy(s)
      PROVE  TypeInvariant'
  <2>1. PICK row : row = [strategy[s] EXCEPT !.public = ~@]
    OBVIOUS
  <2>2. row \in StrategyType /\ strategy' = [strategy EXCEPT ![s] = row]
    BY <1>3, <2>1 DEF UpdateStrategy, Access, StrategyType, TypeInvariant, TypeOK, RowType
  <2>3. RowType' /\ ProfilesStay
    BY <1>3, <2>2, StrategyWritten, NamesAssumption DEF UpdateStrategy
  <2> QED
    BY <1>3, <2>3, ServeType DEF UpdateStrategy, Members
<1>4. ASSUME NEW s \in Strategies, NEW status \in StrategyStatuses, SetStrategyStatus(s, status)
      PROVE  TypeInvariant'
  <2>1. PICK row : row = [strategy[s] EXCEPT !.status = status]
    OBVIOUS
  <2>2. row \in StrategyType /\ strategy' = [strategy EXCEPT ![s] = row]
    BY <1>4, <2>1 DEF SetStrategyStatus, Access, StrategyType, TypeInvariant, TypeOK, RowType
  <2>3. follows' \in [Followers \X Strategies -> {"none", "IDLE", "COPYING", "PAUSED"}]
    BY <1>4 DEF SetStrategyStatus, TypeInvariant, TypeOK, RowType
  <2>4. RowType' /\ ProfilesStay
    <3>1. strategy' \in [Strategies -> StrategyType \cup {None}]
      BY <2>2 DEF TypeInvariant, TypeOK, RowType
    <3>2. keys' \subseteq {x \in Strategies : strategy'[x] # None}
      <4>1. row # None
        BY <2>2, NamesAssumption
      <4>2. keys' = keys
        BY <1>4 DEF SetStrategyStatus
      <4> QED
        BY <2>2, <4>1, <4>2 DEF TypeInvariant, TypeOK, RowType
    <3> QED
      BY <1>4, <2>3, <3>1, <3>2 DEF SetStrategyStatus, TypeInvariant, TypeOK, RowType, ProfilesStay
  <2> QED
    BY <1>4, <2>4, ServeType DEF SetStrategyStatus, Members
<1>5. ASSUME NEW f \in Followers, CancelPlan(f)
      PROVE  TypeInvariant'
  <2>1. PICK row : row = [plan[f] EXCEPT !.cancel = TRUE]
    OBVIOUS
  <2>2. row \in PlanType /\ plan' = [plan EXCEPT ![f] = row]
    BY <1>5, <2>1 DEF CancelPlan, CanCancel, PlanType, TypeInvariant, TypeOK, RowType
  <2>3. RowType' /\ ProfilesStay
    BY <1>5, <2>2, PlanWritten DEF CancelPlan
  <2> QED
    BY <1>5, <2>3, ServeType DEF CancelPlan, Members
<1>6. ASSUME NEW f \in Followers, NEW s \in Strategies, NEW copyStatus \in {"COPYING", "PAUSED"},
             Control(f, s, copyStatus)
      PROVE  TypeInvariant'
  <2>1. RowType' /\ ProfilesStay
    BY <1>6, FollowsWritten DEF Control, TypeInvariant, TypeOK, RowType
  <2> QED
    BY <1>6, <2>1, ServeType DEF Control, Members
<1> QED
  BY <1>1, <1>2, <1>3, <1>4, <1>5, <1>6

LEMMA PeriodEndsType ==
  ASSUME TypeInvariant, NEW f \in Followers, PeriodEnds(f)
  PROVE  TypeInvariant'
<1>1. PICK row : row = [plan[f] EXCEPT !.running = FALSE]
  OBVIOUS
<1>2. row \in PlanType /\ plan' = [plan EXCEPT ![f] = row]
  BY <1>1 DEF PeriodEnds, PlanType, TypeInvariant, TypeOK, RowType
<1>3. PICK used : used = [k \in DOMAIN payments[f] |-> [payments[f][k] EXCEPT !.over = TRUE]]
  OBVIOUS
<1>4. payments[f] \in Seq(PaymentType)
  BY DEF TypeInvariant, TypeOK, RowType
<1>5. used \in Seq(PaymentType)
  <2>1. PICK n \in Nat : payments[f] \in [1..n -> PaymentType]
    BY <1>4, SeqDef
  <2>2. used \in [1..n -> PaymentType]
    BY <1>3, <2>1 DEF PaymentType
  <2> QED
    BY <2>1, <2>2, SeqDef
<1>6. payments' = [payments EXCEPT ![f] = used]
  BY <1>3 DEF PeriodEnds, TypeInvariant, TypeOK, RowType
<1>7. payments' \in [Followers -> Seq(PaymentType)]
  BY <1>5, <1>6 DEF TypeInvariant, TypeOK, RowType
<1>8. plan' \in [Followers -> PlanType \cup {None}]
  BY <1>2 DEF TypeInvariant, TypeOK, RowType
<1>9. RowType' /\ ProfilesStay
  BY <1>7, <1>8 DEF PeriodEnds, TypeInvariant, TypeOK, RowType, ProfilesStay
<1>10. RequestShape'
  BY <1>9, ShapesStay DEF PeriodEnds, TypeInvariant
<1>11. TrafficType'
  BY DEF PeriodEnds, TypeInvariant, TypeOK, TrafficType, Members
<1>12. JobShape'
  BY <1>9, JobKept DEF PeriodEnds, TypeInvariant
<1> QED
  BY <1>9, <1>10, <1>11, <1>12 DEF TypeInvariant, TypeOK
\* The requests' own steps, by the table they write.
LEMMA ProviderStepType ==
  ASSUME TypeInvariant, NEW t \in 1..Tabs, StoreApplication(t) \/ CountStrategy(t)
  PROVE  TypeInvariant'
<1>1. ASSUME StoreApplication(t)
      PROVE  TypeInvariant'
  <2>1. PICK p : p = req[t].who
    OBVIOUS
  <2>2. p \in Applicants /\ (req[t].saw # "" => profile[p] # None)
    BY <1>1, <2>1, TabShape DEF Shaped, StoreApplication, At
  <2>3. CASE req[t].saw # ""
    <3>1. PICK row : row = [profile[p] EXCEPT !.status = "PENDING"]
      OBVIOUS
    <3>2. row \in ProfileType
      BY <2>2, <2>3, <3>1 DEF ProfileType, ProviderStatuses, TypeInvariant, TypeOK, RowType
    <3>3. profile' = [profile EXCEPT ![p] = row]
      BY <1>1, <2>1, <2>2, <2>3, <3>1 DEF StoreApplication, TypeInvariant, TypeOK, RowType
    <3>4. RowType' /\ ProfilesStay
      BY <1>1, <2>2, <3>2, <3>3, ProfileWritten DEF StoreApplication
    <3> QED
      BY <1>1, <3>4, DoneType DEF StoreApplication
  <2>4. CASE req[t].saw = "" /\ profile[p] # None
    <3>1. profile' = profile
      BY <1>1, <2>1, <2>2, <2>4 DEF StoreApplication, TypeInvariant, TypeOK, RowType
    <3>2. RowType' /\ ProfilesStay
      BY <1>1, <3>1, RowsKept DEF StoreApplication, TypeInvariant, TypeOK, rows, ProfilesStay
    <3> QED
      BY <1>1, <3>2, DoneType DEF StoreApplication
  <2>5. CASE req[t].saw = "" /\ profile[p] = None
    <3>1. PICK row : row = [status |-> "PENDING", strategies |-> 0, subscribers |-> 0]
      OBVIOUS
    <3>2. row \in ProfileType
      BY <3>1 DEF ProfileType, ProviderStatuses
    <3>3. profile' = [profile EXCEPT ![p] = row]
      BY <1>1, <2>1, <2>2, <2>5, <3>1 DEF StoreApplication, TypeInvariant, TypeOK, RowType
    <3>4. RowType' /\ ProfilesStay
      BY <1>1, <2>2, <3>2, <3>3, ProfileWritten DEF StoreApplication
    <3> QED
      BY <1>1, <3>4, DoneType DEF StoreApplication
  <2> QED
    BY <2>3, <2>4, <2>5
<1>2. ASSUME CountStrategy(t)
      PROVE  TypeInvariant'
  <2>1. PICK p : p = req[t].who
    OBVIOUS
  <2>2. p \in Applicants /\ profile[p] # None
    BY <1>2, <2>1, TabShape DEF Shaped, CountStrategy, At
  <2>3. PICK row : row = [profile[p] EXCEPT !.strategies = @ + 1]
    OBVIOUS
  <2>4. profile[p] \in ProfileType
    BY <2>2 DEF TypeInvariant, TypeOK, RowType
  <2>5. row \in ProfileType
    BY <2>3, <2>4 DEF ProfileType
  <2>6. profile' = [profile EXCEPT ![p] = row]
    BY <1>2, <2>1, <2>2, <2>3 DEF CountStrategy, TypeInvariant, TypeOK, RowType
  <2>7. RowType' /\ ProfilesStay
    BY <1>2, <2>2, <2>5, <2>6, ProfileWritten DEF CountStrategy
  <2> QED
    BY <1>2, <2>7, DoneType DEF CountStrategy
<1> QED
  BY <1>1, <1>2

\* One request goes on.
LEMMA StepOn ==
  ASSUME NEW r, Shaped(r),
         NEW step \in {"total", "remove", "follow", "member", "leave", "apply plan"},
         \/ r.step = "create" /\ step = "total"
         \/ r.step = "count" /\ step = "remove"
         \/ r.step \in {"limit", "follow", "unfollow"} /\ step \in {"follow", "member", "leave"}
         \/ r.step = "checkout" /\ step = "apply plan"
  PROVE  step \in Steps /\ Shaped([r EXCEPT !.step = step])
BY DEF Shaped, RequestType, Steps

LEMMA StrategyStepType ==
  ASSUME TypeInvariant, NEW t \in 1..Tabs,
         \/ CreateDraft(t) \/ LinkSource(t) \/ IssueKey(t) \/ KeyRevoked(t) \/ CountActive(t) \/ RemoveStrategy(t)
         \/ CountMember(t, "member", 1) \/ CountMember(t, "leave", -1)
  PROVE  TypeInvariant'
<1>1. PICK s : s = req[t].at
  OBVIOUS
<1>2. s \in Strategies /\ (strategy[s] # None => strategy[s] \in StrategyType)
  BY <1>1, TabShape
  DEF Shaped, CreateDraft, LinkSource, IssueKey, KeyRevoked, CountActive, RemoveStrategy, CountMember, At,
      TypeInvariant, TypeOK, RowType
<1>3. ASSUME CreateDraft(t)
      PROVE  TypeInvariant'
  <2>1. req[t].who \in Applicants
    BY <1>3, TabShape DEF Shaped, CreateDraft, At
  <2>2. CASE Free(s)
    <3>1. PICK row : row = NewStrategy(req[t].who, TRUE)
      OBVIOUS
    <3>2. row \in StrategyType
      BY <2>1, <3>1, NewStrategyType
    <3>3. RowType' /\ ProfilesStay
      BY <1>1, <1>2, <1>3, <2>2, <3>1, <3>2, StrategyWritten, NamesAssumption DEF CreateDraft
    <3>4. Shaped([req[t] EXCEPT !.step = "total"])
      BY <1>3, TabShape, StepOn DEF CreateDraft, At
    <3> QED
      BY <1>1, <1>3, <2>2, <3>3, <3>4, GotoType DEF CreateDraft, Steps
  <2>3. CASE ~Free(s)
    <3>1. RowType' /\ ProfilesStay
      BY <1>1, <1>3, <2>3, RowsKept DEF CreateDraft, TypeInvariant, TypeOK, rows, ProfilesStay
    <3> QED
      BY <1>1, <1>3, <2>3, <3>1, DoneType DEF CreateDraft
  <2> QED
    BY <2>2, <2>3
<1>4. ASSUME LinkSource(t)
      PROVE  TypeInvariant'
  <2>1. req[t].chosen \in Members \cup {None}
    BY TabShape DEF Shaped, RequestType
  <2>2. PICK row : row = IF strategy[s] = None THEN None ELSE [strategy[s] EXCEPT !.source = req[t].chosen]
    OBVIOUS
  <2>3. IF strategy[s] = None THEN row = None ELSE row \in StrategyType
    BY <1>2, <2>1, <2>2 DEF StrategyType
  <2>4. row = None => s \notin keys
    BY <2>3, RowOrNone
  <2>5. strategy' = [strategy EXCEPT ![s] = row]
    BY <1>1, <1>2, <1>4, <2>2 DEF LinkSource, TypeInvariant, TypeOK, RowType
  <2>6. RowType' /\ ProfilesStay
    BY <1>2, <1>4, <2>3, <2>4, <2>5, StrategyWritten DEF LinkSource
  <2> QED
    BY <1>4, <2>6, DoneType DEF LinkSource
<1>5. ASSUME IssueKey(t) \/ KeyRevoked(t)
      PROVE  TypeInvariant'
  <2>1. RowType' /\ ProfilesStay
    BY <1>5 DEF IssueKey, KeyRevoked, TypeInvariant, TypeOK, RowType, ProfilesStay
  <2> QED
    BY <1>5, <2>1, DoneType DEF IssueKey, KeyRevoked
<1>6. ASSUME CountActive(t)
      PROVE  TypeInvariant'
  <2>1. RowType' /\ ProfilesStay
    BY <1>6, RowsKept DEF CountActive, TypeInvariant, TypeOK, rows, ProfilesStay
  <2>2. Shaped([req[t] EXCEPT !.step = "remove"])
    BY <1>6, TabShape, StepOn DEF CountActive, At
  <2> QED
    BY <1>6, <2>1, <2>2, DoneType, GotoType DEF CountActive, Steps
<1>7. ASSUME RemoveStrategy(t)
      PROVE  TypeInvariant'
  <2>1. strategy' = [strategy EXCEPT ![s] = None] /\ gone' = gone \cup {s} /\ keys' = keys \ {s}
    BY <1>1, <1>7 DEF RemoveStrategy
  <2>2. strategy' \in [Strategies -> StrategyType \cup {None}]
    BY <1>2, <2>1 DEF TypeInvariant, TypeOK, RowType
  <2>3. keys' \subseteq {x \in Strategies : strategy'[x] # None}
    BY <1>2, <2>1 DEF TypeInvariant, TypeOK, RowType
  <2>4. follows' \in [Followers \X Strategies -> {"none", "IDLE", "COPYING", "PAUSED"}]
    BY <1>1, <1>7 DEF RemoveStrategy, TypeInvariant, TypeOK, RowType
  <2>5. RowType' /\ ProfilesStay
    BY <1>2, <1>7, <2>1, <2>2, <2>3, <2>4 DEF RemoveStrategy, TypeInvariant, TypeOK, RowType, ProfilesStay
  <2> QED
    BY <1>7, <2>5, DoneType DEF RemoveStrategy
<1>8. ASSUME NEW step \in Steps, NEW by \in Int, CountMember(t, step, by)
      PROVE  TypeInvariant'
  <2>1. PICK row : row = IF strategy[s] = None THEN None ELSE [strategy[s] EXCEPT !.members = @ + by]
    OBVIOUS
  <2>2. IF strategy[s] = None THEN row = None ELSE row \in StrategyType
    BY <1>2, <2>1 DEF StrategyType
  <2>3. row = None => s \notin keys
    BY <2>2, RowOrNone
  <2>4. strategy' = [strategy EXCEPT ![s] = row]
    BY <1>1, <1>8, <2>1 DEF CountMember
  <2>5. UNCHANGED <<profile, gone, keys, follows, plan, payments>> /\ Done(t)
    BY <1>8 DEF CountMember
  <2>6. RowType' /\ ProfilesStay
    BY <1>2, <2>2, <2>3, <2>4, <2>5, StrategyWritten
  <2> QED
    BY <2>5, <2>6, DoneType
<1>9. ASSUME CountMember(t, "member", 1)
      PROVE  TypeInvariant'
  <2>1. "member" \in Steps
    BY DEF Steps
  <2> QED
    BY <1>8, <1>9, <2>1
<1>10. ASSUME CountMember(t, "leave", -1)
       PROVE  TypeInvariant'
  <2>1. "leave" \in Steps /\ -1 \in Int
    BY DEF Steps
  <2> QED
    BY <1>8, <1>10, <2>1
<1> QED
  BY <1>3, <1>4, <1>5, <1>6, <1>7, <1>9, <1>10

LEMMA FollowerStepType ==
  ASSUME TypeInvariant, NEW t \in 1..Tabs, CheckLimit(t) \/ CreateSubscription(t) \/ DeleteSubscription(t)
  PROVE  TypeInvariant'
<1>1. ASSUME CheckLimit(t)
      PROVE  TypeInvariant'
  <2>1. RowType' /\ ProfilesStay
    BY <1>1, RowsKept DEF CheckLimit, TypeInvariant, TypeOK, rows, ProfilesStay
  <2>2. Shaped([req[t] EXCEPT !.step = "follow"])
    BY <1>1, TabShape, StepOn DEF CheckLimit, At
  <2> QED
    BY <1>1, <2>1, <2>2, DoneType, GotoType DEF CheckLimit, Steps
<1>2. ASSUME CreateSubscription(t) \/ DeleteSubscription(t)
      PROVE  TypeInvariant'
  <2>1. RowType' /\ ProfilesStay
    BY <1>2, FollowsWritten DEF CreateSubscription, DeleteSubscription, TypeInvariant, TypeOK, RowType
  <2>2. Shaped([req[t] EXCEPT !.step = "member"]) \/ ~CreateSubscription(t)
    BY TabShape, StepOn DEF CreateSubscription, At
  <2>3. Shaped([req[t] EXCEPT !.step = "leave"]) \/ ~DeleteSubscription(t)
    BY TabShape, StepOn DEF DeleteSubscription, At
  <2> QED
    BY <1>2, <2>1, <2>2, <2>3, DoneType, GotoType DEF CreateSubscription, DeleteSubscription, Steps
<1> QED
  BY <1>1, <1>2

LEMMA PlanStepType ==
  ASSUME TypeInvariant, MarketAssumption, NEW t \in 1..Tabs,
         (\E outcome \in Outcomes : RecordPayment(t, outcome)) \/ ApplyPaidPlan(t)
  PROVE  TypeInvariant'
<1>1. PICK f : f = req[t].who
  OBVIOUS
<1>2. f \in Followers /\ req[t].saw \in DOMAIN Limit
  BY <1>1, TabShape DEF Shaped, RecordPayment, ApplyPaidPlan, At
<1>3. ASSUME NEW outcome \in Outcomes, RecordPayment(t, outcome)
      PROVE  TypeInvariant'
  <2>1. PICK p : p = [tier |-> req[t].saw, status |-> outcome, over |-> FALSE]
    OBVIOUS
  <2>2. p \in PaymentType
    BY <1>2, <2>1 DEF PaymentType, MarketAssumption
  <2>3. PICK more : more = Append(payments[f], p)
    OBVIOUS
  <2>4. payments[f] \in Seq(PaymentType)
    BY <1>2 DEF TypeInvariant, TypeOK, RowType
  <2>5. more \in Seq(PaymentType)
    BY <2>2, <2>3, <2>4
  <2>6. payments' = [payments EXCEPT ![f] = more]
    BY <1>1, <1>2, <1>3, <2>1, <2>3 DEF RecordPayment, TypeInvariant, TypeOK, RowType
  <2>7. payments' \in [Followers -> Seq(PaymentType)]
    BY <1>2, <2>5, <2>6 DEF TypeInvariant, TypeOK, RowType
  <2>8. RowType' /\ ProfilesStay
    BY <1>3, <2>7 DEF RecordPayment, TypeInvariant, TypeOK, RowType, ProfilesStay
  <2>9. Shaped([req[t] EXCEPT !.step = "apply plan"])
    BY <1>3, TabShape, StepOn DEF RecordPayment, At
  <2> QED
    BY <1>3, <2>8, <2>9, DoneType, GotoType DEF RecordPayment, Steps
<1>4. ASSUME ApplyPaidPlan(t)
      PROVE  TypeInvariant'
  <2>1. PICK row : row = [tier |-> req[t].saw, running |-> TRUE, cancel |-> FALSE]
    OBVIOUS
  <2>2. row \in PlanType
    BY <1>2, <2>1 DEF PlanType
  <2>3. RowType' /\ ProfilesStay
    BY <1>1, <1>2, <1>4, <2>1, <2>2, PlanWritten DEF ApplyPaidPlan
  <2> QED
    BY <1>4, <2>3, DoneType DEF ApplyPaidPlan
<1> QED
  BY <1>3, <1>4
\* Die at a step, and the recount.
LEMMA DieType ==
  ASSUME TypeInvariant, NEW t \in 1..Tabs, Die(t)
  PROVE  TypeInvariant'
<1>1. RowType' /\ ProfilesStay
  BY RowsKept DEF Die, TypeInvariant, TypeOK, rows, ProfilesStay
<1>2. req' \in [1..Tabs -> RequestType] /\ RequestShape'
  BY <1>1, IdleShaped, ShapesKept DEF TypeInvariant, TypeOK, TrafficType, Die
<1>3. crashes' \in 0..MaxCrashes
  <2>1. MaxCrashes \in Nat
    BY MarketAssumption DEF MarketAssumption
  <2>2. crashes \in 0..MaxCrashes /\ crashes < MaxCrashes /\ crashes' = crashes + 1
    BY DEF Die, TypeInvariant, TypeOK, TrafficType
  <2> QED
    BY <2>1, <2>2
<1>4. TrafficType'
  BY <1>2, <1>3 DEF TypeInvariant, TypeOK, TrafficType, Die
<1>5. JobShape'
  BY <1>1, JobKept DEF TypeInvariant, Die
<1> QED
  BY <1>1, <1>2, <1>4, <1>5 DEF TypeInvariant, TypeOK

LEMMA CountsOfRows ==
  /\ \A s : Cardinality(FollowersOf(s)) \in Nat
  /\ \A p : Cardinality(OwnedBy(p)) \in Nat /\ Cardinality(SubscribersOf(p)) \in Nat
<1>1. \A s : FollowersOf(s) \in SUBSET Followers
  BY DEF FollowersOf
<1>2. \A p : OwnedBy(p) \in SUBSET Strategies /\ SubscribersOf(p) \in SUBSET Followers
  BY <1>1 DEF OwnedBy, SubscribersOf
<1>3. \A S \in SUBSET Followers : Cardinality(S) \in Nat
  BY NamesAssumption, FS_Subset, FS_CardinalityType
<1>4. \A S \in SUBSET Strategies : Cardinality(S) \in Nat
  BY NamesAssumption, FS_Subset, FS_CardinalityType
<1> QED
  BY <1>1, <1>2, <1>3, <1>4

LEMMA RecountType ==
  ASSUME TypeInvariant, Recount
  PROVE  TypeInvariant'
<1>1. RowType /\ JobShape /\ job \in JobType
  BY DEF TypeInvariant, TypeOK, TrafficType
<1>2. ASSUME UNCHANGED <<profile, strategy>>, NEW next, JobGoes(next)
      PROVE  RowType' /\ ProfilesStay
  BY <1>1, <1>2, RowsKept DEF JobGoes, rows, ProfilesStay
<1>3. ASSUME StartRecount
      PROVE  TypeInvariant'
  <2>1. PICK next : next = [Rest EXCEPT !.step = "strategies", !.left = {s \in Strategies : strategy[s] # None}]
    OBVIOUS
  <2>2. next \in JobType /\ JobGoes(next)
    BY <1>3, <2>1 DEF JobType, Rest, StartRecount
  <2>3. JobShape'
    BY <2>1, <2>2 DEF JobShape, JobGoes, Rest
  <2> QED
    BY <1>2, <1>3, <2>2, <2>3, JobStepType DEF StartRecount
<1>4. ASSUME JobGoes(ProvidersLeft({p \in Applicants : profile[p] # None})), UNCHANGED <<profile, strategy>>
      PROVE  TypeInvariant'
  <2>1. PICK next : next = ProvidersLeft({p \in Applicants : profile[p] # None})
    OBVIOUS
  <2>2. next \in JobType
    BY <2>1 DEF ProvidersLeft, JobType, Rest
  <2>3. JobShape'
    BY <1>4, <2>1 DEF JobShape, JobGoes, Rest, ProvidersLeft
  <2> QED
    BY <1>2, <1>4, <2>1, <2>2, <2>3, JobStepType
<1>5. ASSUME NEW s \in Strategies, ReadMembers(s)
      PROVE  TypeInvariant'
  <2>1. PICK next : next = [job EXCEPT !.of = s, !.subscribers = Cardinality(FollowersOf(s))]
    OBVIOUS
  <2>2. next \in JobType /\ JobGoes(next)
    BY <1>1, <1>5, <2>1, CountsOfRows DEF JobType, ReadMembers
  <2>3. JobShape'
    BY <1>1, <1>5, <2>1, <2>2 DEF JobShape, JobGoes, JobType, ReadMembers
  <2> QED
    BY <1>2, <1>5, <2>2, <2>3, JobStepType DEF ReadMembers
<1>6. ASSUME NEW p \in Applicants, ReadTotals(p)
      PROVE  TypeInvariant'
  <2>1. PICK next : next = [job EXCEPT !.of = p, !.strategies = Cardinality(OwnedBy(p)),
                                       !.subscribers = Cardinality(SubscribersOf(p))]
    OBVIOUS
  <2>2. next \in JobType /\ JobGoes(next)
    BY <1>1, <1>6, <2>1, CountsOfRows DEF JobType, ReadTotals
  <2>3. JobShape'
    BY <1>1, <1>6, <2>1, <2>2 DEF JobShape, JobGoes, JobType, ReadTotals
  <2> QED
    BY <1>2, <1>6, <2>2, <2>3, JobStepType DEF ReadTotals
<1>7. ASSUME WriteMembers
      PROVE  TypeInvariant'
  <2>1. PICK s : s = job.of
    OBVIOUS
  <2>2. s \in Strategies /\ (strategy[s] # None => strategy[s] \in StrategyType)
    BY <1>1, <1>7, <2>1 DEF WriteMembers, JobShape, RowType
  <2>3. PICK row : row = IF strategy[s] = None THEN None ELSE [strategy[s] EXCEPT !.members = job.subscribers]
    OBVIOUS
  <2>4. IF strategy[s] = None THEN row = None ELSE row \in StrategyType
    BY <1>1, <2>2, <2>3 DEF StrategyType, JobType
  <2>5. row = None => s \notin keys
    BY <2>4, RowOrNone
  <2>6. strategy' = [strategy EXCEPT ![s] = row]
    BY <1>1, <1>7, <2>1, <2>2, <2>3 DEF WriteMembers, RowType
  <2>7. RowType' /\ ProfilesStay
    BY <1>7, <2>2, <2>4, <2>5, <2>6, StrategyWritten DEF WriteMembers, JobGoes
  <2>8. PICK next : next = [Rest EXCEPT !.step = "strategies", !.left = job.left \ {job.of}]
    OBVIOUS
  <2>9. next \in JobType /\ JobGoes(next)
    BY <1>1, <1>7, <2>8 DEF JobType, Rest, WriteMembers
  <2>10. JobShape'
    BY <1>1, <1>7, <2>8, <2>9 DEF JobShape, JobGoes, Rest, WriteMembers
  <2> QED
    BY <2>7, <2>9, <2>10, JobStepType
<1>8. ASSUME WriteTotals
      PROVE  TypeInvariant'
  <2>1. PICK p : p = job.of
    OBVIOUS
  <2>2. p \in Applicants /\ profile[p] # None /\ job.left \subseteq {q \in Applicants : profile[q] # None}
    BY <1>1, <1>8, <2>1 DEF WriteTotals, JobShape
  <2>3. PICK row : row = [profile[p] EXCEPT !.strategies = job.strategies, !.subscribers = job.subscribers]
    OBVIOUS
  <2>4. row \in ProfileType
    <3>1. profile[p] \in ProfileType
      BY <1>1, <2>2 DEF RowType
    <3>2. job.strategies \in Int /\ job.subscribers \in Nat
      BY <1>1 DEF JobType
    <3> QED
      BY <2>3, <3>1, <3>2 DEF ProfileType
  <2>5. profile' = [profile EXCEPT ![p] = row]
    BY <1>1, <1>8, <2>1, <2>2, <2>3 DEF WriteTotals, RowType
  <2>6. RowType' /\ ProfilesStay
    BY <1>8, <2>2, <2>4, <2>5, ProfileWritten DEF WriteTotals, JobGoes
  <2>7. PICK next : next = ProvidersLeft(job.left \ {job.of})
    OBVIOUS
  <2>8. next \in JobType /\ JobGoes(next)
    BY <1>1, <1>8, <2>7 DEF ProvidersLeft, JobType, Rest, WriteTotals
  <2>9. JobShape'
    BY <1>8, <2>2, <2>6, <2>7, <2>8 DEF JobShape, JobGoes, Rest, ProvidersLeft, ProfilesStay
  <2> QED
    BY <2>6, <2>8, <2>9, JobStepType
<1> QED
  BY <1>3, <1>4, <1>5, <1>6, <1>7, <1>8 DEF Recount, TurnToProviders

LEMMA TypeNext ==
  ASSUME TypeInvariant, [Next]_vars
  PROVE  TypeInvariant'
<1>1. CASE UNCHANGED vars
  <2>1. RowType' /\ ProfilesStay
    BY <1>1, RowsKept DEF TypeInvariant, TypeOK, vars, rows, ProfilesStay
  <2>2. RequestShape'
    BY <1>1, <2>1, ShapesStay DEF TypeInvariant, vars
  <2>3. TrafficType'
    BY <1>1 DEF TypeInvariant, TypeOK, TrafficType, vars
  <2>4. JobShape'
    BY <1>1, <2>1, JobKept DEF TypeInvariant, vars
  <2> QED
    BY <2>1, <2>2, <2>3, <2>4 DEF TypeInvariant, TypeOK
<1>2. ASSUME NEW t \in 1..Tabs, TabStep(t)
      PROVE  TypeInvariant'
  BY <1>2, MarketAssumption, ProviderStepType, StrategyStepType, FollowerStepType, PlanStepType DEF TabStep
<1> QED
  BY <1>1, <1>2, NewRequestType, DieType, ServedType, PeriodEndsType, RecountType DEF Next
LEMMA LiveStrategyType ==
  ASSUME NEW o \in Applicants, NEW n \in Nat
  PROVE  [NewStrategy(o, TRUE) EXCEPT !.status = "ACTIVE", !.members = n] \in StrategyType
<1>1. PICK x : x = NewStrategy(o, TRUE)
  OBVIOUS
<1>2. x \in StrategyType
  BY <1>1, NewStrategyType
<1>3. PICK y : y = [x EXCEPT !.status = "ACTIVE"]
  OBVIOUS
<1>4. y \in StrategyType
  BY <1>2, <1>3 DEF StrategyType, StrategyStatuses
<1>5. [y EXCEPT !.members = n] \in StrategyType
  BY <1>4 DEF StrategyType
<1>6. [x EXCEPT !.status = "ACTIVE", !.members = n] = [y EXCEPT !.members = n]
  BY <1>2, <1>3 DEF StrategyType
<1> QED
  BY <1>1, <1>5, <1>6

LEMMA ProfileOf ==
  ASSUME NEW x \in ProviderStatuses, NEW n \in Nat, NEW m \in Nat
  PROVE  [status |-> x, strategies |-> n, subscribers |-> m] \in ProfileType
BY DEF ProfileType

LEMMA TypeInit == Init => TypeInvariant
<1> SUFFICES ASSUME Init PROVE TypeInvariant
  OBVIOUS
<1>1. payments \in [Followers -> Seq(PaymentType)]
  <2>1. PICK pro : pro = [tier |-> "PRO", status |-> "PAID", over |-> FALSE]
    OBVIOUS
  <2>2. pro \in PaymentType
    BY <2>1, MarketAssumption DEF PaymentType, MarketAssumption
  <2>3. << >> \in Seq(PaymentType) /\ << pro >> \in Seq(PaymentType)
    BY <2>2
  <2>4. payments = [f \in Followers |-> IF plan[f] = None THEN << >> ELSE << pro >>]
    BY <2>1 DEF Init
  <2> QED
    BY <2>3, <2>4
<1>2. TrafficType
  <2>1. {Tabs, MaxRequests, MaxCrashes} \subseteq Nat
    BY MarketAssumption DEF MarketAssumption
  <2>2. req \in [1..Tabs -> RequestType] /\ job \in JobType
    BY IdleShaped, RestType DEF Init
  <2>3. raced = {} /\ requests = 0 /\ crashes = 0
    BY DEF Init
  <2> QED
    BY <2>1, <2>2, <2>3 DEF TrafficType
<1>3. PICK ownerOf \in [Strategies -> Applicants \cup {Admin, None}],
           statusOf \in [Applicants -> ProviderStatuses \cup {""}], following \in Following :
        AtRest(ownerOf, statusOf, following)
  BY DEF Init
<1> DEFINE live == {s \in Strategies : ownerOf[s] \in Applicants}
           crowd == Cardinality({f \in Followers : following[f] # "none"})
<1>4. crowd \in Nat
  <2>1. {f \in Followers : following[f] # "none"} \in SUBSET Followers
    OBVIOUS
  <2> QED
    BY <2>1, NamesAssumption, FS_Subset, FS_CardinalityType
<1>5. \A p : Cardinality({s \in live : ownerOf[s] = p}) \in Nat
  <2> SUFFICES ASSUME NEW p PROVE Cardinality({s \in live : ownerOf[s] = p}) \in Nat
    OBVIOUS
  <2>1. {s \in live : ownerOf[s] = p} \in SUBSET Strategies
    OBVIOUS
  <2> QED
    BY <2>1, NamesAssumption, FS_Subset, FS_CardinalityType
<1> HIDE DEF crowd
<1>6. strategy \in [Strategies -> StrategyType \cup {None}]
  <2>1. \A o \in Applicants :
          [NewStrategy(o, TRUE) EXCEPT !.status = "ACTIVE", !.members = crowd] \in StrategyType
    BY <1>4, LiveStrategyType
  <2>2. NewStrategy(Admin, TRUE) \in StrategyType
    BY NewStrategyType
  <2>3. strategy = [s \in Strategies |->
          IF ownerOf[s] = None THEN None
          ELSE IF s \notin live THEN NewStrategy(Admin, TRUE)
          ELSE [NewStrategy(ownerOf[s], TRUE) EXCEPT !.status = "ACTIVE", !.members = crowd]]
    BY <1>3 DEF AtRest, crowd
  <2> QED
    BY <2>1, <2>2, <2>3
<1>7. profile \in [Applicants -> ProfileType \cup {None}]
  <2>1. profile = [p \in Applicants |->
          IF statusOf[p] = "" THEN None
          ELSE [status |-> statusOf[p], strategies |-> Cardinality({s \in live : ownerOf[s] = p}),
                subscribers |-> IF {s \in live : ownerOf[s] = p} = {} THEN 0 ELSE crowd]]
    BY <1>3 DEF AtRest, crowd
  <2> HIDE DEF live
  <2>2. ASSUME NEW p \in Applicants
        PROVE  profile[p] \in ProfileType \cup {None}
    <3>1. CASE statusOf[p] = ""
      BY <2>1, <3>1
    <3>2. CASE statusOf[p] # ""
      <4>1. PICK owned \in Nat : owned = Cardinality({s \in live : ownerOf[s] = p})
        BY <1>5
      <4>2. PICK n \in Nat : n = IF {s \in live : ownerOf[s] = p} = {} THEN 0 ELSE crowd
        BY <1>4
      <4>3. profile[p] = [status |-> statusOf[p], strategies |-> owned, subscribers |-> n]
        BY <2>1, <3>2, <4>1, <4>2
      <4>4. statusOf[p] \in ProviderStatuses
        BY <3>2
      <4> QED
        BY <4>3, <4>4, ProfileOf
    <3> QED
      BY <3>1, <3>2
  <2> QED
    BY <2>1, <2>2
<1>8. follows \in [Followers \X Strategies -> {"none", "IDLE", "COPYING", "PAUSED"}]
  BY <1>3 DEF AtRest, Following
<1>9. plan \in [Followers -> PlanType \cup {None}]
  <2>1. [tier |-> "PRO", running |-> TRUE, cancel |-> FALSE] \in PlanType
    BY MarketAssumption DEF PlanType, MarketAssumption
  <2> QED
    BY <1>3, <2>1 DEF AtRest
<1>10. RowType
  BY <1>6, <1>7, <1>8, <1>9, <1>1 DEF Init, RowType
<1>11. RequestShape /\ JobShape
  BY IdleShaped DEF Init, RequestShape, JobShape, Rest
<1> QED
  BY <1>10, <1>2, <1>11 DEF TypeInvariant, TypeOK

\* Every reachable state is one the tables allow: profiles, strategies, subscriptions,
\* plans and payments are rows of their types, keys belong to strategies there are, and
\* a request in flight is about the member and the strategy its handler reads.
THEOREM MarketTypeCorrect == Spec => []TypeOK
<1>1. TypeInvariant /\ [Next]_vars => TypeInvariant'
  BY TypeNext
<1>2. TypeInvariant => TypeOK
  BY DEF TypeInvariant
<1> QED
  BY TypeInit, <1>1, <1>2, PTL DEF Spec
-----------------------------------------------------------------------------
(* What the other invariants say of a request in flight, unless another    *)
(* request was about the same member or strategy.                          *)

\* Members and strategies two requests are about are known to have raced.
Names(r) == {r.who, r.at} \ {None, Admin}
Alone == \A t \in 1..Tabs, u \in 1..Tabs : t # u => Names(req[t]) \cap Names(req[u]) \subseteq raced

\* An application opens again what was rejected.
Decided(r) == r.step = "apply" /\ r.who \notin raced /\ r.saw # "" => profile[r.who].status = "REJECTED"

\* Who was approved when the request came is so still.
StillApproved(r) == r.step \in {"create", "link", "issue", "revoke"} /\ r.who \in Applicants \ raced => Approved(r.who)

\* The strategy whose source is chosen belongs to who chooses, or is gone.
Linking(r) ==
  r.step = "link" => r.at \in gone \/ (strategy[r.at] # None /\ r.chosen \in {None, Admin, strategy[r.at].owner})

Removed == \A s \in gone : strategy[s] = None

PublishInvariant ==
  /\ TypeInvariant /\ Alone /\ Removed /\ SourceIsOwners
  /\ \A t \in 1..Tabs : Decided(req[t]) /\ StillApproved(req[t]) /\ Linking(req[t])

\* A strategy about to be deleted has no followers; a member about to follow one more
\* may.
Emptied(r) == r.step = "remove" /\ r.at \notin raced => FollowersOf(r.at) = {}
Fits(r) == r.step = "follow" /\ r.who \notin raced => Cardinality(Followed(r.who)) < Limit[InForce(r.who)]

FollowInvariant ==
  /\ TypeInvariant /\ Alone
  /\ \A t \in 1..Tabs : Emptied(req[t]) /\ Fits(req[t])

\* A plan in force, or about to be, was paid for, in its own period unless one ended
\* under way; it is that of the last payment.
PaidFor(f, tier) ==
  \E k \in DOMAIN payments[f] :
    payments[f][k].tier = tier /\ payments[f][k].status = "PAID" /\ (payments[f][k].over => f \in raced)
Promised(r) ==
  r.step = "apply plan" =>
    /\ PaidFor(r.who, r.saw)
    /\ r.who \notin raced => \A k \in DOMAIN payments[r.who] : LastPaid(r.who, k) => payments[r.who][k].tier = r.saw
Applied(f) ==
  f \notin raced /\ crashes = 0 /\ (\A t \in 1..Tabs : ~(req[t].step = "apply plan" /\ req[t].who = f)) =>
    \A k \in DOMAIN payments[f] : LastPaid(f, k) => InForce(f) = payments[f][k].tier

PaymentInvariant ==
  /\ TypeInvariant /\ Alone
  /\ \A t \in 1..Tabs : Promised(req[t])
  /\ \A f \in Followers : Applied(f) /\ (plan[f] # None /\ plan[f].running => PaidFor(f, plan[f].tier))
-----------------------------------------------------------------------------
(* Who moves, and what is written.                                         *)

\* Every step is of one tab, which begins a request, ends it or takes it further, or
\* of none.
Begins(t, r) == Send(t, r) /\ UNCHANGED rows
Goes(t, new) ==
  /\ req' = [req EXCEPT ![t] = new] /\ raced' = raced /\ req[t] # Idle
  /\ new = Idle \/ \E step \in Steps : new = [req[t] EXCEPT !.step = step]
NoTabMoves == req' = req /\ raced \subseteq raced'

\* A tab's own step takes its request further or ends it.
LEMMA TabStepEnds ==
  ASSUME NEW t \in 1..Tabs, TabStep(t)
  PROVE  Done(t) \/ \E step \in Steps : Goto(t, step)
<1>1. \A step, by : CountMember(t, step, by) => Done(t)
  BY DEF CountMember
<1>2. CountMember(t, "member", 1) \/ CountMember(t, "leave", -1) => Done(t)
  BY <1>1
<1>3. Done(t) \/ \E step \in {"total", "remove", "follow", "member", "leave", "apply plan"} : Goto(t, step)
  BY <1>2 DEF TabStep, StoreApplication, CreateDraft, CountStrategy, LinkSource, IssueKey, KeyRevoked, CountActive,
              RemoveStrategy, RecordPayment, ApplyPaidPlan, CheckLimit, CreateSubscription, DeleteSubscription
<1>4. {"total", "remove", "follow", "member", "leave", "apply plan"} \subseteq Steps
  BY DEF Steps
<1> QED
  BY <1>3, <1>4

LEMMA TabStepMoves ==
  ASSUME TypeInvariant, NEW t \in 1..Tabs, TabStep(t) \/ Die(t)
  PROVE  \E new \in RequestType : Goes(t, new)
<1>1. PICK r \in RequestType : r = req[t]
  BY DEF TypeInvariant, TypeOK, TrafficType
<1>2. r # Idle
  <2>1. Idle.step = "idle"
    BY DEF Idle
  <2>2. Die(t) => r.step # "idle"
    BY <1>1 DEF Die
  <2>3. TabStep(t) => \E step \in Steps \ {"idle"} : At(t, step)
    <3>1. \A step, by : CountMember(t, step, by) => At(t, step)
      BY DEF CountMember
    <3>2. CountMember(t, "member", 1) \/ CountMember(t, "leave", -1) => At(t, "member") \/ At(t, "leave")
      BY <3>1
    <3>3. TabStep(t) => \/ CountMember(t, "member", 1) \/ CountMember(t, "leave", -1)
                       \/ \E step \in Steps \ {"idle"} : At(t, step)
      BY DEF TabStep, StoreApplication, CreateDraft, CountStrategy, LinkSource, IssueKey, KeyRevoked, CountActive,
             RemoveStrategy, RecordPayment, ApplyPaidPlan, CheckLimit, CreateSubscription, DeleteSubscription, Steps
    <3> QED
      BY <3>2, <3>3 DEF Steps
  <2> QED
    BY <1>1, <2>1, <2>2, <2>3 DEF At
<1>3. ASSUME Done(t) \/ Die(t)
      PROVE  \E new \in RequestType : Goes(t, new)
  <2>1. Goes(t, Idle)
    BY <1>1, <1>2, <1>3 DEF Done, Die, Goes
  <2> QED
    BY <2>1, IdleShaped
<1>4. ASSUME NEW step \in Steps, Goto(t, step)
      PROVE  \E new \in RequestType : Goes(t, new)
  <2>1. PICK new : new = [r EXCEPT !.step = step]
    OBVIOUS
  <2>2. new \in RequestType
    BY <2>1 DEF RequestType
  <2>3. req' = [req EXCEPT ![t] = new]
    BY <1>1, <1>4, <2>1 DEF Goto, TypeInvariant, TypeOK, TrafficType
  <2>4. Goes(t, new)
    BY <1>1, <1>2, <1>4, <2>1, <2>3 DEF Goto, Goes
  <2> QED
    BY <2>2, <2>4
<1> QED
  BY <1>3, <1>4, TabStepEnds

LEMMA IdleStep == Idle.step = "idle"
BY DEF Idle

\* What a tab may be at after its own step, and the step that takes it there.
LEMMA StepsAfter ==
  ASSUME TypeInvariant, NEW t \in 1..Tabs, TabStep(t) \/ Die(t)
  PROVE  /\ req'[t].step \in {"idle", "total", "remove", "follow", "member", "leave", "apply plan"}
         /\ req'[t].step = "remove" => CountActive(t)
         /\ req'[t].step = "follow" => CheckLimit(t)
         /\ req'[t].step = "apply plan" => \E outcome \in Outcomes : RecordPayment(t, outcome)
<1>1. ASSUME NEW step \in Steps, Goto(t, step)
      PROVE  req'[t].step = step
  BY <1>1 DEF Goto, TypeInvariant, TypeOK, TrafficType, RequestType
<1>2. Done(t) \/ Die(t) => req'[t].step = "idle"
  BY IdleStep DEF Done, Die, TypeInvariant, TypeOK, TrafficType
<1>3. ASSUME NEW step \in Steps, NEW by \in Int, CountMember(t, step, by)
      PROVE  Done(t)
  BY <1>3 DEF CountMember
<1>4. "member" \in Steps /\ "leave" \in Steps /\ -1 \in Int /\ 1 \in Int
  BY DEF Steps
<1>5. CountMember(t, "member", 1) => Done(t)
  BY <1>3, <1>4
<1>6. CountMember(t, "leave", -1) => Done(t)
  BY <1>3, <1>4
<1>7. \/ Done(t) \/ Die(t) \/ \E step \in {"total", "member", "leave"} : Goto(t, step)
      \/ CountActive(t) /\ Goto(t, "remove")
      \/ CheckLimit(t) /\ Goto(t, "follow")
      \/ (\E outcome \in Outcomes : RecordPayment(t, outcome)) /\ Goto(t, "apply plan")
  BY <1>5, <1>6 DEF TabStep, StoreApplication, CreateDraft, CountStrategy, LinkSource, IssueKey, KeyRevoked, CountActive,
         RemoveStrategy, RecordPayment, ApplyPaidPlan, CheckLimit, CreateSubscription, DeleteSubscription
<1>8. {"total", "remove", "follow", "member", "leave", "apply plan"} \subseteq Steps
  BY DEF Steps
<1>9. CASE Done(t) \/ Die(t)
  BY <1>2, <1>9
<1>10. CASE \E step \in {"total", "member", "leave"} : Goto(t, step)
  BY <1>1, <1>8, <1>10
<1>11. CASE CountActive(t) /\ Goto(t, "remove")
  BY <1>1, <1>8, <1>11
<1>12. CASE CheckLimit(t) /\ Goto(t, "follow")
  BY <1>1, <1>8, <1>12
<1>13. CASE (\E outcome \in Outcomes : RecordPayment(t, outcome)) /\ Goto(t, "apply plan")
  BY <1>1, <1>8, <1>13
<1> QED
  BY <1>7, <1>9, <1>10, <1>11, <1>12, <1>13

LEMMA NewRequestMoves ==
  ASSUME NEW t \in 1..Tabs, NewRequest(t)
  PROVE  \E r : Begins(t, r)
BY DEF NewRequest, Begins, Apply, CreateProviderStrategy, RequestKey, RevokeKey, ChooseSource, DeleteStrategy,
       Subscribe, Unsubscribe, ChangePlan

LEMMA OthersMoveNone ==
  ASSUME [Next]_vars, \A t \in 1..Tabs : ~(NewRequest(t) \/ TabStep(t) \/ Die(t))
  PROVE  NoTabMoves
BY DEF Next, vars, NoTabMoves, Review, CreatePlatformStrategy, SetStrategyStatus, UpdateStrategy, CancelPlan, PeriodEnds,
       Control, Serve, Count, Recount, StartRecount, TurnToProviders, ReadMembers, ReadTotals, WriteMembers, WriteTotals, JobGoes

\* What raced has raced; a tab that does not move keeps its request.
LEMMA Movement ==
  ASSUME TypeInvariant, [Next]_vars
  PROVE  /\ raced \subseteq raced'
         /\ \A u \in 1..Tabs : req'[u] # req[u] => NewRequest(u) \/ TabStep(u) \/ Die(u)
<1>1. req \in [1..Tabs -> RequestType]
  BY DEF TypeInvariant, TypeOK, TrafficType
<1>2. ASSUME NEW t \in 1..Tabs, NewRequest(t) \/ TabStep(t) \/ Die(t)
      PROVE  raced \subseteq raced' /\ \A u \in 1..Tabs \ {t} : req'[u] = req[u]
  BY <1>1, <1>2, NewRequestMoves, TabStepMoves DEF Begins, Send, Count, Goes
<1>3. CASE \A t \in 1..Tabs : ~(NewRequest(t) \/ TabStep(t) \/ Die(t))
  BY <1>3, OthersMoveNone DEF NoTabMoves
<1> QED
  BY <1>2, <1>3

\* A request that comes has raced with those in flight about the same names.
LEMMA CountRaces ==
  ASSUME NEW who, NEW at, Count(who, at), NEW u \in 1..Tabs
  PROVE  ({who, at} \ {None, Admin}) \cap Names(req[u]) \subseteq raced'
BY DEF Count, Names

LEMMA AloneNext ==
  ASSUME TypeInvariant, Alone, [Next]_vars
  PROVE  Alone'
<1>1. req \in [1..Tabs -> RequestType]
  BY DEF TypeInvariant, TypeOK, TrafficType
<1>2. ASSUME NEW t \in 1..Tabs, NEW r, Begins(t, r)
      PROVE  Alone'
  <2>1. \A u \in 1..Tabs : Names(r) \cap Names(req[u]) \subseteq raced'
    BY <1>2, CountRaces DEF Begins, Send, Names
  <2>2. raced \subseteq raced' /\ req' = [req EXCEPT ![t] = r]
    BY <1>2 DEF Begins, Send, Count
  <2> QED
    BY <1>1, <2>1, <2>2 DEF Alone, Names
<1>3. ASSUME NEW t \in 1..Tabs, NEW new \in RequestType, Goes(t, new)
      PROVE  Alone'
  <2>1. Names(new) \subseteq Names(req[t])
    <3>1. Names(Idle) = {}
      BY DEF Names, Idle
    <3>2. \A step : Names([req[t] EXCEPT !.step = step]) = Names(req[t])
      BY <1>1 DEF Names, RequestType
    <3> QED
      BY <1>3, <3>1, <3>2 DEF Goes
  <2> QED
    BY <1>1, <1>3, <2>1 DEF Goes, Alone, Names
<1>4. CASE \A t \in 1..Tabs : ~(NewRequest(t) \/ TabStep(t) \/ Die(t))
  BY <1>4, OthersMoveNone DEF NoTabMoves, Alone, Names
<1> QED
  BY <1>2, <1>3, <1>4, NewRequestMoves, TabStepMoves

LEMMA AloneInit == Init => Alone
<1>1. Names(Idle) = {}
  BY DEF Names, Idle
<1> QED
  BY <1>1 DEF Init, Alone

\* Two tabs at requests about one name: it has raced.
LEMMA OnlyOne ==
  ASSUME Alone, NEW t \in 1..Tabs, NEW u \in 1..Tabs, t # u,
         NEW x \in {req[t].who, req[t].at} \cap {req[u].who, req[u].at}, x \notin {None, Admin}
  PROVE  x \in raced
BY DEF Alone, Names

\* A request served at once has raced with those in flight.
LEMMA ServeRaces ==
  ASSUME NEW who, NEW at, Serve(who, at), NEW u \in 1..Tabs,
         NEW x \in {who, at} \cap {req[u].who, req[u].at}, x \notin {None, Admin}
  PROVE  x \in raced'
BY CountRaces DEF Serve, Names

LEMMA NamesAreNotNone ==
  /\ \A p \in Members : p # None
  /\ \A p \in Applicants \cup Followers : p \notin {None, Admin} /\ p \in Members
  /\ \A s \in Strategies : s \notin {None, Admin}
BY NamesAssumption DEF Members
-----------------------------------------------------------------------------
(* Publishing.                                                             *)

\* The decision on an applicant is written by the review and by an application.
StatusKept ==
  \A p \in Applicants : profile[p] # None => profile'[p] # None /\ profile'[p].status = profile[p].status

LEMMA StatusChanges ==
  ASSUME TypeInvariant, [Next]_vars
  PROVE  \/ \E t \in 1..Tabs : StoreApplication(t)
         \/ \E p \in Applicants, decision \in ProviderStatuses : Review(p, decision)
         \/ StatusKept
<1>1. profile \in [Applicants -> ProfileType \cup {None}] /\ None \notin ProfileType
  BY NamesAssumption DEF TypeInvariant, TypeOK, RowType
<1>2. CASE profile' = profile
  BY <1>2 DEF StatusKept
<1>3. ASSUME NEW t \in 1..Tabs, CountStrategy(t)
      PROVE  StatusKept
  <2>1. PICK p : p = req[t].who
    OBVIOUS
  <2>2. p \in Applicants /\ profile[p] # None
    BY <1>3, <2>1, TabShape DEF Shaped, CountStrategy, At
  <2>3. PICK row : row = [profile[p] EXCEPT !.strategies = @ + 1]
    OBVIOUS
  <2>4. row \in ProfileType /\ row.status = profile[p].status
    <3>1. profile[p] \in ProfileType
      BY <1>1, <2>2
    <3> QED
      BY <2>3, <3>1 DEF ProfileType
  <2>5. profile' = [profile EXCEPT ![p] = row]
    BY <1>3, <2>1, <2>3 DEF CountStrategy
  <2> QED
    BY <1>1, <2>2, <2>4, <2>5 DEF StatusKept
<1>4. ASSUME WriteTotals
      PROVE  StatusKept
  <2>1. PICK p : p = job.of
    OBVIOUS
  <2>2. p \in Applicants /\ profile[p] # None
    BY <1>4, <2>1 DEF WriteTotals, JobShape, TypeInvariant
  <2>3. PICK row : row = [profile[p] EXCEPT !.strategies = job.strategies, !.subscribers = job.subscribers]
    OBVIOUS
  <2>4. row \in ProfileType /\ row.status = profile[p].status
    <3>1. profile[p] \in ProfileType
      BY <1>1, <2>2
    <3>2. job.strategies \in Int /\ job.subscribers \in Nat
      BY DEF TypeInvariant, TypeOK, TrafficType, JobType
    <3> QED
      BY <2>3, <3>1, <3>2 DEF ProfileType
  <2>5. profile' = [profile EXCEPT ![p] = row]
    BY <1>1, <1>4, <2>1, <2>2, <2>3 DEF WriteTotals
  <2> QED
    BY <1>1, <2>2, <2>4, <2>5 DEF StatusKept
<1>5. \/ profile' = profile
      \/ \E t \in 1..Tabs : StoreApplication(t) \/ CountStrategy(t)
      \/ \E p \in Applicants, decision \in ProviderStatuses : Review(p, decision)
      \/ WriteTotals
  <2>1. ASSUME NEW t \in 1..Tabs, NewRequest(t) \/ Die(t)
        PROVE  profile' = profile
    BY <2>1, NewRequestMoves DEF Begins, Die, rows
  <2>2. ASSUME NEW t \in 1..Tabs, TabStep(t)
        PROVE  StoreApplication(t) \/ CountStrategy(t) \/ profile' = profile
    BY <2>2 DEF TabStep, CreateDraft, LinkSource, IssueKey, KeyRevoked, CountActive, RemoveStrategy, RecordPayment,
                ApplyPaidPlan, CheckLimit, CreateSubscription, DeleteSubscription, CountMember, rows
  <2>3. \/ \E t \in 1..Tabs : NewRequest(t) \/ TabStep(t) \/ Die(t)
        \/ \E p \in Applicants, decision \in ProviderStatuses : Review(p, decision)
        \/ WriteTotals \/ profile' = profile
    BY DEF Next, vars, rows, CreatePlatformStrategy, SetStrategyStatus, UpdateStrategy, CancelPlan, PeriodEnds,
           Control, Recount, StartRecount, TurnToProviders, ReadMembers, ReadTotals, WriteMembers
  <2> QED
    BY <2>1, <2>2, <2>3
<1> QED
  BY <1>2, <1>3, <1>4, <1>5

\* An application that is stored.
LEMMA StoreWrites ==
  ASSUME TypeInvariant, NEW t \in 1..Tabs, StoreApplication(t), NEW p \in Applicants
  PROVE  \/ profile'[p] = profile[p]
         \/ p = req[t].who /\ (profile[p] = None \/ (req[t].saw # "" /\ profile[p] # None))
<1>1. req[t].saw # "" => profile[req[t].who] # None
  BY TabShape DEF Shaped, StoreApplication, At
<1> QED
  BY <1>1 DEF StoreApplication, TypeInvariant, TypeOK, RowType

\* The decision on who is named by a request in flight is kept, unless it raced.
LEMMA StatusOfOthers ==
  ASSUME TypeInvariant, Alone, [Next]_vars, NEW u \in 1..Tabs, req'[u] = req[u],
         req[u].who \in Applicants \ raced', profile[req[u].who] # None
  PROVE  profile'[req[u].who] # None /\ profile'[req[u].who].status = profile[req[u].who].status
<1>1. PICK p \in Applicants : p = req[u].who
  OBVIOUS
<1>2. p \notin raced /\ p \notin {None, Admin}
  BY <1>1, Movement, NamesAreNotNone
<1>3. ASSUME NEW t \in 1..Tabs, StoreApplication(t)
      PROVE  profile'[p] = profile[p]
  <2>1. t # u
    <3>1. req'[t] = Idle /\ req[t].step = "apply"
      BY <1>3 DEF StoreApplication, At, Done, TypeInvariant, TypeOK, TrafficType
    <3> QED
      BY <3>1, IdleStep
  <2>2. p # req[t].who
    BY <1>1, <1>2, <2>1, OnlyOne
  <2> QED
    BY <1>3, <2>2, StoreWrites
<1>4. ASSUME NEW q \in Applicants, NEW decision \in ProviderStatuses, Review(q, decision)
      PROVE  profile'[p] = profile[p]
  <2>1. p # q
    BY <1>1, <1>2, <1>4, ServeRaces DEF Review
  <2> QED
    BY <1>4, <2>1 DEF Review, TypeInvariant, TypeOK, RowType
<1> QED
  BY <1>1, <1>3, <1>4, StatusChanges DEF StatusKept
\* What a request finds when it comes.
LEMMA Arrival ==
  ASSUME TypeInvariant, NEW t \in 1..Tabs, NewRequest(t), NEW r, r = req'[t]
  PROVE  /\ UNCHANGED rows
         /\ r.step \notin {"remove", "follow", "apply plan"}
         /\ r.step = "apply" /\ r.saw # "" => profile[r.who].status = "REJECTED"
         /\ r.step \in {"create", "link", "issue", "revoke"} /\ r.who \in Applicants => Approved(r.who)
         /\ r.step = "link" => strategy[r.at] # None /\ r.chosen \in {None, Admin, strategy[r.at].owner}
<1>1. ASSUME NEW x, Send(t, x)
      PROVE  r = x
  BY <1>1 DEF Send, TypeInvariant, TypeOK, TrafficType
<1>2. ASSUME NEW p \in Applicants, Apply(t, p)
      PROVE  r.step = "apply" /\ r.who = p /\ (r.saw # "" => profile[p].status = "REJECTED")
  <2>1. PICK saw : saw = IF profile[p] = None THEN "" ELSE profile[p].status
    OBVIOUS
  <2>2. Send(t, [ApplicationForm(p) EXCEPT !.saw = saw])
    BY <1>2, <2>1 DEF Apply
  <2>3. r = [ApplicationForm(p) EXCEPT !.saw = saw]
    BY <1>1, <2>2
  <2>4. r.step = "apply" /\ r.who = p /\ r.saw = saw
    BY <2>3 DEF ApplicationForm, Request, Idle
  <2> QED
    BY <1>2, <2>1, <2>4 DEF Apply, ApplyPage
<1>3. ASSUME NEW p \in Applicants, NEW s \in Strategies, CreateProviderStrategy(t, p, s)
      PROVE  r.step = "create" /\ r.who = p /\ Approved(p)
  <2>1. r = StrategyForm(p, s)
    BY <1>1, <1>3 DEF CreateProviderStrategy
  <2> QED
    BY <1>3, <2>1 DEF CreateProviderStrategy, ProviderPage, StrategyForm, Request, Idle
<1>4. ASSUME NEW s \in Strategies, NEW who \in Applicants \cup {Admin}, RequestKey(t, who, s) \/ RevokeKey(t, who, s)
      PROVE  r.step \in {"issue", "revoke"} /\ r.who = who /\ (who # Admin => Approved(who))
  <2>1. r = Request("issue", who, s) \/ r = Request("revoke", who, s)
    BY <1>1, <1>4 DEF RequestKey, RevokeKey
  <2>2. r.step \in {"issue", "revoke"} /\ r.who = who
    BY <2>1 DEF Request, Idle
  <2> QED
    BY <1>4, <2>2 DEF RequestKey, RevokeKey, Access
<1>5. ASSUME NEW s \in Strategies, NEW who \in Applicants \cup {Admin}, NEW owner \in Members \cup {None},
             ChooseSource(t, who, s, owner)
      PROVE  /\ r.step = "link" /\ r.who = who /\ r.at = s /\ r.chosen \in {who, None}
             /\ Access(s, who)
  <2>1. r = SourceForm(who, s, owner)
    BY <1>1, <1>5 DEF ChooseSource
  <2>2. r.step = "link" /\ r.who = who /\ r.at = s /\ r.chosen = owner
    BY <2>1 DEF SourceForm, Request, Idle
  <2> QED
    BY <1>5, <2>2 DEF ChooseSource, MasterAccountPicker
<1>6. ASSUME NEW x, Send(t, x), x.step \in {"count", "limit", "unfollow", "checkout"}
      PROVE  r.step \in {"count", "limit", "unfollow", "checkout"}
  BY <1>1, <1>6
<1>7. ASSUME NEW s, NEW who
      PROVE  /\ Request("count", who, s).step = "count" /\ SubscribeDialog(who, s).step = "limit"
             /\ Request("unfollow", who, s).step = "unfollow"
             /\ \A tier : [Request("checkout", who, None) EXCEPT !.saw = tier].step = "checkout"
  BY DEF Request, Idle, SubscribeDialog
<1>8. ASSUME \/ \E s \in Strategies : DeleteStrategy(t, s)
             \/ \E f \in Followers, s \in Strategies : Subscribe(t, f, s) \/ Unsubscribe(t, f, s)
             \/ \E f \in Followers, tier \in DOMAIN Limit : ChangePlan(t, f, tier)
      PROVE  r.step \in {"count", "limit", "unfollow", "checkout"}
  BY <1>6, <1>7, <1>8 DEF DeleteStrategy, Subscribe, Unsubscribe, ChangePlan
<1>9. UNCHANGED rows
  BY NewRequestMoves DEF Begins
<1>10. Admin \notin Applicants
  BY NamesAssumption
<1> QED
  BY <1>2, <1>3, <1>4, <1>5, <1>8, <1>9, <1>10 DEF NewRequest, Access
\* An applicant named by a request in flight was decided on as the request says.
LEMMA DecidedNext ==
  ASSUME TypeInvariant, Alone, \A t \in 1..Tabs : Decided(req[t]) /\ StillApproved(req[t]), [Next]_vars, NEW u \in 1..Tabs
  PROVE  (Decided(req[u]) /\ StillApproved(req[u]))'
<1>1. PICK r : r = req'[u]
  OBVIOUS
<1>2. (Decided(r) /\ StillApproved(r))'
  <2>1. CASE r = req[u]
    <3>1. Decided(r) /\ StillApproved(r) /\ Shaped(r)
      BY <2>1, TabShape
    <3>2. raced \subseteq raced'
      BY Movement
    <3>3. r.who \in Applicants \ raced' /\ profile[r.who] # None
            => profile'[r.who] # None /\ profile'[r.who].status = profile[r.who].status
      BY <1>1, <2>1, StatusOfOthers
    <3>4. Decided(r)'
      BY <3>1, <3>2, <3>3 DEF Decided, Shaped
    <3>5. StillApproved(r)'
      BY <3>1, <3>2, <3>3 DEF StillApproved, Approved
    <3> QED
      BY <3>4, <3>5
  <2>2. CASE NewRequest(u)
    <3>1. /\ UNCHANGED rows
          /\ r.step = "apply" /\ r.saw # "" => profile[r.who].status = "REJECTED"
          /\ r.step \in {"create", "link", "issue", "revoke"} /\ r.who \in Applicants => Approved(r.who)
      BY <1>1, <2>2, Arrival
    <3> QED
      BY <3>1 DEF Decided, StillApproved, Approved, rows
  <2>3. CASE TabStep(u) \/ Die(u)
    BY <1>1, <2>3, StepsAfter DEF Decided, StillApproved
  <2> QED
    BY <1>1, <2>1, <2>2, <2>3, Movement
<1> QED
  BY <1>1, <1>2 DEF Decided, StillApproved, Approved

\* What may become of a strategy in one step: its owner never changes, its source only
\* by the request that links one; what is deleted does not come back.
Changed(s) ==
  \/ strategy'[s] = strategy[s]
  \/ strategy'[s] = None /\ s \in gone'
  \/ Free(s) /\ strategy'[s] # None /\ strategy'[s].source = None
  \/ strategy[s] # None /\ strategy'[s] # None /\ strategy'[s].owner = strategy[s].owner
     /\ \/ strategy'[s].source = strategy[s].source
        \/ \E t \in 1..Tabs : LinkSource(t) /\ req[t].at = s /\ strategy'[s].source = req[t].chosen

LEMMA NewStrategyRow ==
  ASSUME NEW owner \in Applicants \cup {Admin}, NEW public \in BOOLEAN
  PROVE  NewStrategy(owner, public) # None /\ NewStrategy(owner, public).source = None
<1>1. NewStrategy(owner, public) # None
  BY NewStrategyType, NamesAssumption
<1> QED
  BY <1>1 DEF NewStrategy

\* A row some of whose other columns are written.
LEMMA RowRewritten ==
  ASSUME TypeInvariant, NEW s \in Strategies, NEW row, strategy' = [strategy EXCEPT ![s] = row],
         IF strategy[s] = None THEN row = None
         ELSE row \in StrategyType /\ row.owner = strategy[s].owner /\ row.source = strategy[s].source,
         NEW x \in Strategies
  PROVE  Changed(x)
<1>1. None \notin StrategyType
  BY NamesAssumption
<1> QED
  BY <1>1 DEF Changed, TypeInvariant, TypeOK, RowType

LEMMA ServedChanges ==
  ASSUME TypeInvariant, NEW x \in Strategies,
         \/ \E s \in Strategies, public \in BOOLEAN : CreatePlatformStrategy(s, public)
         \/ \E s \in Strategies, status \in StrategyStatuses : SetStrategyStatus(s, status)
         \/ \E s \in Strategies : UpdateStrategy(s)
         \/ WriteMembers
  PROVE  Changed(x)
<1>1. strategy \in [Strategies -> StrategyType \cup {None}]
  BY DEF TypeInvariant, TypeOK, RowType
<1>2. ASSUME NEW s \in Strategies, NEW public \in BOOLEAN, CreatePlatformStrategy(s, public)
      PROVE  Changed(x)
  <2>1. Free(s) /\ strategy' = [strategy EXCEPT ![s] = NewStrategy(Admin, public)]
    BY <1>2 DEF CreatePlatformStrategy
  <2> QED
    BY <1>1, <2>1, NewStrategyRow DEF Changed
<1>3. ASSUME NEW s \in Strategies, NEW new \in StrategyStatuses, SetStrategyStatus(s, new)
      PROVE  Changed(x)
  <2>1. PICK row : row = [strategy[s] EXCEPT !.status = new]
    OBVIOUS
  <2>2. strategy[s] \in StrategyType
    BY <1>1, <1>3 DEF SetStrategyStatus, Access
  <2>3. row \in StrategyType /\ row.owner = strategy[s].owner /\ row.source = strategy[s].source
    BY <2>1, <2>2 DEF StrategyType
  <2>4. strategy' = [strategy EXCEPT ![s] = row] /\ strategy[s] # None
    BY <1>3, <2>1 DEF SetStrategyStatus, Access
  <2> QED
    BY <2>3, <2>4, RowRewritten
<1>4. ASSUME NEW s \in Strategies, UpdateStrategy(s)
      PROVE  Changed(x)
  <2>1. PICK row : row = [strategy[s] EXCEPT !.public = ~@]
    OBVIOUS
  <2>2. strategy[s] \in StrategyType
    BY <1>1, <1>4 DEF UpdateStrategy, Access
  <2>3. row \in StrategyType /\ row.owner = strategy[s].owner /\ row.source = strategy[s].source
    BY <2>1, <2>2 DEF StrategyType
  <2>4. strategy' = [strategy EXCEPT ![s] = row] /\ strategy[s] # None
    BY <1>4, <2>1 DEF UpdateStrategy, Access
  <2> QED
    BY <2>3, <2>4, RowRewritten
<1>5. ASSUME WriteMembers
      PROVE  Changed(x)
  <2>1. PICK s \in Strategies : s = job.of
    BY <1>5 DEF WriteMembers, TypeInvariant, JobShape
  <2>2. PICK row : row = IF strategy[s] = None THEN None ELSE [strategy[s] EXCEPT !.members = job.subscribers]
    OBVIOUS
  <2>3. job.subscribers \in Int
    BY DEF TypeInvariant, TypeOK, TrafficType, JobType
  <2>4. IF strategy[s] = None THEN row = None
        ELSE row \in StrategyType /\ row.owner = strategy[s].owner /\ row.source = strategy[s].source
    <3>1. CASE strategy[s] # None
      <4>1. strategy[s] \in StrategyType
        BY <1>1, <3>1
      <4> QED
        BY <2>2, <2>3, <3>1, <4>1 DEF StrategyType
    <3> QED
      BY <2>2, <3>1
  <2>5. strategy' = [strategy EXCEPT ![s] = row]
    BY <1>1, <1>5, <2>1, <2>2 DEF WriteMembers
  <2> QED
    BY <2>4, <2>5, RowRewritten
<1> QED
  BY <1>2, <1>3, <1>4, <1>5

LEMMA TabChanges ==
  ASSUME TypeInvariant, NEW t \in 1..Tabs, TabStep(t), NEW x \in Strategies
  PROVE  Changed(x)
<1>1. strategy \in [Strategies -> StrategyType \cup {None}]
  BY DEF TypeInvariant, TypeOK, RowType
<1>2. PICK s : s = req[t].at
  OBVIOUS
<1>3. ASSUME CreateDraft(t)
      PROVE  Changed(x)
  <2>1. req[t].who \in Applicants
    BY <1>3, TabShape DEF Shaped, CreateDraft, At
  <2>2. CASE Free(s)
    <3>1. strategy' = [strategy EXCEPT ![s] = NewStrategy(req[t].who, TRUE)]
      BY <1>2, <1>3, <2>2 DEF CreateDraft
    <3>2. NewStrategy(req[t].who, TRUE) # None /\ NewStrategy(req[t].who, TRUE).source = None
      BY <2>1, NewStrategyRow
    <3> QED
      BY <1>1, <2>2, <3>1, <3>2 DEF Changed
  <2>3. CASE ~Free(s)
    BY <1>2, <1>3, <2>3 DEF CreateDraft, Changed
  <2> QED
    BY <2>2, <2>3
<1>4. ASSUME LinkSource(t)
      PROVE  Changed(x)
  <2>1. s \in Strategies /\ req[t].chosen \in Members \cup {None}
    BY <1>2, <1>4, TabShape DEF Shaped, LinkSource, At, RequestType
  <2>2. CASE strategy[s] = None
    <3>1. strategy' = [strategy EXCEPT ![s] = None]
      BY <1>1, <1>2, <1>4, <2>1, <2>2 DEF LinkSource
    <3> QED
      BY <1>1, <2>1, <2>2, <3>1 DEF Changed
  <2>3. CASE strategy[s] # None
    <3>1. PICK row : row = [strategy[s] EXCEPT !.source = req[t].chosen]
      OBVIOUS
    <3>2. row \in StrategyType /\ row.owner = strategy[s].owner /\ row.source = req[t].chosen
      <4>1. strategy[s] \in StrategyType
        BY <1>1, <2>1, <2>3
      <4> QED
        BY <2>1, <3>1, <4>1 DEF StrategyType
    <3>3. strategy' = [strategy EXCEPT ![s] = row]
      BY <1>1, <1>2, <1>4, <2>1, <2>3, <3>1 DEF LinkSource
    <3>4. row # None
      BY <3>2, NamesAssumption
    <3> QED
      BY <1>1, <1>2, <1>4, <2>1, <2>3, <3>2, <3>3, <3>4 DEF Changed
  <2> QED
    BY <2>2, <2>3
<1>5. ASSUME RemoveStrategy(t)
      PROVE  Changed(x)
  BY <1>1, <1>2, <1>5 DEF RemoveStrategy, Changed
<1>6. ASSUME NEW step \in Steps, NEW by \in Int, CountMember(t, step, by), step \in {"member", "leave"}
      PROVE  Changed(x)
  <2>1. s \in Strategies
    BY <1>2, <1>6, TabShape DEF Shaped, CountMember, At
  <2>2. PICK row : row = IF strategy[s] = None THEN None ELSE [strategy[s] EXCEPT !.members = @ + by]
    OBVIOUS
  <2>3. IF strategy[s] = None THEN row = None
        ELSE row \in StrategyType /\ row.owner = strategy[s].owner /\ row.source = strategy[s].source
    <3>1. CASE strategy[s] # None
      <4>1. strategy[s] \in StrategyType
        BY <1>1, <2>1, <3>1
      <4> QED
        BY <2>2, <3>1, <4>1 DEF StrategyType
    <3> QED
      BY <2>2, <3>1
  <2>4. strategy' = [strategy EXCEPT ![s] = row]
    BY <1>2, <1>6, <2>2 DEF CountMember
  <2> QED
    BY <2>1, <2>3, <2>4, RowRewritten
<1>7. "member" \in Steps /\ "leave" \in Steps /\ -1 \in Int /\ 1 \in Int
  BY DEF Steps
<1>8. CountMember(t, "member", 1) \/ CountMember(t, "leave", -1) => Changed(x)
  <2>1. CountMember(t, "member", 1) => Changed(x)
    BY <1>6, <1>7
  <2>2. CountMember(t, "leave", -1) => Changed(x)
    BY <1>6, <1>7
  <2> QED
    BY <2>1, <2>2
<1>9. ASSUME ~(CountMember(t, "member", 1) \/ CountMember(t, "leave", -1)),
             ~(CreateDraft(t) \/ LinkSource(t) \/ RemoveStrategy(t))
      PROVE  strategy' = strategy
  BY <1>9 DEF TabStep, StoreApplication, CountStrategy, IssueKey, KeyRevoked, CountActive, RecordPayment, ApplyPaidPlan,
              CheckLimit, CreateSubscription, DeleteSubscription, rows
<1> QED
  BY <1>3, <1>4, <1>5, <1>8, <1>9 DEF Changed

LEMMA StrategyChanges ==
  ASSUME TypeInvariant, [Next]_vars, NEW x \in Strategies
  PROVE  Changed(x) /\ (gone' = gone \/ \E t \in 1..Tabs : RemoveStrategy(t))
<1>1. ASSUME NEW t \in 1..Tabs, NewRequest(t) \/ Die(t)
      PROVE  strategy' = strategy /\ gone' = gone
  BY <1>1, NewRequestMoves DEF Begins, Die, rows
<1>2. ASSUME NEW t \in 1..Tabs, TabStep(t)
      PROVE  gone' = gone \/ RemoveStrategy(t)
  <2>1. CountMember(t, "member", 1) \/ CountMember(t, "leave", -1) => gone' = gone
    <3>1. \A step, by : CountMember(t, step, by) => gone' = gone
      BY DEF CountMember
    <3> QED
      BY <3>1
  <2> QED
    BY <1>2, <2>1
    DEF TabStep, StoreApplication, CreateDraft, CountStrategy, LinkSource, IssueKey, KeyRevoked, CountActive,
        RecordPayment, ApplyPaidPlan, CheckLimit, CreateSubscription, DeleteSubscription, rows
<1>3. \/ \E t \in 1..Tabs : NewRequest(t) \/ TabStep(t) \/ Die(t)
      \/ /\ gone' = gone
         /\ \/ \E s \in Strategies, public \in BOOLEAN : CreatePlatformStrategy(s, public)
            \/ \E s \in Strategies, status \in StrategyStatuses : SetStrategyStatus(s, status)
            \/ \E s \in Strategies : UpdateStrategy(s)
            \/ WriteMembers
            \/ strategy' = strategy
  BY DEF Next, vars, rows, Review, CreatePlatformStrategy, SetStrategyStatus, UpdateStrategy, CancelPlan, PeriodEnds,
         Control, Recount, StartRecount, TurnToProviders, ReadMembers, ReadTotals, WriteMembers, WriteTotals, JobGoes
<1> QED
  BY <1>1, <1>2, <1>3, TabChanges, ServedChanges DEF Changed
LEMMA SourcesNext ==
  ASSUME PublishInvariant, [Next]_vars
  PROVE  Removed' /\ SourceIsOwners' /\ \A u \in 1..Tabs : Linking(req[u])'
<1>1. gone \subseteq gone' /\ \A s \in gone' \ gone : strategy'[s] = None
  <2>1. ASSUME NEW t \in 1..Tabs, RemoveStrategy(t)
        PROVE  gone \subseteq gone' /\ \A s \in gone' \ gone : strategy'[s] = None
    <3>1. req[t].at \in Strategies
      BY <2>1, TabShape DEF PublishInvariant, Shaped, RemoveStrategy, At
    <3> QED
      BY <2>1, <3>1 DEF RemoveStrategy, PublishInvariant, TypeInvariant, TypeOK, RowType
  <2>2. Strategies # {} => gone' = gone \/ \E t \in 1..Tabs : RemoveStrategy(t)
    BY StrategyChanges DEF PublishInvariant
  <2>3. gone \subseteq Strategies /\ gone' \subseteq Strategies
    BY TypeNext DEF PublishInvariant, TypeInvariant, TypeOK, RowType
  <2> QED
    BY <2>1, <2>2, <2>3
<1>2. \A s \in Strategies : Changed(s)
  BY StrategyChanges DEF PublishInvariant
<1>3. Removed'
  <2> SUFFICES ASSUME NEW s \in gone' PROVE strategy'[s] = None
    BY DEF Removed
  <2>1. CASE s \in gone
    <3>1. strategy[s] = None /\ s \in Strategies
      BY <2>1 DEF PublishInvariant, Removed, TypeInvariant, TypeOK, RowType
    <3> QED
      BY <1>2, <2>1, <3>1 DEF Changed, Free
  <2> QED
    BY <1>1, <2>1
<1>4. SourceIsOwners'
  <2> SUFFICES ASSUME NEW s \in Strategies, strategy'[s] # None
               PROVE  strategy'[s].source \in {None, Admin, strategy'[s].owner}
    BY DEF SourceIsOwners
  <2>1. strategy[s] # None => strategy[s].source \in {None, Admin, strategy[s].owner}
    BY DEF PublishInvariant, SourceIsOwners
  <2>2. ASSUME NEW t \in 1..Tabs, LinkSource(t), req[t].at = s, strategy[s] # None
        PROVE  req[t].chosen \in {None, Admin, strategy[s].owner}
    BY <2>2 DEF PublishInvariant, Linking, Removed, LinkSource, At
  <2>3. Changed(s)
    BY <1>2
  <2> QED
    BY <2>1, <2>2, <2>3 DEF Changed
<1>5. ASSUME NEW u \in 1..Tabs
      PROVE  Linking(req[u])'
  <2>1. PICK r : r = req'[u]
    OBVIOUS
  <2>2. Linking(r)'
    <3>1. CASE r = req[u]
      <4>1. Linking(r) /\ Shaped(r)
        BY <3>1, TabShape DEF PublishInvariant
      <4>2. r.step = "link" => r.at \in Strategies
        BY <4>1 DEF Shaped
      <4>3. r.step = "link" => Changed(r.at)
        BY <1>2, <4>2
      <4> QED
        BY <1>1, <4>1, <4>3 DEF Linking, Changed, Free
    <3>2. CASE NewRequest(u)
      <4>1. UNCHANGED rows
            /\ (r.step = "link" => strategy[r.at] # None /\ r.chosen \in {None, Admin, strategy[r.at].owner})
        BY <2>1, <3>2, Arrival DEF PublishInvariant
      <4> QED
        BY <4>1 DEF Linking, rows
    <3>3. CASE TabStep(u) \/ Die(u)
      BY <2>1, <3>3, StepsAfter DEF Linking, PublishInvariant
    <3> QED
      BY <2>1, <3>1, <3>2, <3>3, Movement DEF PublishInvariant
  <2> QED
    BY <2>1, <2>2 DEF Linking
<1> QED
  BY <1>3, <1>4, <1>5

LEMMA PublishInit == Init => PublishInvariant
<1> SUFFICES ASSUME Init PROVE PublishInvariant
  OBVIOUS
<1>1. \A t \in 1..Tabs : req[t] = Idle
  BY DEF Init
<1>2. Alone
  BY AloneInit
<1>3. Removed
  BY DEF Init, Removed
<1>4. \A t \in 1..Tabs : Decided(req[t]) /\ StillApproved(req[t]) /\ Linking(req[t])
  BY <1>1, IdleStep DEF Decided, StillApproved, Linking
<1>5. SourceIsOwners
  <2>1. PICK ownerOf \in [Strategies -> Applicants \cup {Admin, None}],
             statusOf \in [Applicants -> ProviderStatuses \cup {""}], following \in Following :
          AtRest(ownerOf, statusOf, following)
    BY DEF Init
  <2>2. ASSUME NEW s \in Strategies, strategy[s] # None
        PROVE  strategy[s].source = None
    <3>1. \A owner, n : /\ NewStrategy(owner, TRUE).source = None
                       /\ [NewStrategy(owner, TRUE) EXCEPT !.status = "ACTIVE", !.members = n].source = None
      BY DEF NewStrategy
    <3> QED
      BY <2>1, <2>2, <3>1 DEF AtRest
  <2> QED
    BY <2>2 DEF SourceIsOwners
<1> QED
  BY <1>2, <1>3, <1>4, <1>5, TypeInit DEF PublishInvariant

LEMMA PublishNext ==
  ASSUME PublishInvariant, [Next]_vars
  PROVE  PublishInvariant'
<1>1. \A u \in 1..Tabs : (Decided(req[u]) /\ StillApproved(req[u]))'
  BY DecidedNext DEF PublishInvariant
<1> QED
  BY <1>1, TypeNext, AloneNext, SourcesNext DEF PublishInvariant

\* What is published was published by someone approved, of an account of their own: an
\* application never undoes a decision, a request of a provider who is no longer
\* approved changes nothing, and a strategy's source is its owner's or the platform's
\* (applyAsProvider, requireApprovedProvider, setStrategyMasterAccount).
THEOREM PublishersAreApproved == Spec => PublishedByApproved
<1> DEFINE Stands == \A p \in Applicants :
             /\ profile[p] # None /\ profile'[p] # None
             /\ profile[p].status \in {"APPROVED", "SUSPENDED"} /\ p \notin raced
             => profile'[p].status # "PENDING"
           Nothing == \A t \in 1..Tabs :
             /\ req[t].step \in {"create", "link", "issue", "revoke"} /\ req'[t].step # req[t].step
             /\ <<strategy, keys>>' # <<strategy, keys>>
             /\ req[t].who \in Applicants \ raced
             => Approved(req[t].who)
<1>1. PublishInvariant /\ [Next]_vars => [Stands]_vars
  <2> SUFFICES ASSUME PublishInvariant, [Next]_vars, NEW p \in Applicants, profile[p] # None,
                      profile[p].status \in {"APPROVED", "SUSPENDED"}, p \notin raced
               PROVE  profile'[p].status # "PENDING"
    OBVIOUS
  <2>1. ASSUME NEW t \in 1..Tabs, StoreApplication(t)
        PROVE  profile'[p] = profile[p]
    <3>1. p = req[t].who /\ req[t].saw # "" => profile[p].status = "REJECTED"
      BY <2>1 DEF PublishInvariant, Decided, StoreApplication, At
    <3> QED
      BY <2>1, <3>1, StoreWrites DEF PublishInvariant
  <2>2. ASSUME NEW q \in Applicants, NEW decision \in ProviderStatuses, Review(q, decision)
        PROVE  profile'[p].status # "PENDING"
    <3>1. decision # "PENDING"
      BY <2>2 DEF Review, ReviewButtons
    <3>2. profile[p] \in ProfileType
      BY DEF PublishInvariant, TypeInvariant, TypeOK, RowType
    <3>3. PICK row : row = [profile[q] EXCEPT !.status = decision]
      OBVIOUS
    <3>4. profile' = [profile EXCEPT ![q] = row]
      BY <2>2, <3>3 DEF Review
    <3>5. p = q => row.status = decision
      BY <3>2, <3>3 DEF ProfileType
    <3> QED
      BY <3>1, <3>4, <3>5 DEF PublishInvariant, TypeInvariant, TypeOK, RowType
  <2> QED
    BY <2>1, <2>2, StatusChanges DEF PublishInvariant, StatusKept
<1>2. PublishInvariant => Nothing
  BY DEF PublishInvariant, StillApproved
<1>3. PublishInvariant => SourceIsOwners
  BY DEF PublishInvariant
<1>4. PublishInvariant /\ [Next]_vars => PublishInvariant'
  BY PublishNext
<1>5. Spec => [][Stands]_vars
  BY <1>1, <1>4, PublishInit, PTL DEF Spec
<1>6. Spec => [][Nothing]_vars
  BY <1>2, <1>4, PublishInit, PTL DEF Spec
<1>7. Spec => []SourceIsOwners
  BY <1>3, <1>4, PublishInit, PTL DEF Spec
<1> QED
  BY <1>5, <1>6, <1>7 DEF PublishedByApproved, DecisionStands, UnapprovedPublishNothing
-----------------------------------------------------------------------------
(* Followers.                                                              *)

\* Who writes the subscriptions.
LEMMA FollowsChange ==
  ASSUME TypeInvariant, [Next]_vars
  PROVE  \/ UNCHANGED follows
         \/ \E t \in 1..Tabs : CreateSubscription(t) \/ DeleteSubscription(t) \/ RemoveStrategy(t)
         \/ \E f \in Followers, s \in Strategies, copyStatus \in {"COPYING", "PAUSED"} : Control(f, s, copyStatus)
         \/ \E s \in Strategies, status \in StrategyStatuses : SetStrategyStatus(s, status)
<1>1. ASSUME NEW t \in 1..Tabs, NewRequest(t) \/ Die(t)
      PROVE  UNCHANGED follows
  BY <1>1, NewRequestMoves DEF Begins, Die, rows
<1>2. ASSUME NEW t \in 1..Tabs, TabStep(t)
      PROVE  CreateSubscription(t) \/ DeleteSubscription(t) \/ RemoveStrategy(t) \/ UNCHANGED follows
  <2>1. \A step, by : CountMember(t, step, by) => UNCHANGED follows
    BY DEF CountMember
  <2>2. CountMember(t, "member", 1) \/ CountMember(t, "leave", -1) => UNCHANGED follows
    BY <2>1
  <2> QED
    BY <1>2, <2>2
    DEF TabStep, StoreApplication, CreateDraft, CountStrategy, LinkSource, IssueKey, KeyRevoked, CountActive,
        RecordPayment, ApplyPaidPlan, CheckLimit, rows
<1>3. \/ \E t \in 1..Tabs : NewRequest(t) \/ TabStep(t) \/ Die(t)
      \/ \E f \in Followers, s \in Strategies, copyStatus \in {"COPYING", "PAUSED"} : Control(f, s, copyStatus)
      \/ \E s \in Strategies, status \in StrategyStatuses : SetStrategyStatus(s, status)
      \/ UNCHANGED follows
  BY DEF Next, vars, rows, Review, CreatePlatformStrategy, UpdateStrategy, CancelPlan, PeriodEnds,
         Recount, StartRecount, TurnToProviders, ReadMembers, ReadTotals, WriteMembers, WriteTotals, JobGoes
<1> QED
  BY <1>1, <1>2, <1>3

\* Only its own request makes a member follow a strategy they did not.
LEMMA FollowsGrow ==
  ASSUME TypeInvariant, [Next]_vars, NEW f \in Followers, NEW s \in Strategies,
         follows[f, s] = "none", follows'[f, s] # "none"
  PROVE  \E t \in 1..Tabs : CreateSubscription(t) /\ req[t].who = f /\ req[t].at = s
<1>1. follows \in [Followers \X Strategies -> {"none", "IDLE", "COPYING", "PAUSED"}]
  BY DEF TypeInvariant, TypeOK, RowType
<1>2. ASSUME NEW t \in 1..Tabs, CreateSubscription(t)
      PROVE  req[t].who = f /\ req[t].at = s
  BY <1>1, <1>2 DEF CreateSubscription
<1>3. ASSUME NEW t \in 1..Tabs, DeleteSubscription(t) \/ RemoveStrategy(t)
      PROVE  FALSE
  BY <1>1, <1>3 DEF DeleteSubscription, RemoveStrategy
<1>4. ASSUME NEW g \in Followers, NEW x \in Strategies, NEW copyStatus \in {"COPYING", "PAUSED"}, Control(g, x, copyStatus)
      PROVE  FALSE
  BY <1>1, <1>4 DEF Control, CardButtons
<1>5. ASSUME NEW x \in Strategies, NEW new \in StrategyStatuses, SetStrategyStatus(x, new)
      PROVE  FALSE
  BY <1>1, <1>5 DEF SetStrategyStatus
<1> QED
  BY <1>2, <1>3, <1>4, <1>5, FollowsChange

\* And only its own request, or the end of the strategy, makes them stop.
LEMMA FollowsShrink ==
  ASSUME TypeInvariant, [Next]_vars, NEW f \in Followers, NEW s \in Strategies,
         follows[f, s] # "none", follows'[f, s] = "none"
  PROVE  \E t \in 1..Tabs : \/ DeleteSubscription(t) /\ req[t].who = f /\ req[t].at = s
                            \/ RemoveStrategy(t) /\ req[t].at = s
<1>1. follows \in [Followers \X Strategies -> {"none", "IDLE", "COPYING", "PAUSED"}]
  BY DEF TypeInvariant, TypeOK, RowType
<1>2. ASSUME NEW t \in 1..Tabs, CreateSubscription(t)
      PROVE  FALSE
  BY <1>1, <1>2 DEF CreateSubscription
<1>3. ASSUME NEW t \in 1..Tabs, DeleteSubscription(t)
      PROVE  req[t].who = f /\ req[t].at = s
  BY <1>1, <1>3 DEF DeleteSubscription
<1>4. ASSUME NEW t \in 1..Tabs, RemoveStrategy(t)
      PROVE  req[t].at = s
  BY <1>1, <1>4 DEF RemoveStrategy
<1>5. ASSUME NEW g \in Followers, NEW x \in Strategies, NEW copyStatus \in {"COPYING", "PAUSED"}, Control(g, x, copyStatus)
      PROVE  FALSE
  BY <1>1, <1>5 DEF Control
<1>6. ASSUME NEW x \in Strategies, NEW new \in StrategyStatuses, SetStrategyStatus(x, new)
      PROVE  FALSE
  BY <1>1, <1>6 DEF SetStrategyStatus
<1> QED
  BY <1>2, <1>3, <1>4, <1>5, <1>6, FollowsChange

\* Who writes the plans.
LEMMA PlanChanges ==
  ASSUME TypeInvariant, [Next]_vars
  PROVE  \/ UNCHANGED plan
         \/ \E t \in 1..Tabs : ApplyPaidPlan(t)
         \/ \E g \in Followers : CancelPlan(g) \/ PeriodEnds(g)
<1>1. ASSUME NEW t \in 1..Tabs, NewRequest(t) \/ Die(t)
      PROVE  UNCHANGED plan
  BY <1>1, NewRequestMoves DEF Begins, Die, rows
<1>2. ASSUME NEW t \in 1..Tabs, TabStep(t)
      PROVE  ApplyPaidPlan(t) \/ UNCHANGED plan
  <2>1. \A step, by : CountMember(t, step, by) => UNCHANGED plan
    BY DEF CountMember
  <2>2. CountMember(t, "member", 1) \/ CountMember(t, "leave", -1) => UNCHANGED plan
    BY <2>1
  <2> QED
    BY <1>2, <2>2
    DEF TabStep, StoreApplication, CreateDraft, CountStrategy, LinkSource, IssueKey, KeyRevoked, CountActive,
        RecordPayment, RemoveStrategy, CreateSubscription, DeleteSubscription, CheckLimit, rows
<1>3. \/ \E t \in 1..Tabs : NewRequest(t) \/ TabStep(t) \/ Die(t)
      \/ \E g \in Followers : CancelPlan(g) \/ PeriodEnds(g)
      \/ UNCHANGED plan
  BY DEF Next, vars, rows, Review, CreatePlatformStrategy, UpdateStrategy, SetStrategyStatus, Control,
         Recount, StartRecount, TurnToProviders, ReadMembers, ReadTotals, WriteMembers, WriteTotals, JobGoes
<1> QED
  BY <1>1, <1>2, <1>3

\* The plan in force of who is named by a request in flight is the same after the step
\* of another, unless the two raced.
LEMMA PlanOfOthers ==
  ASSUME TypeInvariant, Alone, [Next]_vars, NEW u \in 1..Tabs, req'[u] = req[u], req[u] # Idle,
         NEW f \in Followers, f = req[u].who, f \notin raced'
  PROVE  plan'[f] = plan[f]
<1>1. f \notin raced /\ f \notin {None, Admin}
  BY Movement, NamesAreNotNone
<1>2. plan \in [Followers -> PlanType \cup {None}]
  BY DEF TypeInvariant, TypeOK, RowType
<1>3. ASSUME NEW t \in 1..Tabs, ApplyPaidPlan(t)
      PROVE  plan'[f] = plan[f]
  <2>1. t # u
    <3>1. req'[t] = Idle
      BY <1>3 DEF ApplyPaidPlan, Done, TypeInvariant, TypeOK, TrafficType
    <3> QED
      BY <3>1
  <2>2. f # req[t].who
    BY <1>1, <2>1, OnlyOne
  <2> QED
    BY <1>2, <1>3, <2>2 DEF ApplyPaidPlan
<1>4. ASSUME NEW g \in Followers, CancelPlan(g)
      PROVE  plan'[f] = plan[f]
  <2>1. f # g
    BY <1>1, <1>4, ServeRaces DEF CancelPlan
  <2> QED
    BY <1>2, <1>4, <2>1 DEF CancelPlan
<1>5. ASSUME NEW g \in Followers, PeriodEnds(g)
      PROVE  plan'[f] = plan[f]
  <2>1. f # g
    BY <1>5 DEF PeriodEnds
  <2> QED
    BY <1>2, <1>5, <2>1 DEF PeriodEnds
<1> QED
  BY <1>3, <1>4, <1>5, PlanChanges
LEMMA FollowedIsFinite ==
  ASSUME NEW f
  PROVE  IsFiniteSet(Followed(f)) /\ Cardinality(Followed(f)) \in Nat
<1>1. Followed(f) \in SUBSET Strategies
  BY DEF Followed
<1> QED
  BY <1>1, NamesAssumption, FS_Subset, FS_CardinalityType

LEMMA LimitType ==
  ASSUME TypeInvariant, NEW f \in Followers
  PROVE  Limit[InForce(f)] \in Nat
<1>1. "FREE" \in DOMAIN Limit /\ \A tier \in DOMAIN Limit : Limit[tier] \in Nat
  BY MarketAssumption DEF MarketAssumption
<1>2. plan[f] # None => plan[f].tier \in DOMAIN Limit
  BY DEF TypeInvariant, TypeOK, RowType, PlanType
<1> QED
  BY <1>1, <1>2 DEF InForce

LEMMA EmptiedNext ==
  ASSUME FollowInvariant, [Next]_vars, NEW u \in 1..Tabs
  PROVE  Emptied(req[u])'
<1>1. TypeInvariant /\ Alone
  BY DEF FollowInvariant
<1>2. \A t \in 1..Tabs : Emptied(req[t])
  BY DEF FollowInvariant
<1>3. PICK r : r = req'[u]
  OBVIOUS
<1>4. \A f \in Followers, s \in Strategies : follows[f, s] = "none" /\ follows'[f, s] # "none" =>
        \E t \in 1..Tabs : CreateSubscription(t) /\ req[t].who = f /\ req[t].at = s
  BY <1>1, FollowsGrow
<1>5. Emptied(r)'
  <2>1. CASE r = req[u]
    <3> SUFFICES ASSUME r.step = "remove", r.at \notin raced', NEW f \in Followers, follows'[f, r.at] # "none"
                 PROVE  FALSE
      BY <1>2 DEF Emptied, FollowersOf
    <3>1. r.at \in Strategies
      BY <1>1, <2>1, TabShape DEF Shaped
    <3>2. r.at \notin raced
      BY <1>1, Movement
    <3>3. follows[f, r.at] = "none"
      BY <1>2, <2>1, <3>2 DEF Emptied, FollowersOf
    <3>4. PICK t \in 1..Tabs : CreateSubscription(t) /\ req[t].at = r.at
      <4>1. PICK s \in Strategies : s = r.at
        BY <3>1
      <4>2. follows[f, s] = "none" /\ follows'[f, s] # "none"
        BY <3>3, <4>1
      <4>3. \E t \in 1..Tabs : CreateSubscription(t) /\ req[t].who = f /\ req[t].at = s
        BY <1>4, <4>2
      <4> QED
        BY <4>1, <4>3
    <3>5. t # u
      BY <2>1, <3>4 DEF CreateSubscription, At
    <3>6. r.at \in raced
      BY <1>1, <2>1, <3>1, <3>4, <3>5, OnlyOne, NamesAreNotNone
    <3> QED
      BY <3>2, <3>6
  <2>2. CASE NewRequest(u)
    BY <1>1, <1>2, <1>3, <2>2, Arrival DEF Emptied
  <2>3. CASE TabStep(u) \/ Die(u)
    <3> SUFFICES ASSUME r.step = "remove"
                 PROVE  Emptied(r)'
      BY <1>2 DEF Emptied
    <3>1. CountActive(u)
      BY <1>1, <1>3, <2>3, StepsAfter
    <3>2. FollowersOf(req[u].at) = {} /\ Goto(u, "remove")
      BY <1>1, <1>3, <3>1, IdleStep DEF CountActive, Done, TypeInvariant, TypeOK, TrafficType
    <3>3. r.at = req[u].at
      BY <1>1, <1>3, <3>2 DEF Goto, TypeInvariant, TypeOK, TrafficType, RequestType
    <3> QED
      BY <1>2, <3>1, <3>2, <3>3 DEF Emptied, FollowersOf, CountActive, rows
  <2> QED
    BY <1>1, <1>3, <2>1, <2>2, <2>3, Movement
<1> QED
  BY <1>3, <1>5 DEF Emptied, FollowersOf

\* Who follows no more than before still fits their plan.
LEMMA FewerFit ==
  ASSUME NEW A, NEW B, IsFiniteSet(B), A \subseteq B
  PROVE  Cardinality(A) \in Nat /\ Cardinality(B) \in Nat /\ Cardinality(A) <= Cardinality(B)
BY FS_Subset, FS_CardinalityType

LEMMA FitsNext ==
  ASSUME FollowInvariant, [Next]_vars, NEW u \in 1..Tabs
  PROVE  Fits(req[u])'
<1>1. TypeInvariant /\ Alone
  BY DEF FollowInvariant
<1>2. \A t \in 1..Tabs : Fits(req[t])
  BY DEF FollowInvariant
<1>3. PICK r : r = req'[u]
  OBVIOUS
<1>4. \A f \in Followers, s \in Strategies : follows[f, s] = "none" /\ follows'[f, s] # "none" =>
        \E t \in 1..Tabs : CreateSubscription(t) /\ req[t].who = f /\ req[t].at = s
  BY <1>1, FollowsGrow
<1>5. Fits(r)'
  <2>1. CASE r = req[u]
    <3> SUFFICES ASSUME r.step = "follow", r.who \notin raced'
                 PROVE  Fits(r)'
      BY <1>2 DEF Fits
    <3>1. PICK f \in Followers : f = r.who
      BY <1>1, <2>1, TabShape DEF Shaped
    <3>2. f \notin raced
      BY <1>1, <3>1, Movement
    <3>3. plan'[f] = plan[f]
      BY <1>1, <1>3, <2>1, <3>1, PlanOfOthers, IdleStep
    <3>4. Followed(f)' \subseteq Followed(f)
      <4> SUFFICES ASSUME NEW s \in Strategies, follows'[f, s] # "none", follows[f, s] = "none"
                   PROVE  FALSE
        BY DEF Followed
      <4>1. PICK t \in 1..Tabs : CreateSubscription(t) /\ req[t].who = f /\ req[t].at = s
        BY <1>4
      <4>2. req'[t].step # "follow"
        BY <1>1, <4>1, StepsAfter DEF TabStep, CreateSubscription, CheckLimit, At
      <4>3. t # u
        BY <1>3, <4>2
      <4> QED
        BY <1>1, <2>1, <3>1, <3>2, <4>1, <4>3, OnlyOne, NamesAreNotNone
    <3>5. Cardinality(Followed(f)) < Limit[InForce(f)]
      BY <1>2, <2>1, <3>1, <3>2 DEF Fits
    <3>6. InForce(f)' = InForce(f)
      BY <3>3 DEF InForce
    <3>7. Cardinality(Followed(f)') < Limit[InForce(f)]
      <4>1. Cardinality(Followed(f)') <= Cardinality(Followed(f)) /\ Cardinality(Followed(f)') \in Nat
        BY <3>4, FollowedIsFinite, FewerFit
      <4>2. Cardinality(Followed(f)) \in Nat /\ Limit[InForce(f)] \in Nat
        BY <1>1, FollowedIsFinite, LimitType
      <4> QED
        BY <3>5, <4>1, <4>2
    <3> QED
      BY <1>2, <3>1, <3>6, <3>7 DEF Fits, Followed
  <2>2. CASE NewRequest(u)
    BY <1>1, <1>2, <1>3, <2>2, Arrival DEF Fits
  <2>3. CASE TabStep(u) \/ Die(u)
    <3> SUFFICES ASSUME r.step = "follow"
                 PROVE  Fits(r)'
      BY <1>2 DEF Fits
    <3>1. CheckLimit(u)
      BY <1>1, <1>3, <2>3, StepsAfter
    <3>2. PICK f \in Followers : f = req[u].who
      BY <1>1, <3>1, TabShape DEF Shaped, CheckLimit, At
    <3>3. ~(Cardinality(Followed(f)) >= Limit[InForce(f)]) /\ Goto(u, "follow")
      BY <1>1, <1>3, <3>1, <3>2, IdleStep DEF CheckLimit, Done, Followed, Effective, InForce, TypeInvariant, TypeOK, TrafficType
    <3>4. r.who = f
      BY <1>1, <1>3, <3>2, <3>3 DEF Goto, TypeInvariant, TypeOK, TrafficType, RequestType
    <3>5. Cardinality(Followed(f)) < Limit[InForce(f)]
      BY <1>1, <3>3, FollowedIsFinite, LimitType
    <3> QED
      BY <1>2, <3>1, <3>4, <3>5 DEF Fits, Followed, InForce, CheckLimit, rows
  <2> QED
    BY <1>1, <1>3, <2>1, <2>2, <2>3, Movement
<1> QED
  BY <1>3, <1>5 DEF Fits, Followed, InForce

LEMMA FollowInit == Init => FollowInvariant
<1>1. Init => \A t \in 1..Tabs : Emptied(req[t]) /\ Fits(req[t])
  BY IdleStep DEF Init, Emptied, Fits
<1> QED
  BY <1>1, TypeInit, AloneInit DEF FollowInvariant

LEMMA FollowNext ==
  ASSUME FollowInvariant, [Next]_vars
  PROVE  FollowInvariant'
<1>1. \A u \in 1..Tabs : Emptied(req[u])'
  BY EmptiedNext DEF FollowInvariant
<1>2. \A u \in 1..Tabs : Fits(req[u])'
  BY FitsNext DEF FollowInvariant
<1> QED
  BY <1>1, <1>2, TypeNext, AloneNext DEF FollowInvariant

\* Followers are neither lost nor more than the plan allows: a subscription ends by its
\* member's own request unless a subscription was being made while the strategy was
\* deleted, and one more is made only within the plan in force (deleteStrategy,
\* subscribe, assertWithinPlanLimits).
THEOREM FollowersAreHeld == Spec => FollowersHold
<1> DEFINE Kept == \A f \in Followers, s \in Strategies :
             follows[f, s] # "none" /\ follows'[f, s] = "none"
             => s \in raced \/ \E t \in 1..Tabs : req[t] = Request("unfollow", f, s) /\ req'[t] # req[t]
           Within == \A f \in Followers \ raced :
             Cardinality(Followed(f)') > Cardinality(Followed(f)) => Cardinality(Followed(f)') <= Limit[InForce(f)]
<1>1. FollowInvariant /\ [Next]_vars => [Kept]_vars
  <2> SUFFICES ASSUME FollowInvariant, [Next]_vars, NEW f \in Followers, NEW s \in Strategies,
                      follows[f, s] # "none", follows'[f, s] = "none"
               PROVE  s \in raced \/ \E t \in 1..Tabs : req[t] = Request("unfollow", f, s) /\ req'[t] # req[t]
    OBVIOUS
  <2>1. ASSUME NEW t \in 1..Tabs, RemoveStrategy(t), req[t].at = s
        PROVE  s \in raced
    BY <2>1 DEF FollowInvariant, Emptied, RemoveStrategy, At, FollowersOf
  <2>2. ASSUME NEW t \in 1..Tabs, DeleteSubscription(t), req[t].who = f, req[t].at = s
        PROVE  req[t] = Request("unfollow", f, s) /\ req'[t] # req[t]
    <3>1. req[t].step = "unfollow"
      BY <2>2 DEF DeleteSubscription, At
    <3>2. req[t] = Request("unfollow", f, s)
      BY <2>2, <3>1, TabShape DEF FollowInvariant, Shaped
    <3>3. req'[t].step # "unfollow"
      BY <2>2, StepsAfter DEF TabStep, FollowInvariant
    <3> QED
      BY <3>1, <3>2, <3>3
  <2> QED
    BY <2>1, <2>2, FollowsShrink DEF FollowInvariant
<1>2. FollowInvariant /\ [Next]_vars => [Within]_vars
  <2> SUFFICES ASSUME FollowInvariant, [Next]_vars, NEW f \in Followers, f \notin raced,
                      Cardinality(Followed(f)') > Cardinality(Followed(f))
               PROVE  Cardinality(Followed(f)') <= Limit[InForce(f)]
    OBVIOUS
  <2>1. Cardinality(Followed(f)) \in Nat /\ IsFiniteSet(Followed(f)) /\ Limit[InForce(f)] \in Nat
    BY FollowedIsFinite, LimitType DEF FollowInvariant
  <2>2. CASE Followed(f)' \subseteq Followed(f)
    <3>1. Cardinality(Followed(f)') <= Cardinality(Followed(f)) /\ Cardinality(Followed(f)') \in Nat
      BY <2>1, <2>2, FewerFit
    <3> QED
      BY <2>1, <3>1
  <2>3. CASE ~(Followed(f)' \subseteq Followed(f))
    <3>1. PICK s \in Strategies : follows[f, s] = "none" /\ follows'[f, s] # "none"
      BY <2>3 DEF Followed
    <3>2. PICK t \in 1..Tabs : CreateSubscription(t) /\ req[t].who = f /\ req[t].at = s
      BY <3>1, FollowsGrow DEF FollowInvariant
    <3>3. Followed(f)' = Followed(f) \cup {s} /\ s \notin Followed(f)
      BY <3>1, <3>2 DEF CreateSubscription, Followed, FollowInvariant, TypeInvariant, TypeOK, RowType
    <3>4. Cardinality(Followed(f)') = Cardinality(Followed(f)) + 1
      BY <2>1, <3>3, FS_AddElement
    <3>5. Cardinality(Followed(f)) < Limit[InForce(f)]
      BY <3>2 DEF FollowInvariant, Fits, CreateSubscription, At
    <3> QED
      BY <2>1, <3>4, <3>5
  <2> QED
    BY <2>2, <2>3
<1>3. FollowInvariant /\ [Next]_vars => FollowInvariant'
  BY FollowNext
<1>4. Spec => [][Kept]_vars
  BY <1>1, <1>3, FollowInit, PTL DEF Spec
<1>5. Spec => [][Within]_vars
  BY <1>2, <1>3, FollowInit, PTL DEF Spec
<1> QED
  BY <1>4, <1>5 DEF FollowersHold, FollowersAreKept, FollowedWithinPlan
-----------------------------------------------------------------------------
(* Plans and payments.                                                     *)

LEMMA Appended ==
  ASSUME NEW S, NEW q \in Seq(S), NEW p \in S
  PROVE  /\ Len(q) \in Nat /\ DOMAIN q = 1..Len(q) /\ DOMAIN Append(q, p) = 1..(Len(q) + 1)
         /\ \A k \in 1..Len(q) : Append(q, p)[k] = q[k]
         /\ Append(q, p)[Len(q) + 1] = p
OBVIOUS

\* Who writes the payments.
LEMMA PaymentsChange ==
  ASSUME TypeInvariant, [Next]_vars
  PROVE  \/ UNCHANGED payments
         \/ \E t \in 1..Tabs, outcome \in Outcomes : RecordPayment(t, outcome)
         \/ \E g \in Followers : PeriodEnds(g)
<1>1. ASSUME NEW t \in 1..Tabs, NewRequest(t) \/ Die(t)
      PROVE  UNCHANGED payments
  BY <1>1, NewRequestMoves DEF Begins, Die, rows
<1>2. ASSUME NEW t \in 1..Tabs, TabStep(t)
      PROVE  (\E outcome \in Outcomes : RecordPayment(t, outcome)) \/ UNCHANGED payments
  <2>1. \A step, by : CountMember(t, step, by) => UNCHANGED payments
    BY DEF CountMember
  <2>2. CountMember(t, "member", 1) \/ CountMember(t, "leave", -1) => UNCHANGED payments
    BY <2>1
  <2> QED
    BY <1>2, <2>2
    DEF TabStep, StoreApplication, CreateDraft, CountStrategy, LinkSource, IssueKey, KeyRevoked, CountActive,
        ApplyPaidPlan, RemoveStrategy, CreateSubscription, DeleteSubscription, CheckLimit, rows
<1>3. \/ \E t \in 1..Tabs : NewRequest(t) \/ TabStep(t) \/ Die(t)
      \/ \E g \in Followers : PeriodEnds(g)
      \/ UNCHANGED payments
  BY DEF Next, vars, rows, Review, CreatePlatformStrategy, UpdateStrategy, SetStrategyStatus, Control, CancelPlan,
         Recount, StartRecount, TurnToProviders, ReadMembers, ReadTotals, WriteMembers, WriteTotals, JobGoes
<1> QED
  BY <1>1, <1>2, <1>3

\* A transaction is appended to those of its member.
LEMMA Recorded ==
  ASSUME TypeInvariant, NEW t \in 1..Tabs, NEW outcome \in Outcomes, RecordPayment(t, outcome),
         NEW f \in Followers
  PROVE  /\ req[t].who # f => payments'[f] = payments[f]
         /\ req[t].who = f =>
              \E n \in Nat :
                /\ DOMAIN payments[f] = 1..n /\ DOMAIN payments'[f] = 1..(n + 1)
                /\ \A k \in 1..n : payments'[f][k] = payments[f][k]
                /\ payments'[f][n + 1] = [tier |-> req[t].saw, status |-> outcome, over |-> FALSE]
<1>1. payments \in [Followers -> Seq(PaymentType)]
  BY DEF TypeInvariant, TypeOK, RowType
<1>2. req[t].who \in Followers /\ req[t].saw \in DOMAIN Limit
  BY TabShape DEF Shaped, RecordPayment, At
<1>3. PICK p : p = [tier |-> req[t].saw, status |-> outcome, over |-> FALSE]
  OBVIOUS
<1>4. p \in PaymentType
  <2>1. outcome \in {"PAID", "PENDING"}
    BY MarketAssumption DEF MarketAssumption
  <2> QED
    BY <1>2, <1>3, <2>1 DEF PaymentType
<1>5. payments' = [payments EXCEPT ![req[t].who] = Append(payments[req[t].who], p)]
  BY <1>3 DEF RecordPayment
<1>6. ASSUME req[t].who = f
      PROVE  payments'[f] = Append(payments[f], p)
  BY <1>1, <1>5, <1>6
<1>7. req[t].who # f => payments'[f] = payments[f]
  BY <1>1, <1>5
<1>8. payments[f] \in Seq(PaymentType)
  BY <1>1
<1>9. /\ Len(payments[f]) \in Nat /\ DOMAIN payments[f] = 1..Len(payments[f])
      /\ DOMAIN Append(payments[f], p) = 1..(Len(payments[f]) + 1)
      /\ \A k \in 1..Len(payments[f]) : Append(payments[f], p)[k] = payments[f][k]
      /\ Append(payments[f], p)[Len(payments[f]) + 1] = p
  BY <1>4, <1>8, Appended
<1> QED
  BY <1>3, <1>6, <1>7, <1>9

\* The period of a member's plan ends.
LEMMA Ended ==
  ASSUME TypeInvariant, NEW g \in Followers, PeriodEnds(g), NEW f \in Followers
  PROVE  /\ f # g => payments'[f] = payments[f] /\ plan'[f] = plan[f]
         /\ f = g => /\ DOMAIN payments'[f] = DOMAIN payments[f]
                     /\ \A k \in DOMAIN payments[f] :
                          /\ payments'[f][k].tier = payments[f][k].tier /\ payments'[f][k].status = payments[f][k].status
                          /\ payments'[f][k].over = TRUE
                     /\ plan'[f] # None => plan'[f].running = FALSE
<1>1. payments \in [Followers -> Seq(PaymentType)] /\ plan \in [Followers -> PlanType \cup {None}]
  BY DEF TypeInvariant, TypeOK, RowType
<1>2. f # g => payments'[f] = payments[f] /\ plan'[f] = plan[f]
  BY <1>1 DEF PeriodEnds
<1>3. ASSUME f = g
      PROVE  /\ DOMAIN payments'[f] = DOMAIN payments[f]
             /\ \A k \in DOMAIN payments[f] :
                  /\ payments'[f][k].tier = payments[f][k].tier /\ payments'[f][k].status = payments[f][k].status
                  /\ payments'[f][k].over = TRUE
  <2>1. payments'[f] = [k \in DOMAIN payments[f] |-> [payments[f][k] EXCEPT !.over = TRUE]]
    BY <1>1, <1>3 DEF PeriodEnds
  <2>2. \A k \in DOMAIN payments[f] : payments[f][k] \in PaymentType
    BY <1>1
  <2> QED
    BY <2>1, <2>2 DEF PaymentType
<1>4. ASSUME f = g
      PROVE  plan'[f] # None => plan'[f].running = FALSE
  <2>1. plan[f] \in PlanType /\ plan'[f] = [plan[f] EXCEPT !.running = FALSE]
    BY <1>1, <1>4 DEF PeriodEnds
  <2> QED
    BY <2>1 DEF PlanType
<1> QED
  BY <1>2, <1>3, <1>4

\* What was paid was paid.
LEMMA PaidForKept ==
  ASSUME TypeInvariant, [Next]_vars, NEW f \in Followers, NEW tier, PaidFor(f, tier), PeriodEnds(f) => f \in raced'
  PROVE  PaidFor(f, tier)'
<1>1. PICK k \in DOMAIN payments[f] :
        payments[f][k].tier = tier /\ payments[f][k].status = "PAID" /\ (payments[f][k].over => f \in raced)
  BY DEF PaidFor
<1>2. raced \subseteq raced'
  BY Movement
<1>3. CASE UNCHANGED payments
  BY <1>1, <1>2, <1>3 DEF PaidFor
<1>4. ASSUME NEW t \in 1..Tabs, NEW outcome \in Outcomes, RecordPayment(t, outcome)
      PROVE  PaidFor(f, tier)'
  <2>1. k \in DOMAIN payments'[f] /\ payments'[f][k] = payments[f][k]
    <3>1. CASE req[t].who # f
      BY <1>1, <1>4, <3>1, Recorded
    <3>2. CASE req[t].who = f
      <4>1. PICK n \in Nat : /\ DOMAIN payments[f] = 1..n /\ DOMAIN payments'[f] = 1..(n + 1)
                             /\ \A i \in 1..n : payments'[f][i] = payments[f][i]
        BY <1>4, <3>2, Recorded
      <4> QED
        BY <1>1, <4>1
    <3> QED
      BY <3>1, <3>2
  <2> QED
    BY <1>1, <1>2, <2>1 DEF PaidFor
<1>5. ASSUME NEW g \in Followers, PeriodEnds(g)
      PROVE  PaidFor(f, tier)'
  <2>1. CASE f # g
    BY <1>1, <1>2, <1>5, <2>1, Ended DEF PaidFor
  <2>2. CASE f = g
    <3>1. k \in DOMAIN payments'[f] /\ payments'[f][k].tier = tier /\ payments'[f][k].status = "PAID" /\ f \in raced'
      BY <1>1, <1>5, <2>2, Ended
    <3> QED
      BY <3>1 DEF PaidFor
  <2> QED
    BY <2>1, <2>2
<1> QED
  BY <1>3, <1>4, <1>5, PaymentsChange
\* And a payment that counts is the last one that does: its member's others.
LEMMA LastPaidKept ==
  ASSUME NEW f, payments'[f] = payments[f], NEW k
  PROVE  LastPaid(f, k)' <=> LastPaid(f, k)
BY DEF LastPaid, Counts

\* After a transaction, the last paid one is itself if it is paid, and else the one before.
LEMMA LastPaidRecorded ==
  ASSUME TypeInvariant, NEW t \in 1..Tabs, NEW outcome \in Outcomes, RecordPayment(t, outcome),
         NEW f \in Followers, req[t].who = f, NEW k \in DOMAIN payments'[f], LastPaid(f, k)'
  PROVE  IF outcome = "PAID" THEN payments'[f][k].tier = req[t].saw
         ELSE k \in DOMAIN payments[f] /\ LastPaid(f, k) /\ payments'[f][k].tier = payments[f][k].tier
<1>1. PICK n \in Nat :
        /\ DOMAIN payments[f] = 1..n /\ DOMAIN payments'[f] = 1..(n + 1)
        /\ \A i \in 1..n : payments'[f][i] = payments[f][i]
        /\ payments'[f][n + 1] = [tier |-> req[t].saw, status |-> outcome, over |-> FALSE]
  BY Recorded
<1>2. /\ Counts(payments'[f][k])
      /\ \A j \in 1..(n + 1) : j > k => ~Counts(payments'[f][j])
  BY <1>1 DEF LastPaid, Counts
<1>3. Counts(payments'[f][n + 1]) <=> outcome = "PAID"
  BY <1>1 DEF Counts
<1>4. CASE outcome = "PAID"
  <2>1. k = n + 1
    BY <1>1, <1>2, <1>3, <1>4
  <2> QED
    BY <1>1, <1>4, <2>1
<1>5. CASE outcome # "PAID"
  <2>1. k \in 1..n
    BY <1>1, <1>2, <1>3, <1>5
  <2>2. LastPaid(f, k)
    BY <1>1, <1>2, <2>1 DEF LastPaid, Counts
  <2> QED
    BY <1>1, <1>5, <2>1, <2>2
<1> QED
  BY <1>4, <1>5

\* A request about to apply a plan keeps what it was promised.
LEMMA PromisedNext ==
  ASSUME PaymentInvariant, [Next]_vars, NEW u \in 1..Tabs
  PROVE  Promised(req[u])'
<1>1. TypeInvariant /\ Alone
  BY DEF PaymentInvariant
<1>2. PICK r : r = req'[u]
  OBVIOUS
<1>3. CASE r.step # "apply plan"
  BY <1>2, <1>3 DEF Promised
<1>4. CASE r.step = "apply plan" /\ r = req[u]
  <2>1. PICK f \in Followers : f = r.who
    BY <1>1, <1>4, TabShape DEF Shaped
  <2>2. PaidFor(f, r.saw) /\ (f \notin raced => \A k \in DOMAIN payments[f] : LastPaid(f, k) => payments[f][k].tier = r.saw)
    BY <1>4, <2>1 DEF PaymentInvariant, Promised
  <2>3. PeriodEnds(f) => f \in raced'
    BY <1>4, <2>1 DEF PeriodEnds
  <2>4. PaidFor(f, r.saw)'
    <3>1. PICK tier : tier = r.saw
      OBVIOUS
    <3>2. PaidFor(f, tier)'
      BY <1>1, <2>2, <2>3, <3>1, PaidForKept
    <3> QED
      BY <3>1, <3>2 DEF PaidFor
  <2>5. ASSUME f \notin raced'
        PROVE  payments'[f] = payments[f]
    <3>1. f \notin raced
      BY <1>1, <2>5, Movement
    <3>2. ASSUME NEW t \in 1..Tabs, NEW outcome \in Outcomes, RecordPayment(t, outcome)
          PROVE  payments'[f] = payments[f]
      <4>1. t # u
        BY <1>4, <3>2 DEF RecordPayment, At
      <4>2. req[t].who # f
        BY <1>1, <1>4, <2>1, <3>1, <4>1, OnlyOne, NamesAreNotNone
      <4> QED
        BY <1>1, <3>2, <4>2, Recorded
    <3>3. ASSUME NEW g \in Followers, PeriodEnds(g)
          PROVE  payments'[f] = payments[f]
      <4>1. f # g
        BY <2>3, <2>5, <3>3
      <4> QED
        BY <1>1, <3>3, <4>1, Ended
    <3> QED
      BY <1>1, <3>2, <3>3, PaymentsChange
  <2>6. f \notin raced' => \A k \in DOMAIN payments'[f] : LastPaid(f, k)' => payments'[f][k].tier = r.saw
    <3> SUFFICES ASSUME f \notin raced', NEW k \in DOMAIN payments'[f], LastPaid(f, k)'
                 PROVE  payments'[f][k].tier = r.saw
      OBVIOUS
    <3>1. payments'[f] = payments[f] /\ f \notin raced
      BY <1>1, <2>5, Movement
    <3>2. LastPaid(f, k)
      BY <3>1, LastPaidKept
    <3> QED
      BY <2>2, <3>1, <3>2
  <2> QED
    BY <1>2, <2>1, <2>4, <2>6 DEF Promised, PaidFor, LastPaid
<1>5. CASE r.step = "apply plan" /\ r # req[u]
  <2>1. PICK outcome \in Outcomes : RecordPayment(u, outcome)
    BY <1>1, <1>2, <1>5, Movement, Arrival, StepsAfter
  <2>2. outcome = "PAID" /\ Goto(u, "apply plan")
    BY <1>1, <1>2, <1>5, <2>1, IdleStep DEF RecordPayment, Done, TypeInvariant, TypeOK, TrafficType
  <2>3. PICK f \in Followers : f = req[u].who
    BY <1>1, <2>1, TabShape DEF Shaped, RecordPayment, At
  <2>4. r.who = f /\ r.saw = req[u].saw
    BY <1>1, <1>2, <2>2, <2>3 DEF Goto, TypeInvariant, TypeOK, TrafficType, RequestType
  <2>5. PICK n \in Nat : /\ DOMAIN payments'[f] = 1..(n + 1)
                         /\ payments'[f][n + 1] = [tier |-> req[u].saw, status |-> outcome, over |-> FALSE]
    BY <1>1, <2>1, <2>3, Recorded
  <2>6. PaidFor(f, r.saw)'
    <3>1. n + 1 \in DOMAIN payments'[f]
      BY <2>5
    <3>2. PICK p : p = [tier |-> r.saw, status |-> outcome, over |-> FALSE]
      OBVIOUS
    <3>3. payments'[f][n + 1] = p
      BY <2>4, <2>5, <3>2
    <3>4. p.tier = r.saw /\ p.status = outcome /\ p.over = FALSE
      BY <3>2
    <3>5. /\ payments'[f][n + 1].tier = r.saw /\ payments'[f][n + 1].status = "PAID"
          /\ payments'[f][n + 1].over = FALSE
      BY <2>2, <3>3, <3>4
    <3> QED
      BY <3>1, <3>5 DEF PaidFor
  <2>7. \A k \in DOMAIN payments'[f] : LastPaid(f, k)' => payments'[f][k].tier = r.saw
    BY <1>1, <2>1, <2>2, <2>3, <2>4, LastPaidRecorded
  <2> QED
    BY <1>2, <2>4, <2>6, <2>7 DEF Promised, PaidFor, LastPaid
<1> QED
  BY <1>3, <1>4, <1>5
\* A request that died is never forgotten.
LEMMA CrashesCount ==
  ASSUME TypeInvariant
  PROVE  crashes + 1 # 0
<1>1. crashes \in 0..MaxCrashes /\ MaxCrashes \in Nat
  BY MarketAssumption DEF MarketAssumption, TypeInvariant, TypeOK, TrafficType
<1> QED
  BY <1>1

\* The plan that is applied.
LEMMA PlanApplied ==
  ASSUME TypeInvariant, NEW t \in 1..Tabs, ApplyPaidPlan(t), NEW f \in Followers, req[t].who = f
  PROVE  plan'[f] # None /\ plan'[f].tier = req[t].saw /\ plan'[f].running
<1>1. PICK row : row = [tier |-> req[t].saw, running |-> TRUE, cancel |-> FALSE]
  OBVIOUS
<1>2. plan' = [plan EXCEPT ![f] = row]
  BY <1>1 DEF ApplyPaidPlan
<1>3. plan \in [Followers -> PlanType \cup {None}]
  BY DEF TypeInvariant, TypeOK, RowType
<1>4. plan'[f] = row
  BY <1>2, <1>3
<1>5. req[t].saw \in DOMAIN Limit
  BY TabShape DEF Shaped, ApplyPaidPlan, At
<1>6. row \in PlanType
  BY <1>1, <1>5 DEF PlanType
<1>7. row # None
  BY <1>6, NamesAssumption
<1>8. row.tier = req[t].saw /\ row.running
  BY <1>1
<1> QED
  BY <1>4, <1>7, <1>8

\* The plan in force of a member none of whose requests is about to apply one is that of
\* the last payment, whatever the step.
LEMMA AppliedNext ==
  ASSUME PaymentInvariant, [Next]_vars, NEW f \in Followers
  PROVE  Applied(f)'
<1>1. TypeInvariant /\ Alone /\ Applied(f)
  BY DEF PaymentInvariant
<1> SUFFICES ASSUME f \notin raced', crashes' = 0, \A t \in 1..Tabs : ~(req'[t].step = "apply plan" /\ req'[t].who = f),
                    NEW k \in DOMAIN payments'[f], LastPaid(f, k)'
             PROVE  InForce(f)' = payments'[f][k].tier
  BY DEF Applied
<1>2. f \notin raced /\ f \notin {None, Admin}
  BY <1>1, Movement, NamesAreNotNone
<1>3. ASSUME NEW t \in 1..Tabs, ApplyPaidPlan(t), req[t].who = f
      PROVE  InForce(f)' = payments'[f][k].tier
  <2>1. payments' = payments /\ k \in DOMAIN payments[f] /\ LastPaid(f, k)
    BY <1>3, LastPaidKept DEF ApplyPaidPlan
  <2>2. payments[f][k].tier = req[t].saw
    BY <1>2, <1>3, <2>1 DEF PaymentInvariant, Promised, ApplyPaidPlan, At
  <2>3. plan'[f] # None /\ plan'[f].tier = req[t].saw /\ plan'[f].running
    BY <1>1, <1>3, PlanApplied
  <2> QED
    BY <2>1, <2>2, <2>3 DEF InForce
<1>4. ASSUME NEW t \in 1..Tabs, NEW outcome \in Outcomes, RecordPayment(t, outcome), req[t].who = f
      PROVE  InForce(f)' = payments'[f][k].tier
  <2>1. req[t].step = "checkout" /\ plan' = plan
    BY <1>4 DEF RecordPayment, At
  <2>2. outcome # "PAID"
    <3> SUFFICES ASSUME outcome = "PAID" PROVE FALSE
      OBVIOUS
    <3>1. Goto(t, "apply plan")
      BY <1>4 DEF RecordPayment
    <3>2. req'[t].step = "apply plan" /\ req'[t].who = f
      BY <1>1, <1>4, <3>1 DEF Goto, TypeInvariant, TypeOK, TrafficType, RequestType
    <3> QED
      BY <3>2
  <2>3. k \in DOMAIN payments[f] /\ LastPaid(f, k) /\ payments'[f][k].tier = payments[f][k].tier
    BY <1>1, <1>4, <2>2, LastPaidRecorded
  <2>4. crashes = 0
    BY <1>4 DEF RecordPayment, Goto, Done
  <2>5. \A x \in 1..Tabs : ~(req[x].step = "apply plan" /\ req[x].who = f)
    <3> SUFFICES ASSUME NEW x \in 1..Tabs, req[x].step = "apply plan", req[x].who = f PROVE FALSE
      OBVIOUS
    <3>1. x # t
      BY <2>1
    <3> QED
      BY <1>1, <1>2, <1>4, <3>1, OnlyOne
  <2>6. InForce(f) = payments[f][k].tier
    BY <1>1, <1>2, <2>3, <2>4, <2>5 DEF Applied
  <2> QED
    BY <2>1, <2>3, <2>6 DEF InForce
<1>5. ASSUME NEW g \in Followers, PeriodEnds(g), f = g
      PROVE  FALSE
  <2>1. k \in DOMAIN payments[f] /\ payments'[f][k].over = TRUE
    BY <1>1, <1>5, Ended
  <2> QED
    BY <2>1 DEF LastPaid, Counts
<1>6. ASSUME ~\E t \in 1..Tabs : ApplyPaidPlan(t) /\ req[t].who = f,
             ~\E t \in 1..Tabs, outcome \in Outcomes : RecordPayment(t, outcome) /\ req[t].who = f,
             ~PeriodEnds(f)
      PROVE  InForce(f)' = payments'[f][k].tier
  <2>1. payments'[f] = payments[f]
    <3>1. ASSUME NEW t \in 1..Tabs, NEW outcome \in Outcomes, RecordPayment(t, outcome)
          PROVE  payments'[f] = payments[f]
      BY <1>1, <1>6, <3>1, Recorded
    <3>2. ASSUME NEW g \in Followers, PeriodEnds(g)
          PROVE  payments'[f] = payments[f]
      <4>1. f # g
        BY <1>6, <3>2
      <4> QED
        BY <1>1, <3>2, <4>1, Ended
    <3> QED
      BY <1>1, <3>1, <3>2, PaymentsChange
  <2>2. InForce(f)' = InForce(f)
    <3>1. plan \in [Followers -> PlanType \cup {None}]
      BY <1>1 DEF TypeInvariant, TypeOK, RowType
    <3>2. ASSUME NEW t \in 1..Tabs, ApplyPaidPlan(t)
          PROVE  plan'[f] = plan[f]
      BY <1>6, <3>1, <3>2 DEF ApplyPaidPlan
    <3>3. ASSUME NEW g \in Followers, CancelPlan(g)
          PROVE  InForce(f)' = InForce(f)
      <4>1. CASE f # g
        BY <3>1, <3>3, <4>1 DEF CancelPlan, InForce
      <4>2. CASE f = g
        <5>1. plan[f] \in PlanType /\ plan'[f] = [plan[f] EXCEPT !.cancel = TRUE]
          BY <3>1, <3>3, <4>2 DEF CancelPlan, CanCancel
        <5>2. plan'[f] \in PlanType /\ plan'[f].tier = plan[f].tier /\ plan'[f].running = plan[f].running
          BY <5>1 DEF PlanType
        <5>3. None \notin PlanType
          BY NamesAssumption
        <5>4. plan[f] # None /\ plan'[f] # None
          BY <5>1, <5>2, <5>3
        <5> QED
          BY <5>2, <5>4 DEF InForce
      <4> QED
        BY <4>1, <4>2
    <3>4. ASSUME NEW g \in Followers, PeriodEnds(g)
          PROVE  plan'[f] = plan[f]
      <4>1. f # g
        BY <1>6, <3>4
      <4> QED
        BY <1>1, <3>4, <4>1, Ended
    <3>5. plan'[f] = plan[f] => InForce(f)' = InForce(f)
      BY DEF InForce
    <3> QED
      BY <1>1, <3>2, <3>3, <3>4, <3>5, PlanChanges
  <2>3. \A t \in 1..Tabs : ~Die(t)
    BY <1>1, CrashesCount DEF Die
  <2>4. crashes = 0
    <3>1. ASSUME NEW t \in 1..Tabs, TabStep(t)
          PROVE  crashes' = crashes
      <4>1. Done(t) \/ \E step \in Steps : Goto(t, step)
        BY <1>1, <3>1, TabStepEnds
      <4> QED
        BY <4>1 DEF Done, Goto
    <3>2. ASSUME NEW t \in 1..Tabs, NewRequest(t)
          PROVE  crashes' = crashes
      BY <3>2, NewRequestMoves DEF Begins, Send, Count
    <3>3. (\A t \in 1..Tabs : ~(NewRequest(t) \/ TabStep(t) \/ Die(t))) => crashes' = crashes
      BY DEF Next, vars, Review, CreatePlatformStrategy, SetStrategyStatus, UpdateStrategy, CancelPlan, PeriodEnds,
             Control, Serve, Count, Recount, StartRecount, TurnToProviders, ReadMembers, ReadTotals, WriteMembers,
             WriteTotals, JobGoes
    <3> QED
      BY <2>3, <3>1, <3>2, <3>3
  <2>5. \A t \in 1..Tabs : ~(req[t].step = "apply plan" /\ req[t].who = f)
    <3> SUFFICES ASSUME NEW t \in 1..Tabs, req[t].step = "apply plan", req[t].who = f PROVE FALSE
      OBVIOUS
    <3>1. req'[t] # req[t]
      OBVIOUS
    <3>2. ~NewRequest(t)
      BY IdleStep, NewRequestMoves DEF Begins, Send
    <3>3. TabStep(t)
      BY <1>1, <2>3, <3>1, <3>2, Movement
    <3>4. ApplyPaidPlan(t)
      <4>1. \A step, by : CountMember(t, step, by) => At(t, step)
        BY DEF CountMember
      <4>2. CountMember(t, "member", 1) \/ CountMember(t, "leave", -1) => At(t, "member") \/ At(t, "leave")
        BY <4>1
      <4>3. ~(CountMember(t, "member", 1) \/ CountMember(t, "leave", -1))
        BY <4>2 DEF At
      <4> QED
        BY <3>3, <4>3
        DEF TabStep, StoreApplication, CreateDraft, CountStrategy, LinkSource, IssueKey, KeyRevoked, CountActive,
            RecordPayment, RemoveStrategy, CreateSubscription, DeleteSubscription, CheckLimit, At
    <3> QED
      BY <1>6, <3>4
  <2>6. k \in DOMAIN payments[f] /\ LastPaid(f, k)
    BY <2>1, LastPaidKept
  <2> QED
    BY <1>1, <1>2, <2>1, <2>2, <2>4, <2>5, <2>6 DEF Applied
<1> QED
  BY <1>3, <1>4, <1>5, <1>6

\* At rest, who has a plan has paid for it, once.
LEMMA PaymentInit == Init => PaymentInvariant
<1> SUFFICES ASSUME Init PROVE PaymentInvariant
  OBVIOUS
<1>1. TypeInvariant /\ Alone
  BY TypeInit, AloneInit
<1>2. \A t \in 1..Tabs : Promised(req[t])
  BY DEF Init, Promised, Idle
<1>3. PICK ownerOf, statusOf, following : AtRest(ownerOf, statusOf, following)
  BY DEF Init
<1>4. ASSUME NEW f \in Followers
      PROVE  Applied(f) /\ (plan[f] # None /\ plan[f].running => PaidFor(f, plan[f].tier))
  <2>1. PICK row : row = [tier |-> "PRO", running |-> TRUE, cancel |-> FALSE]
    OBVIOUS
  <2>2. PICK paid : paid = [tier |-> "PRO", status |-> "PAID", over |-> FALSE]
    OBVIOUS
  <2>3. plan[f] = None \/ plan[f] = row
    BY <1>3, <2>1 DEF AtRest
  <2>4. payments[f] = IF plan[f] = None THEN << >> ELSE <<paid>>
    BY <2>2 DEF Init
  <2>5. row.tier = "PRO" /\ row.running /\ paid.tier = "PRO" /\ paid.status = "PAID" /\ paid.over = FALSE
    BY <2>1, <2>2
  <2>6. CASE plan[f] = None
    <3>1. DOMAIN payments[f] = {}
      BY <2>4, <2>6
    <3> QED
      BY <2>6, <3>1 DEF Applied
  <2>7. CASE plan[f] # None
    <3>1. DOMAIN payments[f] = {1} /\ payments[f][1] = paid
      BY <2>4, <2>7
    <3>2. InForce(f) = "PRO" /\ plan[f].tier = "PRO"
      BY <2>3, <2>5, <2>7 DEF InForce
    <3>3. PaidFor(f, "PRO")
      BY <2>5, <3>1 DEF PaidFor
    <3>4. Applied(f)
      BY <2>5, <3>1, <3>2 DEF Applied
    <3> QED
      BY <3>2, <3>3, <3>4
  <2> QED
    BY <2>6, <2>7
<1> QED
  BY <1>1, <1>2, <1>4 DEF PaymentInvariant

\* A plan in force was paid for: applying one is what a paid request was promised, and
\* the end of a period takes the plan out of force with the payment.
LEMMA EntitledNext ==
  ASSUME PaymentInvariant, [Next]_vars, NEW f \in Followers, plan'[f] # None, plan'[f].running
  PROVE  PaidFor(f, plan[f].tier)'
<1>1. TypeInvariant
  BY DEF PaymentInvariant
<1>2. plan \in [Followers -> PlanType \cup {None}]
  BY <1>1 DEF TypeInvariant, TypeOK, RowType
<1>3. ~PeriodEnds(f)
  BY <1>1, Ended
<1>4. PICK tier : tier = plan'[f].tier
  OBVIOUS
<1>5. PaidFor(f, tier)
  <2>1. ASSUME NEW t \in 1..Tabs, ApplyPaidPlan(t), req[t].who = f
        PROVE  PaidFor(f, tier)
    <3>1. tier = req[t].saw
      BY <1>1, <1>4, <2>1, PlanApplied
    <3> QED
      BY <2>1, <3>1 DEF PaymentInvariant, Promised, ApplyPaidPlan, At
  <2>2. ASSUME plan[f] # None, plan[f].running, plan[f].tier = tier
        PROVE  PaidFor(f, tier)
    BY <2>2 DEF PaymentInvariant
  <2>3. CASE plan'[f] = plan[f]
    BY <1>4, <2>2, <2>3
  <2>4. ASSUME NEW t \in 1..Tabs, ApplyPaidPlan(t)
        PROVE  PaidFor(f, tier)
    <3>1. CASE req[t].who = f
      BY <2>1, <2>4, <3>1
    <3>2. CASE req[t].who # f
      <4>1. plan'[f] = plan[f]
        BY <1>2, <2>4, <3>2 DEF ApplyPaidPlan
      <4> QED
        BY <2>3, <4>1
    <3> QED
      BY <3>1, <3>2
  <2>5. ASSUME NEW g \in Followers, CancelPlan(g)
        PROVE  PaidFor(f, tier)
    <3>1. CASE g # f
      <4>1. plan'[f] = plan[f]
        BY <1>2, <2>5, <3>1 DEF CancelPlan
      <4> QED
        BY <2>3, <4>1
    <3>2. CASE g = f
      <4>1. plan[f] \in PlanType /\ plan[f] # None /\ plan'[f] = [plan[f] EXCEPT !.cancel = TRUE]
        BY <1>2, <2>5, <3>2 DEF CancelPlan, CanCancel
      <4>2. plan'[f].tier = plan[f].tier /\ plan'[f].running = plan[f].running
        BY <4>1 DEF PlanType
      <4> QED
        BY <1>4, <2>2, <4>1, <4>2
    <3> QED
      BY <3>1, <3>2
  <2>6. ASSUME NEW g \in Followers, PeriodEnds(g)
        PROVE  plan'[f] = plan[f]
    <3>1. f # g
      BY <1>3, <2>6
    <3> QED
      BY <1>1, <2>6, <3>1, Ended
  <2> QED
    BY <1>1, <2>3, <2>4, <2>5, <2>6, PlanChanges
<1>6. PaidFor(f, tier)'
  BY <1>1, <1>3, <1>5, PaidForKept
<1> QED
  BY <1>4, <1>6 DEF PaidFor

LEMMA PaymentNext ==
  ASSUME PaymentInvariant, [Next]_vars
  PROVE  PaymentInvariant'
<1>1. TypeInvariant /\ Alone
  BY DEF PaymentInvariant
<1>2. TypeInvariant' /\ Alone'
  BY <1>1, TypeNext, AloneNext
<1>3. \A t \in 1..Tabs : Promised(req[t])'
  BY PromisedNext
<1>4. \A f \in Followers : Applied(f)'
  BY AppliedNext
<1>5. \A f \in Followers : plan'[f] # None /\ plan'[f].running => PaidFor(f, plan[f].tier)'
  BY EntitledNext
<1> QED
  BY <1>2, <1>3, <1>4, <1>5 DEF PaymentInvariant

\* A plan above the free one that is in force was paid for; what was paid last, in a
\* period that is not over, is the plan in force once its request is over, unless a
\* request died or two of the member overlapped (changePlan, applyPaidPlan, cancelPlan).
THEOREM PlansFollowPayments == Spec => []PlansArePaid
<1>1. PaymentInvariant => PlansArePaid
  <2> SUFFICES ASSUME PaymentInvariant PROVE PlansArePaid
    OBVIOUS
  <2>1. TypeInvariant /\ TypeOK
    BY DEF PaymentInvariant, TypeInvariant
  <2>2. ASSUME NEW f \in Followers, InForce(f) # "FREE"
        PROVE  PaidFor(f, InForce(f))
    <3>1. plan[f] # None /\ plan[f].running /\ InForce(f) = plan[f].tier
      BY <2>2 DEF InForce
    <3> QED
      BY <3>1 DEF PaymentInvariant
  <2>3. EntitlementIsPaid
    BY <2>2 DEF EntitlementIsPaid, PaidFor
  <2>4. PaidIsApplied
    BY DEF PaidIsApplied, PaymentInvariant, Applied
  <2> QED
    BY <2>1, <2>3, <2>4 DEF PlansArePaid
<1>2. PaymentInvariant /\ [Next]_vars => PaymentInvariant'
  BY PaymentNext
<1> QED
  BY <1>1, <1>2, PaymentInit, PTL DEF Spec

-----------------------------------------------------------------------------
(* The figures.  Induction over the trades is the choice of a smallest     *)
(* counterexample among sets of their numbers.                             *)

LEMMA Smallest ==
  ASSUME NEW S, IsFiniteSet(S), NEW T \in SUBSET SUBSET S, T # {}
  PROVE  \E x \in T : \A y \in T : y \subseteq x => y = x
<1> DEFINE R == StrictSubsetOrdering(S)
<1>1. IsWellFoundedOn(R, SUBSET S)
  BY FS_StrictSubsetOrderingWellFounded, FS_FiniteSubsetsOfFinite
<1>2. \E x \in T : \A y \in T : ~(<<y, x>> \in R)
  <2> HIDE DEF R
  <2> QED
    BY <1>1, WFMin
<1>3. PICK x \in T : \A y \in T : ~(<<y, x>> \in R)
  BY <1>2
<1>4. ASSUME NEW y \in T, y \subseteq x, y # x PROVE FALSE
  <2>1. <<y, x>> \in R
    BY <1>4 DEF StrictSubsetOrdering
  <2> QED
    BY <1>3, <2>1
<1> QED
  BY <1>4

LEMMA Greatest ==
  ASSUME NEW S, IsFiniteSet(S), S # {}, \A x \in S : x \in Int
  PROVE  \E x \in S : \A y \in S : y <= x
<1> DEFINE Past(x) == {y \in S : y > x}
           T == {s \in SUBSET S : \E x \in S : s = Past(x)}
<1>1. PICK t \in T : \A u \in T : u \subseteq t => u = t
  <2>1. T \in SUBSET SUBSET S
    OBVIOUS
  <2>2. T # {}
    <3>1. PICK x \in S : TRUE
      OBVIOUS
    <3>2. Past(x) \in T
      OBVIOUS
    <3> HIDE DEF T
    <3> QED
      BY <3>2
  <2> HIDE DEF T
  <2> QED
    BY <2>1, <2>2, Smallest
<1>2. PICK x \in S : t = Past(x)
  OBVIOUS
<1>3. ASSUME NEW z \in S, z > x PROVE FALSE
  <2>1. Past(z) \in T
    OBVIOUS
  <2>2. z \in Past(x) /\ z \notin Past(z)
    BY <1>3
  <2>3. ASSUME NEW y \in Past(z) PROVE y \in Past(x)
    <3>1. y \in Int /\ z \in Int /\ x \in Int /\ y > z /\ y \in S
      OBVIOUS
    <3>2. y > x
      BY <1>3, <3>1
    <3> QED
      BY <3>1, <3>2
  <2>4. Past(z) \subseteq Past(x)
    BY <2>3
  <2> HIDE DEF T, Past
  <2> QED
    BY <1>1, <1>2, <2>1, <2>2, <2>4
<1> QED
  BY <1>3

LEMMA Least ==
  ASSUME NEW S, IsFiniteSet(S), S # {}, \A x \in S : x \in Int
  PROVE  \E x \in S : \A y \in S : x <= y
<1> DEFINE Past(x) == {y \in S : y < x}
           T == {s \in SUBSET S : \E x \in S : s = Past(x)}
<1>1. PICK t \in T : \A u \in T : u \subseteq t => u = t
  <2>1. T \in SUBSET SUBSET S
    OBVIOUS
  <2>2. T # {}
    <3>1. PICK x \in S : TRUE
      OBVIOUS
    <3>2. Past(x) \in T
      OBVIOUS
    <3> HIDE DEF T
    <3> QED
      BY <3>2
  <2> HIDE DEF T
  <2> QED
    BY <2>1, <2>2, Smallest
<1>2. PICK x \in S : t = Past(x)
  OBVIOUS
<1>3. ASSUME NEW z \in S, z < x PROVE FALSE
  <2>1. Past(z) \in T
    OBVIOUS
  <2>2. z \in Past(x) /\ z \notin Past(z)
    BY <1>3
  <2>3. ASSUME NEW y \in Past(z) PROVE y \in Past(x)
    <3>1. y \in Int /\ z \in Int /\ x \in Int /\ y < z /\ y \in S
      OBVIOUS
    <3>2. y < x
      BY <1>3, <3>1
    <3> QED
      BY <3>1, <3>2
  <2>4. Past(z) \subseteq Past(x)
    BY <2>3
  <2> HIDE DEF T, Past
  <2> QED
    BY <1>1, <1>2, <2>1, <2>2, <2>4
<1> QED
  BY <1>3

\* What holds of the beginning, and from each number to the next, holds up to n.
LEMMA Climb ==
  ASSUME NEW n \in Nat, NEW G, 0 \in G, \A k \in 1..n : k - 1 \in G => k \in G
  PROVE  \A k \in 0..n : k \in G
<1> DEFINE T == {k \in 0..n : k \notin G}
<1>1. SUFFICES ASSUME T # {} PROVE FALSE
  OBVIOUS
<1>2. IsFiniteSet(T) /\ \A x \in T : x \in Int
  <2>1. IsFiniteSet(0..n) /\ T \subseteq 0..n
    BY FS_Interval
  <2> QED
    BY <2>1, FS_Subset
<1>3. PICK k \in T : \A y \in T : k <= y
  <2> HIDE DEF T
  <2> QED
    BY <1>1, <1>2, Least
<1>4. k \in 1..n /\ k - 1 \in 0..n /\ k - 1 \notin T
  BY <1>3
<1> QED
  BY <1>4

\* Finitely many numbers.
Numbers(S) == IsFiniteSet(S) /\ \A x \in S : x \in Int

LEMMA SomeNumbers == ASSUME NEW S, Numbers(S), NEW s \in SUBSET S PROVE Numbers(s)
BY FS_Subset DEF Numbers

LEMMA GreatestNumber ==
  ASSUME NEW S, Numbers(S), S # {}
  PROVE  Max(S) \in S /\ \A y \in S : y <= Max(S)
<1>1. \E x \in S : \A y \in S : x >= y
  BY Greatest DEF Numbers
<1> QED
  BY <1>1 DEF Max, Numbers

LEMMA SmallestNumbers ==
  ASSUME NEW S, Numbers(S), NEW T \in SUBSET SUBSET S, T # {}
  PROVE  \E x \in T : \A y \in T : y \subseteq x => y = x
BY Smallest DEF Numbers

\* The function by which the library's fold runs through every subset of the trades.
StartCurve == [equity |-> Notional, peak |-> Notional, fall |-> 0]
RunsOver(p, S, h) ==
  h = [u \in SUBSET S |-> IF u = {} THEN StartCurve ELSE AfterTrade(h[u \ {Max(u)}], p[Max(u)])]

Among(s, S) == s \subseteq S

LEMMA CurveIsChosen ==
  ASSUME NEW p PROVE Curve(p) = (CHOOSE h : RunsOver(p, DOMAIN p, h))[DOMAIN p]
BY DEF Curve, FoldLeft, MapThenFoldSet, RunsOver, StartCurve

\* What h gives for s, from what it gives for a part of s.
RunsNone(h, s) == h[s] = StartCurve
RunsNext(p, h, s) == h[s] = AfterTrade(h[s \ {Max(s)}], p[Max(s)])

LEMMA RunsBy ==
  \A p, S, h, s : RunsOver(p, S, h) /\ Among(s, S) => (s = {} => RunsNone(h, s)) /\ (s # {} => RunsNext(p, h, s))
<1> SUFFICES ASSUME NEW p, NEW S, NEW h, RunsOver(p, S, h), NEW s \in SUBSET S
             PROVE  (s = {} => RunsNone(h, s)) /\ (s # {} => RunsNext(p, h, s))
  BY DEF Among
<1>1. h[s] = IF s = {} THEN StartCurve ELSE AfterTrade(h[s \ {Max(s)}], p[Max(s)])
  BY DEF RunsOver
<1> QED
  BY <1>1 DEF RunsNone, RunsNext

LEMMA RunsOnce ==
  ASSUME NEW S, Numbers(S), NEW p, NEW g, NEW h, NEW U \in SUBSET S,
         RunsOver(p, S, g), RunsOver(p, U, h),
         NEW u \in SUBSET U
  PROVE  g[u] = h[u]
<1> DEFINE T == {s \in SUBSET U : g[s] # h[s]}
<1>1. SUFFICES ASSUME T # {} PROVE FALSE
  OBVIOUS
<1>2. PICK s \in T : \A y \in T : y \subseteq s => y = s
  <2>1. T \in SUBSET SUBSET U
    OBVIOUS
  <2>2. Numbers(U)
    BY SomeNumbers
  <2> HIDE DEF T
  <2> QED
    BY <1>1, <2>1, <2>2, SmallestNumbers
<1>3. s # {}
  <2>1. ASSUME s = {} PROVE FALSE
    <3>1. RunsOver(p, S, g) /\ RunsOver(p, U, h) /\ Among(s, S) /\ Among(s, U)
      BY DEF Among
    <3>2. RunsNone(g, s) /\ RunsNone(h, s)
      BY ONLY <2>1, <3>1, RunsBy
    <3> QED
      BY <1>2, <3>2 DEF RunsNone
  <2> QED
    BY <2>1
<1>4. s \ {Max(s)} \subseteq s /\ s \ {Max(s)} # s /\ s \ {Max(s)} \in SUBSET U
  <2>1. s \in SUBSET U /\ Numbers(s)
    BY SomeNumbers
  <2>2. Max(s) \in s
    BY <1>3, <2>1, GreatestNumber
  <2> QED
    BY <2>1, <2>2
<1>5. g[s \ {Max(s)}] = h[s \ {Max(s)}]
  BY <1>2, <1>4
<1>6. s \in SUBSET S /\ s \in SUBSET U
  OBVIOUS
<1>7. RunsOver(p, S, g) /\ RunsOver(p, U, h) /\ Among(s, S) /\ Among(s, U) /\ s # {}
  BY <1>3, <1>6 DEF Among
<1>8. RunsNext(p, g, s) /\ RunsNext(p, h, s)
  BY ONLY <1>7, RunsBy
<1> QED
  BY <1>2, <1>5, <1>8 DEF RunsNext

LEMMA RunsIs ==
  ASSUME NEW S, Numbers(S), NEW p
  PROVE  \E h : RunsOver(p, S, h)
<1> DEFINE T == {s \in SUBSET S : ~\E h : RunsOver(p, s, h)}
<1>1. SUFFICES ASSUME T # {} PROVE FALSE
  OBVIOUS
<1>2. PICK s \in T : \A y \in T : y \subseteq s => y = s
  <2>1. T \in SUBSET SUBSET S
    OBVIOUS
  <2>2. Numbers(S)
    BY SomeNumbers
  <2> HIDE DEF T
  <2> QED
    BY <1>1, <2>1, <2>2, SmallestNumbers
<1>3. \A u \in SUBSET s : u # s => \E h : RunsOver(p, u, h)
  BY <1>2
<1> DEFINE Of(u) == CHOOSE h : RunsOver(p, u, h)
<1>4. \A u \in SUBSET s : u # s => RunsOver(p, u, Of(u))
  BY <1>3
<1>5. \A u \in SUBSET s : \A w \in SUBSET u : u # s => Of(u)[w] = Of(w)[w]
  <2> TAKE u \in SUBSET s
  <2> TAKE w \in SUBSET u
  <2> HAVE u # s
  <2>1. w # s /\ w \in SUBSET s /\ Numbers(u)
    BY <1>2, SomeNumbers
  <2>2. RunsOver(p, u, Of(u)) /\ RunsOver(p, w, Of(w))
    BY <1>4, <2>1
  <2> HIDE DEF Of
  <2> QED
    BY <2>1, <2>2, RunsOnce
<1> DEFINE h == [u \in SUBSET s |-> IF u = {} THEN StartCurve ELSE AfterTrade(Of(u \ {Max(u)})[u \ {Max(u)}], p[Max(u)])]
<1>6. \A u \in SUBSET s : u # s => h[u] = Of(u)[u]
  <2> TAKE u \in SUBSET s
  <2> HAVE u # s
  <2>1. RunsOver(p, u, Of(u)) /\ u \in SUBSET u
    BY <1>4
  <2>2. Of(u)[u] = IF u = {} THEN StartCurve ELSE AfterTrade(Of(u)[u \ {Max(u)}], p[Max(u)])
    <3> HIDE DEF Of
    <3>1. RunsOver(p, u, Of(u)) /\ Among(u, u)
      BY <2>1 DEF Among
    <3>2. (u = {} => RunsNone(Of(u), u)) /\ (u # {} => RunsNext(p, Of(u), u))
      BY ONLY <3>1, RunsBy
    <3> QED
      BY <3>2 DEF RunsNone, RunsNext
  <2>3. Of(u)[u \ {Max(u)}] = Of(u \ {Max(u)})[u \ {Max(u)}]
    <3> HIDE DEF Of
    <3> QED
      BY <1>5
  <2> HIDE DEF Of
  <2> QED
    BY <2>2, <2>3
<1>7. \A u \in SUBSET s : u # {} => h[u] = AfterTrade(h[u \ {Max(u)}], p[Max(u)])
  <2> TAKE u \in SUBSET s
  <2> HAVE u # {}
  <2>1. u \ {Max(u)} \in SUBSET s /\ u \ {Max(u)} # s
    <3>1. Numbers(u)
      BY <1>2, SomeNumbers
    <3>2. Max(u) \in u
      BY <3>1, GreatestNumber
    <3> QED
      BY <3>2
  <2>2. h[u \ {Max(u)}] = Of(u \ {Max(u)})[u \ {Max(u)}]
    BY <1>6, <2>1
  <2> QED
    BY <2>2
<1>8. RunsOver(p, s, h)
  <2>1. \A u \in SUBSET s : h[u] = IF u = {} THEN StartCurve ELSE AfterTrade(h[u \ {Max(u)}], p[Max(u)])
    <3> TAKE u \in SUBSET s
    <3>1. CASE u = {}
      BY <3>1
    <3>2. CASE u # {}
      <4> HIDE DEF h
      <4> QED
        BY <1>7, <3>2
    <3> QED
      BY <3>1, <3>2
  <2>2. h = [u \in SUBSET s |-> h[u]]
    OBVIOUS
  <2> HIDE DEF h
  <2> QED
    BY <2>1, <2>2 DEF RunsOver
<1> QED
  BY <1>2, <1>8

\* The curve after each trade.
Course(p, c) ==
  /\ c[0] = StartCurve
  /\ \A k \in 1..Len(p) : c[k] = AfterTrade(c[k - 1], p[k])

LEMMA CurveRuns ==
  ASSUME NEW p \in Seq(Int) PROVE \E c : Course(p, c) /\ Curve(p) = c[Len(p)]
<1> DEFINE S == DOMAIN p
           h == CHOOSE r : RunsOver(p, S, r)
           c == [k \in 0..Len(p) |-> h[1..k]]
<1>1. S = 1..Len(p) /\ Len(p) \in Nat
  OBVIOUS
<1>2. Numbers(S)
  BY <1>1, FS_Interval DEF Numbers
<1>3. RunsOver(p, S, h)
  <2> HIDE DEF S
  <2> QED
    BY <1>2, RunsIs
<1>4. Curve(p) = h[S]
  BY CurveIsChosen
<1> HIDE DEF h
<1>5. c[0] = StartCurve
  <2>1. 1..0 = {} /\ Among(1..0, S) /\ c[0] = h[1..0]
    BY <1>1 DEF Among
  <2>2. RunsNone(h, 1..0)
    BY ONLY <1>3, <2>1, RunsBy
  <2> QED
    BY <2>1, <2>2 DEF RunsNone
<1>6. ASSUME NEW k \in 1..Len(p) PROVE c[k] = AfterTrade(c[k - 1], p[k])
  <2> DEFINE u == 1..k
  <2>1. u # {} /\ Among(u, S) /\ k \in u /\ (\A y \in u : y \in Int /\ y <= k) /\ u \in SUBSET S
    BY <1>1 DEF Among
  <2>2. Numbers(u)
    BY <1>2, <2>1, SomeNumbers
  <2>3. Max(u) = k
    <3>1. Max(u) \in u /\ \A y \in u : y <= Max(u)
      <4> HIDE DEF u
      <4> QED
        BY <2>1, <2>2, GreatestNumber
    <3> DEFINE m == Max(u)
    <3>2. m \in Int /\ m <= k /\ k <= m
      BY <2>1, <3>1
    <3> HIDE DEF m
    <3>3. m = k
      BY <3>2
    <3> QED
      BY <3>3 DEF m
  <2>4. RunsNext(p, h, u)
    <3> HIDE DEF u, S
    <3> QED
      BY ONLY <1>3, <2>1, RunsBy
  <2>5. u \ {k} = 1..(k - 1)
    OBVIOUS
  <2>6. c[k] = h[u] /\ c[k - 1] = h[1..(k - 1)]
    OBVIOUS
  <2> HIDE DEF u, c
  <2> QED
    BY <2>3, <2>4, <2>5, <2>6 DEF RunsNext
<1>7. Curve(p) = c[Len(p)]
  BY <1>1, <1>4
<1> HIDE DEF c
<1> QED
  BY <1>5, <1>6, <1>7 DEF Course

\* The equity of the curve is the capital and the profits so far.
Grows(p, e) == e = [n \in 0..Len(p) |-> IF n = 0 THEN Notional ELSE e[n - 1] + p[n]]

LEMMA EquityIsChosen == ASSUME NEW p PROVE Equity(p) = CHOOSE e : Grows(p, e)
BY DEF Equity, Grows

LEMMA EquityAfter == \A x, y : AfterTrade(x, y).equity = x.equity + y
BY DEF AfterTrade

LEMMA EquityOfCourse ==
  ASSUME NEW p \in Seq(Int), NEW c, Course(p, c)
  PROVE  Equity(p) = [k \in 0..Len(p) |-> c[k].equity]
<1> DEFINE n == Len(p)
           d == [k \in 0..n |-> c[k].equity]
           e == CHOOSE e : Grows(p, e)
<1>1. n \in Nat
  OBVIOUS
<1>2. d[0] = Notional /\ \A k \in 1..n : d[k] = d[k - 1] + p[k]
  <2>1. d[0] = Notional
    BY DEF Course, StartCurve
  <2>2. ASSUME NEW k \in 1..n PROVE d[k] = d[k - 1] + p[k]
    <3>1. c[k].equity = c[k - 1].equity + p[k]
      <4>1. c[k] = AfterTrade(c[k - 1], p[k])
        BY DEF Course
      <4> QED
        BY <4>1, EquityAfter
    <3>2. k \in 0..n /\ k - 1 \in 0..n
      OBVIOUS
    <3> QED
      BY <3>1, <3>2
  <2> QED
    BY <2>1, <2>2
<1>3. Grows(p, d)
  <2>1. \A k \in 0..n : d[k] = IF k = 0 THEN Notional ELSE d[k - 1] + p[k]
    <3> HIDE DEF d
    <3> TAKE k \in 0..n
    <3>1. k = 0 \/ k \in 1..n
      BY <1>1
    <3> QED
      BY <1>2, <3>1
  <2>2. d = [k \in 0..n |-> d[k]]
    OBVIOUS
  <2> HIDE DEF d
  <2>3. d = [k \in 0..n |-> IF k = 0 THEN Notional ELSE d[k - 1] + p[k]]
    BY <2>1, <2>2
  <2> QED
    BY <2>3 DEF Grows
<1>4. Grows(p, e)
  <2> HIDE DEF d
  <2> QED
    BY <1>3
<1>5. e[0] = Notional /\ (\A k \in 1..n : e[k] = e[k - 1] + p[k]) /\ e = [k \in 0..n |-> e[k]]
  <2> HIDE DEF e
  <2> QED
    BY <1>1, <1>4 DEF Grows
<1>6. \A k \in 0..n : k \in {j \in 0..n : e[j] = d[j]}
  <2> DEFINE G == {j \in 0..n : e[j] = d[j]}
  <2> HIDE DEF d, e
  <2>1. 0 \in G
    BY <1>1, <1>2, <1>5
  <2>2. \A k \in 1..n : k - 1 \in G => k \in G
    <3> TAKE k \in 1..n
    <3> HAVE k - 1 \in G
    <3>1. k \in 0..n /\ e[k - 1] = d[k - 1]
      BY <1>1
    <3>2. e[k] = e[k - 1] + p[k] /\ d[k] = d[k - 1] + p[k]
      BY <1>2, <1>5
    <3> QED
      BY <3>1, <3>2
  <2> HIDE DEF n, G
  <2>3. \A k \in 0..n : k \in G
    BY <1>1, <2>1, <2>2, Climb
  <2> QED
    BY <2>3 DEF G
<1>7. e = d
  <2>1. d = [k \in 0..n |-> d[k]]
    OBVIOUS
  <2> HIDE DEF d, e
  <2> QED
    BY <1>5, <1>6, <2>1
<1> QED
  BY <1>7, EquityIsChosen

LEMMA LargerOfTwo ==
  ASSUME NEW a \in Int, NEW b \in Int
  PROVE  Max({a, b}) \in {a, b} /\ Max({a, b}) >= a /\ Max({a, b}) >= b
<1>1. \E x \in {a, b} : \A y \in {a, b} : x >= y
  <2>1. CASE a >= b
    BY <2>1
  <2>2. CASE b >= a
    BY <2>2
  <2> QED
    BY <2>1, <2>2
<1> QED
  BY <1>1 DEF Max

LEMMA PercentType == ASSUME NEW part \in Int, NEW whole \in Int, whole > 0 PROVE Percent(part, whole) \in Int
<1> DEFINE a == 2 * 10000 * part + whole
           b == 2 * whole
<1>1. a \in Int /\ b \in Int /\ b > 0
  OBVIOUS
<1> HIDE DEF a, b
<1>2. a \div b \in Int
  BY <1>1
<1> QED
  BY <1>2 DEF Percent, a, b

\* A high of the first j trades and the fall from it, as the reference has them.
High(c, i, j) == i <= j /\ \A k \in 0..j : c[k].equity <= c[i].equity
Fall(c, i, j) == Percent(c[i].equity - c[j].equity, c[i].equity)

CurveType == [equity : Int, peak : Int, fall : Int]

\* The loop's figures after k trades: the highest equity so far and the worst fall from a high.
Peaked(c, k) == (\E i \in 0..k : c[i].equity = c[k].peak) /\ \A i \in 0..k : c[i].equity <= c[k].peak
Fallen(c, k) ==
  /\ \E i, j \in 0..k : High(c, i, j) /\ Fall(c, i, j) = c[k].fall
  /\ \A i, j \in 0..k : High(c, i, j) => Fall(c, i, j) <= c[k].fall
Drawn(c, k) == c[k] \in CurveType /\ c[k].peak >= Notional /\ Peaked(c, k) /\ Fallen(c, k)

LEMMA NothingDrawn == ASSUME NEW c, c[0] = StartCurve PROVE Drawn(c, 0)
<1>1. c[0] \in CurveType /\ c[0].equity = 10000 /\ c[0].peak = 10000 /\ c[0].fall = 0
  BY DEF StartCurve, CurveType, Notional
<1>2. \A i \in 0..0 : i = 0
  OBVIOUS
<1>3. High(c, 0, 0)
  BY <1>1, <1>2 DEF High
<1>4. Fall(c, 0, 0) = 0
  BY <1>1 DEF Fall, Percent
<1> QED
  BY <1>1, <1>2, <1>3, <1>4 DEF Drawn, Peaked, Fallen, Notional

LEMMA FieldsAfter ==
  ASSUME NEW x \in CurveType, NEW y \in Int, x.peak >= Notional, NEW z, z = AfterTrade(x, y)
  PROVE  /\ z \in CurveType /\ z.peak >= Notional
         /\ z.equity = x.equity + y
         /\ z.peak \in {x.peak, z.equity} /\ z.peak >= x.peak /\ z.peak >= z.equity
         /\ LET f == Percent(z.peak - z.equity, z.peak)
            IN  f \in Int /\ z.fall \in {x.fall, f} /\ z.fall >= x.fall /\ z.fall >= f
<1> DEFINE e == x.equity + y
           q == Max({x.peak, e})
           f == Percent(q - e, q)
           g == Max({x.fall, f})
<1>1. x.equity \in Int /\ x.peak \in Int /\ x.fall \in Int
  BY DEF CurveType
<1>2. e \in Int
  BY <1>1
<1>3. q \in {x.peak, e} /\ q >= x.peak /\ q >= e
  <2> HIDE DEF e
  <2> QED
    BY <1>1, <1>2, LargerOfTwo
<1>4. q \in Int /\ q >= Notional /\ q > 0
  <2> HIDE DEF q, e
  <2> QED
    BY <1>1, <1>2, <1>3 DEF Notional
<1>5. f \in Int
  <2> HIDE DEF q, e
  <2> QED
    BY <1>2, <1>4, PercentType
<1>6. g \in {x.fall, f} /\ g >= x.fall /\ g >= f
  <2> HIDE DEF f
  <2> QED
    BY <1>1, <1>5, LargerOfTwo
<1>7. g \in Int
  <2> HIDE DEF f, g
  <2> QED
    BY <1>1, <1>5, <1>6
<1>8. z = [equity |-> e, peak |-> q, fall |-> g]
  BY DEF AfterTrade
<1> HIDE DEF e, q, f, g
<1>9. z.equity = e /\ z.peak = q /\ z.fall = g /\ z \in CurveType
  BY <1>2, <1>4, <1>7, <1>8 DEF CurveType
<1>10. e = x.equity + y /\ f = Percent(q - e, q)
  BY DEF e, f
<1> QED
  BY <1>3, <1>4, <1>5, <1>6, <1>9, <1>10

LEMMA DrawnOnward ==
  ASSUME NEW c, NEW k \in Nat, k > 0, NEW y \in Int, c[k] = AfterTrade(c[k - 1], y), Drawn(c, k - 1),
         c[0] = StartCurve, \A i \in 0..(k - 1) : c[i].equity \in Int
  PROVE  Drawn(c, k)
<1> DEFINE x == c[k - 1]
           z == c[k]
           f == Percent(z.peak - z.equity, z.peak)
<1>1. x \in CurveType /\ x.peak >= Notional /\ Peaked(c, k - 1) /\ Fallen(c, k - 1)
  BY DEF Drawn
<1>2. /\ z \in CurveType /\ z.peak >= Notional
      /\ z.peak \in {x.peak, z.equity} /\ z.peak >= x.peak /\ z.peak >= z.equity
      /\ f \in Int /\ z.fall \in {x.fall, f} /\ z.fall >= x.fall /\ z.fall >= f
  <2> HIDE DEF x, z
  <2>1. z = AfterTrade(x, y)
    BY DEF x, z
  <2> QED
    BY <1>1, <2>1, FieldsAfter DEF f
<1>3. x.peak \in Int /\ x.fall \in Int /\ z.peak \in Int /\ z.equity \in Int /\ z.fall \in Int
  <2> HIDE DEF x, z
  <2> QED
    BY <1>1, <1>2 DEF CurveType
<1>4. \A i \in 0..k : i \in 0..(k - 1) \/ i = k
  OBVIOUS
<1>5. (\A i \in 0..(k - 1) : i \in 0..k) /\ k \in 0..k
  OBVIOUS
<1>6. Peaked(c, k)
  <2>1. \A i \in 0..k : c[i].equity <= z.peak
    <3> TAKE i \in 0..k
    <3>1. CASE i = k
      BY <1>2, <3>1
    <3>2. CASE i \in 0..(k - 1)
      <4>1. c[i].equity <= x.peak /\ c[i].equity \in Int
        BY <1>1, <3>2 DEF Peaked
      <4> HIDE DEF x, z
      <4> QED
        BY <1>2, <1>3, <4>1
    <3> QED
      BY <1>4, <3>1, <3>2
  <2>2. \E i \in 0..k : c[i].equity = z.peak
    <3>1. CASE z.peak = z.equity
      BY <1>5, <3>1
    <3>2. CASE z.peak = x.peak
      BY <1>1, <1>5, <3>2 DEF Peaked
    <3> QED
      BY <1>2, <3>1, <3>2
  <2> QED
    BY <2>1, <2>2 DEF Peaked
<1>7. \A i \in 0..k : High(c, i, k) => c[i].equity = z.peak
  <2> TAKE i \in 0..k
  <2> HAVE High(c, i, k)
  <2>1. PICK m \in 0..k : c[m].equity = z.peak
    BY <1>6 DEF Peaked
  <2>2. c[i].equity <= z.peak /\ z.peak <= c[i].equity
    BY <1>6, <2>1 DEF Peaked, High
  <2>3. c[i].equity \in Int
    BY <1>3, <1>4
  <2> HIDE DEF x, z
  <2> QED
    BY <1>3, <2>2, <2>3
<1>8. \A i \in 0..k : High(c, i, k) => Fall(c, i, k) = f
  <2> HIDE DEF f
  <2> QED
    BY <1>7 DEF Fall, f
<1>9. \A i, j \in 0..k : High(c, i, j) => Fall(c, i, j) <= z.fall
  <2> TAKE i, j \in 0..k
  <2> HAVE High(c, i, j)
  <2>1. CASE j = k
    <3> HIDE DEF z, f
    <3> QED
      BY <1>2, <1>8, <2>1
  <2>2. CASE j \in 0..(k - 1)
    <3>1. i \in 0..(k - 1)
      BY <2>2 DEF High
    <3>2. Fall(c, i, j) <= x.fall
      BY <1>1, <2>2, <3>1 DEF Fallen
    <3>3. Fall(c, i, j) \in Int
      <4>1. c[i].equity \in Int /\ c[j].equity \in Int
        BY <2>2, <3>1
      <4>2. c[i].equity >= Notional
        <5>1. c[0].equity <= c[i].equity
          BY <2>2 DEF High
        <5>2. c[0].equity = Notional
          BY DEF StartCurve
        <5> QED
          BY <5>1, <5>2
      <4>3. c[i].equity > 0
        BY <4>1, <4>2 DEF Notional
      <4> QED
        BY <4>1, <4>3, PercentType DEF Fall
    <3> HIDE DEF x, z, f
    <3> QED
      BY <1>2, <1>3, <3>2, <3>3
  <2> QED
    BY <1>4, <2>1, <2>2
<1>10. \E i, j \in 0..k : High(c, i, j) /\ Fall(c, i, j) = z.fall
  <2>1. CASE z.fall = f
    <3>1. PICK i \in 0..k : c[i].equity = z.peak
      BY <1>6 DEF Peaked
    <3>2. High(c, i, k)
      BY <1>6, <3>1 DEF Peaked, High
    <3> QED
      BY <1>5, <1>8, <2>1, <3>2
  <2>2. CASE z.fall = x.fall
    BY <1>1, <1>5, <2>2 DEF Fallen
  <2> QED
    BY <1>2, <2>1, <2>2
<1> HIDE DEF f
<1> QED
  BY <1>2, <1>6, <1>9, <1>10 DEF Drawn, Fallen

LEMMA CourseDrawn ==
  ASSUME NEW p \in Seq(Int), NEW c, Course(p, c)
  PROVE  \A k \in 0..Len(p) : Drawn(c, k)
<1> DEFINE n == Len(p)
           G == {k \in 0..n : \A i \in 0..k : Drawn(c, i)}
<1>1. n \in Nat
  OBVIOUS
<1> HIDE DEF n
<1>2. 0 \in G
  <2>1. Drawn(c, 0)
    BY NothingDrawn DEF Course
  <2>2. \A i \in 0..0 : i = 0
    OBVIOUS
  <2> QED
    BY <1>1, <2>1, <2>2
<1>3. \A k \in 1..n : k - 1 \in G => k \in G
  <2> TAKE k \in 1..n
  <2> HAVE k - 1 \in G
  <2>1. k \in Nat /\ k > 0 /\ k \in 0..n /\ k - 1 \in 0..(k - 1)
    BY <1>1
  <2>2. \A i \in 0..(k - 1) : Drawn(c, i)
    OBVIOUS
  <2>3. c[k] = AfterTrade(c[k - 1], p[k]) /\ p[k] \in Int /\ c[0] = StartCurve
    BY DEF Course, n
  <2>4. \A i \in 0..(k - 1) : c[i].equity \in Int
    BY <2>2 DEF Drawn, CurveType
  <2> HIDE DEF G
  <2>5. Drawn(c, k - 1)
    BY <2>1, <2>2
  <2>6. Drawn(c, k)
    BY <2>1, <2>3, <2>4, <2>5, DrawnOnward
  <2>7. \A i \in 0..k : i \in 0..(k - 1) \/ i = k
    BY <2>1
  <2> QED
    BY <2>1, <2>2, <2>6, <2>7 DEF G
<1> HIDE DEF G
<1>4. \A k \in 0..n : k \in G
  BY <1>1, <1>2, <1>3, Climb
<1> QED
  BY <1>1, <1>4 DEF G, n

\* The drawdown of any sequence of profits is its worst fall from a high.
LEMMA DrawdownOf == ASSUME NEW p \in Seq(Int) PROVE MaxDrawdown(p) = WorstFall(p)
<1> DEFINE n == Len(p)
           e == Equity(p)
           Of(f) == Percent(e[f[1]] - e[f[2]], e[f[1]])
           S == {Of(f) : f \in Falls(e)}
<1>1. PICK c : Course(p, c) /\ Curve(p) = c[n]
  BY CurveRuns
<1>2. n \in Nat /\ n \in 0..n
  OBVIOUS
<1>3. e = [k \in 0..n |-> c[k].equity]
  BY <1>1, EquityOfCourse
<1>4. Drawn(c, n)
  BY <1>1, <1>2, CourseDrawn
<1> HIDE DEF n, e
<1>5. DOMAIN e = 0..n /\ \A k \in 0..n : e[k] = c[k].equity
  BY <1>3
<1>6. ASSUME NEW i \in 0..n, NEW j \in 0..n PROVE <<i, j>> \in Falls(e) <=> High(c, i, j)
  <2>1. \A k \in 0..j : k \in 0..n
    BY <1>2
  <2> QED
    BY <1>5, <2>1 DEF Falls, High
<1>7. ASSUME NEW i \in 0..n, NEW j \in 0..n PROVE Of(<<i, j>>) = Fall(c, i, j)
  BY <1>5 DEF Fall
<1>8. \A x \in S : x <= c[n].fall
  <2> TAKE x \in S
  <2>1. PICK f \in Falls(e) : x = Of(f)
    OBVIOUS
  <2>2. PICK i \in 0..n, j \in 0..n : f = <<i, j>>
    BY <1>5 DEF Falls
  <2> HIDE DEF Of
  <2>3. High(c, i, j) /\ x = Fall(c, i, j)
    BY <1>6, <1>7, <2>1, <2>2
  <2> QED
    BY <1>4, <2>3 DEF Drawn, Fallen
<1>9. c[n].fall \in S
  <2>1. PICK i \in 0..n, j \in 0..n : High(c, i, j) /\ Fall(c, i, j) = c[n].fall
    BY <1>4 DEF Drawn, Fallen
  <2> HIDE DEF Of
  <2>2. <<i, j>> \in Falls(e) /\ Of(<<i, j>>) = c[n].fall
    BY <1>6, <1>7, <2>1
  <2> QED
    BY <2>2
<1>10. c[n].fall \in Int
  BY <1>4 DEF Drawn, CurveType
<1>11. \A x \in S : x >= c[n].fall => x = c[n].fall
  <2> TAKE x \in S
  <2> HAVE x >= c[n].fall
  <2>1. PICK f \in Falls(e) : x = Of(f)
    OBVIOUS
  <2>2. PICK i \in 0..n, j \in 0..n : f = <<i, j>>
    BY <1>5 DEF Falls
  <2>3. x = Fall(c, i, j) /\ High(c, i, j)
    <3> HIDE DEF Of
    <3> QED
      BY <1>6, <1>7, <2>1, <2>2
  <2>4. c[i].equity \in Int /\ c[j].equity \in Int /\ c[i].equity > 0
    <3>1. Drawn(c, i) /\ Drawn(c, j)
      BY <1>1, CourseDrawn DEF n
    <3>2. c[0].equity <= c[i].equity /\ c[0].equity = Notional
      <4>1. 0 \in 0..j
        BY <1>2
      <4> QED
        BY <1>1, <2>3, <4>1 DEF Course, StartCurve, High
    <3>3. c[i].equity \in Int /\ c[j].equity \in Int
      BY <3>1 DEF Drawn, CurveType
    <3> QED
      BY <3>2, <3>3 DEF Notional
  <2>5. x \in Int
    <3> DEFINE a == c[i].equity - c[j].equity
               b == c[i].equity
    <3>1. a \in Int /\ b \in Int /\ b > 0 /\ x = Percent(a, b)
      BY <2>3, <2>4 DEF Fall
    <3> HIDE DEF a, b
    <3> QED
      BY <3>1, PercentType
  <2>6. x <= c[n].fall
    BY <1>8
  <2> HIDE DEF S
  <2> QED
    BY <1>10, <2>5, <2>6
<1> HIDE DEF S
<1>12. Max(S) = c[n].fall
  <2> DEFINE v == c[n].fall
  <2>1. v \in S /\ (\A x \in S : x <= v) /\ (\A x \in S : x >= v => x = v) /\ v \in Int
    BY <1>8, <1>9, <1>10, <1>11
  <2> HIDE DEF v
  <2>2. \A x \in S : v >= x
    <3> TAKE x \in S
    <3> QED
      BY <2>1
  <2> QED
    BY <2>1, <2>2 DEF Max, v
<1>13. WorstFall(p) = Max(S)
  BY DEF WorstFall, S, e
<1> QED
  BY <1>1, <1>12, <1>13 DEF MaxDrawdown

\* A loss of no more than the capital is a fall from the beginning, or from higher.
LEMMA LossInPercent ==
  ASSUME NEW l \in Int, 0 < l, l <= Notional, NEW peak \in Int, peak >= Notional
  PROVE  Percent(peak - (Notional - l), peak) >= l
<1> DEFINE q == Percent(peak - (Notional - l), peak)
           a == 2 * 10000 * (peak - (10000 - l)) + peak
           b == 2 * peak
<1>1. a \in Int /\ b \in Int /\ b > 0 /\ q = a \div b
  BY DEF Percent, Notional
<1>2. b * l <= a
  <2> DEFINE m == peak - 10000
  <2>1. m \in Nat /\ peak = m + 10000 /\ 10000 - l \in Nat
    BY DEF Notional
  <2>2. m * (10000 - l) \in Nat
    <3> DEFINE r == 10000 - l
    <3>1. r \in Nat /\ m \in Nat
      BY <2>1
    <3> HIDE DEF r, m
    <3>2. m * r \in Nat
      BY <3>1
    <3> QED
      BY <3>2 DEF r
  <2> HIDE DEF m
  <2>3. m * (10000 - l) = 10000 * m - m * l
    BY <2>1
  <2>4. b * l = 2 * (m * l) + 20000 * l
    BY <2>1
  <2>5. a = 20000 * m + 20000 * l + m + 10000
    BY <2>1
  <2>6. m * l \in Int
    BY <2>1
  <2> QED
    BY <2>1, <2>2, <2>3, <2>4, <2>5, <2>6
<1> HIDE DEF a, b, q
<1>3. \A x \in Int : b * x <= a => x <= a \div b
  <2> DEFINE r == a \div b
             s == a % b
  <2>1. r \in Int /\ s \in Int /\ s < b /\ a = b * r + s
    BY <1>1
  <2> HIDE DEF r, s
  <2> TAKE x \in Int
  <2> HAVE b * x <= a
  <2>2. b * x < b * (r + 1)
    <3>1. b * (r + 1) = b * r + b /\ b * r \in Int /\ b * x \in Int
      BY <1>1, <2>1
    <3> QED
      BY <1>1, <2>1, <3>1
  <2>3. ASSUME x >= r + 1 PROVE FALSE
    <3> DEFINE d == x - (r + 1)
    <3>1. d \in Nat /\ x = r + 1 + d /\ b \in Nat
      BY <1>1, <2>1, <2>3
    <3> HIDE DEF d
    <3>2. b * d \in Nat /\ b * x = b * (r + 1) + b * d /\ b * (r + 1) \in Int
      BY <1>1, <2>1, <3>1
    <3> QED
      BY <2>2, <3>2
  <2> QED
    BY <2>1, <2>3 DEF r
<1> QED
  BY <1>1, <1>2, <1>3 DEF q

LEMMA LossDraws ==
  ASSUME NEW p \in Seq(Int), TotalReturn(p) < 0, TotalReturn(p) >= -Notional
  PROVE  MaxDrawdown(p) >= -TotalReturn(p)
<1> DEFINE n == Len(p)
<1>1. PICK c : Course(p, c) /\ Curve(p) = c[n]
  BY CurveRuns
<1>2. n \in Nat
  OBVIOUS
<1> DEFINE l == -TotalReturn(p)
           x == c[n - 1]
           z == c[n]
           f == Percent(z.peak - z.equity, z.peak)
<1>3. Drawn(c, n) /\ z \in CurveType
  BY <1>1, CourseDrawn DEF Drawn
<1>4. z.equity \in Int /\ l = Notional - z.equity
  <2>1. z.equity \in Int
    BY <1>3 DEF CurveType
  <2> QED
    BY <1>1, <2>1 DEF TotalReturn, Notional
<1>5. l \in Int /\ 0 < l /\ l <= Notional /\ z.equity = Notional - l
  BY <1>1, <1>4 DEF TotalReturn, Notional
<1>6. n # 0
  <2>1. ASSUME n = 0 PROVE FALSE
    <3>1. z.equity = Notional
      BY <1>1, <2>1 DEF Course, StartCurve
    <3> QED
      BY <1>5, <3>1 DEF Notional
  <2> QED
    BY <2>1
<1>7. n \in 1..n /\ n - 1 \in 0..n
  BY <1>2, <1>6
<1>8. z = AfterTrade(x, p[n]) /\ p[n] \in Int
  BY <1>1, <1>7 DEF Course
<1>9. x \in CurveType /\ x.peak >= Notional
  BY <1>1, <1>7, CourseDrawn DEF Drawn
<1>10. z.fall >= f /\ f \in Int /\ z.peak >= Notional /\ z.peak \in Int /\ z.fall \in Int
  <2> HIDE DEF x, z
  <2> QED
    BY <1>3, <1>8, <1>9, FieldsAfter DEF f, CurveType
<1>11. f >= l
  <2> DEFINE q == z.peak
  <2>1. q \in Int /\ q >= Notional /\ f = Percent(q - (Notional - l), q)
    BY <1>5, <1>10
  <2> HIDE DEF f, q, l
  <2> QED
    BY <1>5, <2>1, LossInPercent
<1>12. MaxDrawdown(p) = z.fall
  BY <1>1 DEF MaxDrawdown
<1> HIDE DEF f, l, z
<1>13. z.fall >= l
  BY <1>5, <1>10, <1>11
<1> QED
  BY <1>12, <1>13 DEF l

\* A win rate of a hundred percent is no trade lost, of fewer than twenty thousand: of more,
\* a single loss is rounded away.
LEMMA AllWon ==
  ASSUME NEW p \in Seq(Int), p # << >>, Len(p) < 20000, WinRate(p) = 10000
  PROVE  \A k \in 1..Len(p) : p[k] > 0
<1> DEFINE n == Len(p)
           W == {i \in DOMAIN p : p[i] > 0}
           w == Cardinality(W)
<1>1. n \in Nat /\ n > 0 /\ DOMAIN p = 1..n
  <2>1. n \in Nat /\ DOMAIN p = 1..n
    OBVIOUS
  <2>2. n # 0
    BY EmptySeq
  <2> QED
    BY <2>1, <2>2
<1>2. IsFiniteSet(1..n) /\ Cardinality(1..n) = n /\ W \subseteq 1..n
  <2>1. W \subseteq 1..n
    BY <1>1
  <2> HIDE DEF W, w, n
  <2> QED
    BY <1>1, <2>1, FS_Interval
<1>3. IsFiniteSet(W) /\ w \in Nat /\ w <= n /\ (w = n => W = 1..n)
  <2> DEFINE I == 1..n
  <2>1. IsFiniteSet(I) /\ Cardinality(I) = n /\ W \subseteq I
    BY <1>2
  <2> HIDE DEF I, W
  <2>2. IsFiniteSet(W) /\ w <= n /\ (w = n => W = I)
    BY <2>1, FS_Subset
  <2>3. w \in Nat
    BY <2>2, FS_CardinalityType
  <2> QED
    BY <2>2, <2>3 DEF I
<1>4. (20000 * w + n) \div (2 * n) = 10000
  BY DEF WinRate, Percent
<1>5. n < 20000
  OBVIOUS
<1> HIDE DEF W, w, n
<1>6. w = n
  <2> DEFINE a == 20000 * w + n
             b == 2 * n
  <2>1. a \in Int /\ b \in Int /\ b > 0
    BY <1>1, <1>3
  <2>2. a \div b = 10000
    BY <1>4
  <2>3. 10000 * b <= a
    <3> HIDE DEF a, b
    <3>1. a = b * (a \div b) + (a % b) /\ (a % b) \in 0..(b - 1)
      BY <2>1
    <3> QED
      BY <2>1, <2>2, <3>1
  <2>4. 20000 * n <= 20000 * w + n
    BY <1>1, <1>3, <2>3
  <2> HIDE DEF a, b
  <2> QED
    BY <1>1, <1>3, <1>5, <2>4
<1> QED
  BY <1>3, <1>6 DEF W, n

LEMMA WinsOnly ==
  ASSUME NEW p \in Seq(Int), p # << >>, \A k \in 1..Len(p) : p[k] > 0
  PROVE  MaxDrawdown(p) = 0 /\ TotalReturn(p) > 0
<1> DEFINE n == Len(p)
<1>1. PICK c : Course(p, c) /\ Curve(p) = c[n]
  BY CurveRuns
<1>2. n \in Nat /\ n > 0
  <2>1. n \in Nat
    OBVIOUS
  <2>2. n # 0
    BY EmptySeq
  <2> QED
    BY <2>1, <2>2
<1> DEFINE Good(k) == /\ c[k] \in CurveType /\ c[k].equity = c[k].peak /\ c[k].fall = 0
                      /\ c[k].peak >= Notional /\ (k > 0 => c[k].equity > Notional)
           G == {k \in 0..n : Good(k)}
<1>3. \A k \in 1..n : c[k] = AfterTrade(c[k - 1], p[k]) /\ p[k] \in Int /\ p[k] > 0
  BY <1>1 DEF Course
<1> HIDE DEF n
<1>4. 0 \in G
  <2>1. c[0] = StartCurve
    BY <1>1 DEF Course
  <2> QED
    BY <1>2, <2>1 DEF StartCurve, CurveType, Notional
<1>5. \A k \in 1..n : k - 1 \in G => k \in G
  <2> TAKE k \in 1..n
  <2> HAVE k - 1 \in G
  <2> DEFINE x == c[k - 1]
             z == c[k]
             f == Percent(z.peak - z.equity, z.peak)
  <2>1. x \in CurveType /\ x.equity = x.peak /\ x.fall = 0 /\ x.peak >= Notional
    OBVIOUS
  <2>2. x.equity \in Int /\ x.peak \in Int
    <3> HIDE DEF x
    <3> QED
      BY <2>1 DEF CurveType
  <2>3. p[k] \in Int /\ p[k] > 0 /\ z = AfterTrade(x, p[k])
    BY <1>3
  <2>4. /\ z \in CurveType /\ z.peak >= Notional /\ z.equity = x.equity + p[k]
        /\ z.peak \in {x.peak, z.equity} /\ z.peak >= x.peak /\ z.peak >= z.equity
        /\ z.fall \in {x.fall, f}
    <3> HIDE DEF x, z
    <3> QED
      BY <2>1, <2>3, FieldsAfter DEF f
  <2>5. z.peak = z.equity /\ z.equity > Notional /\ z.peak \in Int
    <3> HIDE DEF x, z
    <3> QED
      BY <2>1, <2>2, <2>3, <2>4 DEF Notional
  <2>6. f = 0
    <3> DEFINE q == z.peak
    <3>1. q \in Int /\ q > 0
      BY <2>5 DEF Notional
    <3>2. z.peak - z.equity = 0
      BY <2>5
    <3>3. f = Percent(0, q)
      BY <3>2
    <3> HIDE DEF q, f, z
    <3>4. Percent(0, q) = 0
      <4>1. Percent(0, q) = q \div (2 * q)
        BY <3>1 DEF Percent
      <4>2. q \div (2 * q) = 0
        BY <3>1
      <4> QED
        BY <4>1, <4>2
    <3> QED
      BY <3>3, <3>4
  <2>7. z.fall = 0
    BY <2>1, <2>4, <2>6
  <2> HIDE DEF x, f
  <2> QED
    BY <1>2, <2>4, <2>5, <2>7
<1> HIDE DEF G
<1>6. n \in G
  <2>1. \A k \in 0..n : k \in G
    BY <1>2, <1>4, <1>5, Climb
  <2> QED
    BY <1>2, <2>1
<1>7. Good(n)
  BY <1>6 DEF G
<1> QED
  BY <1>1, <1>2, <1>7 DEF MaxDrawdown, TotalReturn, CurveType, Notional

LEMMA HistoriesAreSequences == \A p \in Histories : p \in Seq(Int) /\ Len(p) <= MaxTrades
<1> SUFFICES ASSUME NEW p \in Histories PROVE p \in Seq(Int) /\ Len(p) <= MaxTrades
  OBVIOUS
<1>1. PICK n \in 0..MaxTrades : p \in [1..n -> Profits]
  BY DEF Histories, BoundedSeq, SeqOf
<1>2. n \in Nat /\ n <= MaxTrades
  BY FiguresAssumption
<1>3. p \in [1..n -> Int]
  BY <1>1, FiguresAssumption
<1> QED
  BY <1>2, <1>3

\* Histories short enough that two decimals tell a single loss from none.
ShortHistories == MaxTrades < 20000

\* The drawdown the recount computes is the worst fall of the equity curve from a high, for
\* histories of any length and any profits (recomputeStrategyStats).
THEOREM DrawdownAlwaysWorstFall == Spec => []DrawdownIsWorstFall
<1>1. DrawdownIsWorstFall
  BY HistoriesAreSequences, DrawdownOf DEF DrawdownIsWorstFall, DrawdownIsRight
<1> QED
  BY <1>1, PTL

\* A strategy that shows a loss, up to the notional capital, shows a drawdown as large; one that shows a
\* perfect record has neither, if its history is short enough for two decimals to tell.
THEOREM LossAlwaysADrawdown == ASSUME ShortHistories PROVE Spec => []LossIsADrawdown
<1>1. LossHasDrawdown
  <2> SUFFICES ASSUME NEW p \in Histories
               PROVE  /\ TotalReturn(p) < 0 /\ TotalReturn(p) >= -Notional => MaxDrawdown(p) >= -TotalReturn(p)
                      /\ p # << >> /\ WinRate(p) = 10000 => MaxDrawdown(p) = 0 /\ TotalReturn(p) > 0
    BY DEF LossHasDrawdown
  <2>1. p \in Seq(Int) /\ Len(p) < 20000
    BY HistoriesAreSequences, FiguresAssumption DEF ShortHistories
  <2>2. TotalReturn(p) < 0 /\ TotalReturn(p) >= -Notional => MaxDrawdown(p) >= -TotalReturn(p)
    BY <2>1, LossDraws
  <2>3. p # << >> /\ WinRate(p) = 10000 => MaxDrawdown(p) = 0 /\ TotalReturn(p) > 0
    BY <2>1, AllWon, WinsOnly
  <2> QED
    BY <2>2, <2>3
<1>2. LossIsADrawdown
  BY <1>1 DEF LossIsADrawdown
<1> QED
  BY <1>2, PTL
=============================================================================
