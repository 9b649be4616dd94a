------------------------------- MODULE Market -------------------------------
(***************************************************************************)
(* Who may publish, what is published, who follows it, what they pay for   *)
(* the right to, and the counts and figures shown beside it.               *)
(*                                                                         *)
(* Requests of members and administrators run beside each other and beside *)
(* the recount the worker repeats; a request is the handler's database     *)
(* calls, one step each, and may die between two of them.  What a request  *)
(* carries is what a page of the platform lets its visitor send.           *)
(***************************************************************************)
EXTENDS FiniteSets, Statistics

CONSTANTS
  Applicants,  \* members who apply to publish
  Followers,   \* members who follow strategies, with one account each
  Admin,       \* an administrator
  Strategies,  \* the rows strategies may have, numbered, each with a code of its own
  None,        \* nobody, nothing
  Limit,       \* maxStrategies of each tier
  Outcomes,    \* what a checkout may answer
  Tabs,        \* bound: requests in flight at once
  MaxRequests, \* bound: requests
  MaxCrashes   \* bound: requests that die

Members == Applicants \cup Followers \cup {Admin}

ASSUME MarketAssumption ==
  /\ Strategies \subseteq Nat /\ {Tabs, MaxRequests, MaxCrashes} \subseteq Nat
  /\ {"FREE", "PRO"} \subseteq DOMAIN Limit /\ \A tier \in DOMAIN Limit : Limit[tier] \in Nat
  /\ Outcomes \subseteq {"PAID", "PENDING"}

VARIABLES
  profile,   \* ProviderProfile rows
  strategy,  \* Strategy rows
  gone,      \* strategies deleted: a row made later is another one, under another number
  keys,      \* strategies with a StrategyApiKey that is not revoked
  follows,   \* StrategySubscription rows: their copyStatus
  plan,      \* Subscription rows
  payments,  \* PaymentTransaction rows of each member, oldest first
  req,       \* the request in flight in each tab
  job,       \* the recount of the figures
  raced,     \* history: members and strategies two requests were about at once
  requests,  \* requests so far
  crashes    \* requests that died

rows == <<profile, strategy, gone, keys, follows, plan, payments>>
vars == <<rows, req, job, raced, requests, crashes>>

ProviderStatuses == {"PENDING", "APPROVED", "REJECTED", "SUSPENDED"}
StrategyStatuses == {"DRAFT", "ACTIVE", "PAUSED", "STOPPED"}
ProfileType == [status : ProviderStatuses, strategies : Int, subscribers : Nat]
StrategyType ==
  [owner : Applicants \cup {Admin}, status : StrategyStatuses, public : BOOLEAN,
   source : Members \cup {None}, members : Int]
PlanType == [tier : DOMAIN Limit, running : BOOLEAN, cancel : BOOLEAN]
PaymentType == [tier : DOMAIN Limit, status : {"PAID", "PENDING"}, over : BOOLEAN]

Steps ==
  {"idle", "apply", "create", "total", "link", "issue", "revoke", "count", "remove",
   "limit", "follow", "member", "unfollow", "leave", "checkout", "apply plan"}
RequestType ==
  [step : Steps, who : Members \cup {None}, at : Strategies \cup {None},
   saw : {""} \cup ProviderStatuses \cup DOMAIN Limit, chosen : Members \cup {None}]
Idle == [step |-> "idle", who |-> None, at |-> None, saw |-> "", chosen |-> None]
JobType ==
  [step : {"idle", "strategies", "providers"}, left : SUBSET (Strategies \cup Applicants),
   of : Strategies \cup Applicants \cup {None}, strategies : Nat, subscribers : Nat]
Rest == [step |-> "idle", left |-> {}, of |-> None, strategies |-> 0, subscribers |-> 0]

ASSUME NamesAssumption ==
  /\ None \notin Members \cup Strategies \cup ProfileType \cup StrategyType \cup PlanType
  /\ Admin \notin Applicants \cup Followers \cup Strategies
  /\ IsFiniteSet(Followers) /\ IsFiniteSet(Strategies)

RowType ==
  /\ profile \in [Applicants -> ProfileType \cup {None}]
  /\ strategy \in [Strategies -> StrategyType \cup {None}]
  /\ gone \subseteq Strategies
  /\ keys \subseteq {s \in Strategies : strategy[s] # None}
  /\ follows \in [Followers \X Strategies -> {"none", "IDLE", "COPYING", "PAUSED"}]
  /\ plan \in [Followers -> PlanType \cup {None}]
  /\ payments \in [Followers -> Seq(PaymentType)]

TrafficType ==
  /\ req \in [1..Tabs -> RequestType]
  /\ job \in JobType
  /\ raced \subseteq Members \cup Strategies
  /\ requests \in 0..MaxRequests /\ crashes \in 0..MaxCrashes

TypeOK == RowType /\ TrafficType

FollowersOf(s) == {f \in Followers : follows[f, s] # "none"}
Followed(f) == {s \in Strategies : follows[f, s] # "none"}
OwnedBy(p) == {s \in Strategies : strategy[s] # None /\ strategy[s].owner = p}
SubscribersOf(p) == UNION {FollowersOf(s) : s \in OwnedBy(p)}

NewStrategy(owner, public) ==
  [owner |-> owner, status |-> "DRAFT", public |-> public, source |-> None, members |-> 0]

\* A marketplace at rest, its figures just recounted: applicants in any status, with
\* live strategies once they were approved, and a draft of the platform's own after
\* them; members who are new, or pay for a plan and follow every live strategy.
Following == [Followers -> {"none", "IDLE"}]
AtRest(ownerOf, statusOf, following) ==
  LET live == {s \in Strategies : ownerOf[s] \in Applicants}
      crowd == Cardinality({f \in Followers : following[f] # "none"})
  IN
  /\ \A s \in Strategies, later \in Strategies : s < later /\ ownerOf[s] \in {Admin, None} => ownerOf[later] = None
  /\ \A s \in live : statusOf[ownerOf[s]] \in {"APPROVED", "SUSPENDED"}
  /\ live = {} => \A f \in Followers : following[f] = "none"
  /\ strategy = [s \in Strategies |->
       IF ownerOf[s] = None THEN None
       ELSE IF s \notin live THEN NewStrategy(Admin, TRUE)
       ELSE [NewStrategy(ownerOf[s], TRUE) EXCEPT !.status = "ACTIVE", !.members = crowd]]
  /\ profile = [p \in Applicants |->
       IF statusOf[p] = "" THEN None
       ELSE LET own == {s \in live : ownerOf[s] = p} IN
            [status |-> statusOf[p], strategies |-> Cardinality(own), subscribers |-> IF own = {} THEN 0 ELSE crowd]]
  /\ follows = [fs \in Followers \X Strategies |-> IF fs[2] \in live THEN following[fs[1]] ELSE "none"]
  /\ plan = [f \in Followers |->
       IF following[f] = "none" THEN None ELSE [tier |-> "PRO", running |-> TRUE, cancel |-> FALSE]]

Init ==
  /\ \E ownerOf \in [Strategies -> Applicants \cup {Admin, None}],
        statusOf \in [Applicants -> ProviderStatuses \cup {""}], following \in Following :
       AtRest(ownerOf, statusOf, following)
  /\ payments = [f \in Followers |->
       IF plan[f] = None THEN << >> ELSE << [tier |-> "PRO", status |-> "PAID", over |-> FALSE] >>]
  /\ keys = {} /\ gone = {}
  /\ req = [t \in 1..Tabs |-> Idle]
  /\ job = Rest
  /\ raced = {} /\ requests = 0 /\ crashes = 0

-----------------------------------------------------------------------------
(* Requests.                                                               *)

\* One more request, about member who and strategy at; others about them may be on
\* their way.
Count(who, at) ==
  /\ requests < MaxRequests /\ requests' = requests + 1
  /\ raced' = raced \cup (({who, at} \cap UNION {{req[t].who, req[t].at} : t \in 1..Tabs}) \ {None, Admin})
  /\ UNCHANGED <<job, crashes>>

\* Its first step reads, or is one of several.  Tabs are alike: the first idle one sends it.
Send(t, request) ==
  /\ req[t] = Idle /\ \A s \in 1..(t - 1) : req[s] # Idle
  /\ Count(request.who, request.at)
  /\ req' = [req EXCEPT ![t] = request]

Request(step, who, at) == [Idle EXCEPT !.step = step, !.who = who, !.at = at]

\* It writes once, and is over.
Serve(who, at) == Count(who, at) /\ UNCHANGED req

At(t, step) == req[t].step = step
Goto(t, step) == req' = [req EXCEPT ![t].step = step] /\ UNCHANGED <<job, raced, requests, crashes>>
Done(t) == req' = [req EXCEPT ![t] = Idle] /\ UNCHANGED <<job, raced, requests, crashes>>

\* The process serving a request dies, or its database call fails, between the first
\* and the last of its writes; one that wrote nothing might as well not have come.
Die(t) ==
  /\ req[t].step \in {"total", "member", "leave", "apply plan"} /\ crashes < MaxCrashes
  /\ crashes' = crashes + 1
  /\ req' = [req EXCEPT ![t] = Idle]
  /\ UNCHANGED <<rows, job, raced, requests>>

-----------------------------------------------------------------------------
(* Providers.                                                              *)

\* The page for applying shows its form to who never applied or was rejected.
ApplyPage(p) == profile[p] # None => profile[p].status = "REJECTED"

ApplicationForm(p) == Request("apply", p, None)

\* applyAsProvider up to its first write.
Apply(t, p) ==
  /\ ApplyPage(p)
  /\ Send(t, [ApplicationForm(p) EXCEPT !.saw = IF profile[p] = None THEN "" ELSE profile[p].status])
  /\ UNCHANGED rows

\* applyAsProvider: the row is created, once per member, or opened again.
StoreApplication(t) ==
  /\ At(t, "apply")
  /\ LET p == req[t].who IN
     profile' = [profile EXCEPT ![p] =
       CASE req[t].saw # ""                        -> [@ EXCEPT !.status = "PENDING"]
         [] req[t].saw = "" /\ profile[p] # None   -> @
         [] OTHER                                 -> [status |-> "PENDING", strategies |-> 0, subscribers |-> 0]]
  /\ Done(t) /\ UNCHANGED <<strategy, gone, keys, follows, plan, payments>>

\* The buttons of the review page, as the status it shows allows.
ReviewButtons(status) ==
  (IF status # "APPROVED" THEN {"APPROVED"} ELSE {"SUSPENDED"}) \cup (IF status = "PENDING" THEN {"REJECTED"} ELSE {})

\* reviewProviderApplication.
Review(p, decision) ==
  /\ profile[p] # None /\ decision \in ReviewButtons(profile[p].status)
  /\ profile' = [profile EXCEPT ![p].status = decision]
  /\ Serve(p, None) /\ UNCHANGED <<strategy, gone, keys, follows, plan, payments>>

-----------------------------------------------------------------------------
(* Strategies.                                                             *)

\* requireApprovedProvider.
Approved(p) == p \in Applicants /\ profile[p] # None /\ profile[p].status = "APPROVED"

\* requireStrategyAccess: an administrator reaches any strategy, a provider their own.
Access(s, who) ==
  /\ strategy[s] # None
  /\ who # Admin => Approved(who) /\ strategy[s].owner = who

\* The member's page of strategies shows its form to approved providers only.
ProviderPage(p) == Approved(p)

\* The page's forms: a new strategy, and the source of one.
StrategyForm(p, s) == Request("create", p, s)
SourceForm(who, s, owner) == [Request("link", who, s) EXCEPT !.chosen = owner]

\* No row has the number, and none had.
Free(s) == strategy[s] = None /\ s \notin gone

\* createProviderStrategy up to its guards.
CreateProviderStrategy(t, p, s) ==
  /\ ProviderPage(p) /\ Free(s)
  /\ Send(t, StrategyForm(p, s))
  /\ UNCHANGED rows

\* createProviderStrategy: the draft, unless its code was taken meanwhile.
CreateDraft(t) ==
  /\ At(t, "create")
  /\ IF Free(req[t].at)
     THEN /\ strategy' = [strategy EXCEPT ![req[t].at] = NewStrategy(req[t].who, TRUE)]
          /\ Goto(t, "total")
     ELSE Done(t) /\ UNCHANGED strategy
  /\ UNCHANGED <<profile, gone, keys, follows, plan, payments>>

\* createProviderStrategy: one more in the provider's total.
CountStrategy(t) ==
  /\ At(t, "total")
  /\ profile' = [profile EXCEPT ![req[t].who].strategies = @ + 1]
  /\ Done(t) /\ UNCHANGED <<strategy, gone, keys, follows, plan, payments>>

\* The administrator's form: whether the strategy is listed.
PlatformForm == BOOLEAN

\* createPlatformStrategy.
CreatePlatformStrategy(s, public) ==
  /\ public \in PlatformForm /\ Free(s)
  /\ strategy' = [strategy EXCEPT ![s] = NewStrategy(Admin, public)]
  /\ Serve(Admin, s) /\ UNCHANGED <<profile, gone, keys, follows, plan, payments>>

\* updateStrategy, as far as it decides who sees the strategy.
UpdateStrategy(s) ==
  /\ Access(s, Admin)
  /\ strategy' = [strategy EXCEPT ![s].public = ~@]
  /\ Serve(Admin, s) /\ UNCHANGED <<profile, gone, keys, follows, plan, payments>>

\* The buttons of the administrator's page.
StatusActions(status) ==
  CASE status \in {"DRAFT", "STOPPED"} -> {"ACTIVE"}
    [] status = "ACTIVE"               -> {"PAUSED", "STOPPED"}
    [] status = "PAUSED"               -> {"ACTIVE", "STOPPED"}

\* setStrategyStatus: who copied a strategy that is no longer live is paused.
SetStrategyStatus(s, status) ==
  /\ Access(s, Admin) /\ status \in StatusActions(strategy[s].status)
  /\ strategy' = [strategy EXCEPT ![s].status = status]
  /\ follows' = [fs \in DOMAIN follows |->
                   IF fs[2] = s /\ status # "ACTIVE" /\ follows[fs] = "COPYING" THEN "PAUSED" ELSE follows[fs]]
  /\ Serve(Admin, s) /\ UNCHANGED <<profile, gone, keys, plan, payments>>

\* The accounts a page offers as a source: those of its visitor.
MasterAccountPicker(who) == {who, None}

\* setStrategyMasterAccount up to its guards: the strategy may be reached, and the
\* account, if any, belongs to who asks.
ChooseSource(t, who, s, owner) ==
  /\ Access(s, who) /\ owner \in MasterAccountPicker(who)
  /\ Send(t, SourceForm(who, s, owner))
  /\ UNCHANGED rows

\* setStrategyMasterAccount: the strategy publishes from that account, or from an EA.
LinkSource(t) ==
  /\ At(t, "link")
  /\ strategy' = [strategy EXCEPT ![req[t].at] = IF @ = None THEN None ELSE [@ EXCEPT !.source = req[t].chosen]]
  /\ Done(t) /\ UNCHANGED <<profile, gone, keys, follows, plan, payments>>

\* Mutant: keys are issued to whoever owns the strategy.
RequestKeyAlways(t, who, s) ==
  /\ strategy[s] # None /\ who \in {Admin, strategy[s].owner}
  /\ Send(t, Request("issue", who, s))
  /\ UNCHANGED rows

\* issueStrategyApiKey up to its guard.
RequestKey(t, who, s) ==
  /\ Access(s, who)
  /\ Send(t, Request("issue", who, s))
  /\ UNCHANGED rows

\* issueStrategyApiKey: the secret is in the answer and nowhere else.
IssueKey(t) ==
  /\ At(t, "issue")
  /\ keys' = keys \cup ({req[t].at} \cap {s \in Strategies : strategy[s] # None})
  /\ Done(t) /\ UNCHANGED <<profile, strategy, gone, follows, plan, payments>>

\* revokeStrategyApiKey up to its guard.
RevokeKey(t, who, s) ==
  /\ s \in keys /\ Access(s, who)
  /\ Send(t, Request("revoke", who, s))
  /\ UNCHANGED rows

KeyRevoked(t) ==
  /\ At(t, "revoke")
  /\ keys' = keys \ {req[t].at}
  /\ Done(t) /\ UNCHANGED <<profile, strategy, gone, follows, plan, payments>>

DeleteStrategy(t, s) ==
  /\ Access(s, Admin)
  /\ Send(t, Request("count", Admin, s))
  /\ UNCHANGED rows

\* deleteStrategy: not while members subscribe to it, copying or not.
CountActive(t) ==
  /\ At(t, "count")
  /\ IF FollowersOf(req[t].at) # {} THEN Done(t) ELSE Goto(t, "remove")
  /\ UNCHANGED rows

\* deleteStrategy: the row, and by cascade the subscriptions and keys.
RemoveStrategy(t) ==
  /\ At(t, "remove")
  /\ LET s == req[t].at IN
     /\ strategy' = [strategy EXCEPT ![s] = None] /\ gone' = gone \cup {s}
     /\ follows' = [fs \in DOMAIN follows |-> IF fs[2] = s THEN "none" ELSE follows[fs]]
     /\ keys' = keys \ {s}
  /\ Done(t) /\ UNCHANGED <<profile, plan, payments>>

-----------------------------------------------------------------------------
(* Plans.                                                                  *)

\* Mutant: the period is not looked at.
EffectiveAlways(f) == IF plan[f] # None THEN plan[f].tier ELSE "FREE"

\* getEffectivePlan.
Effective(f) == IF plan[f] # None /\ plan[f].running THEN plan[f].tier ELSE "FREE"

\* listPlans: the plan of the row is the current one, its period over or not.
Current(f, tier) == plan[f] # None /\ plan[f].tier = tier

\* The billing page: any other plan may be chosen; a plan that was not cancelled may be.
PlanButtons(f) == {tier \in DOMAIN Limit : ~Current(f, tier)}
CanCancel(f) == plan[f] # None /\ ~plan[f].cancel

\* changePlan up to the answer of the checkout.
ChangePlan(t, f, tier) ==
  /\ tier \in PlanButtons(f)
  /\ Send(t, [Request("checkout", f, None) EXCEPT !.saw = tier])
  /\ UNCHANGED rows

\* Mutant: the plan is applied whatever the checkout answered.
RecordAnyPayment(t, outcome) ==
  /\ At(t, "checkout")
  /\ LET f == req[t].who IN
     payments' = [payments EXCEPT ![f] = Append(@, [tier |-> req[t].saw, status |-> outcome, over |-> FALSE])]
  /\ Goto(t, "apply plan")
  /\ UNCHANGED <<profile, strategy, gone, keys, follows, plan>>

\* changePlan: the transaction; one that is not paid at once ends here.
RecordPayment(t, outcome) ==
  /\ At(t, "checkout")
  /\ LET f == req[t].who IN
     payments' = [payments EXCEPT ![f] = Append(@, [tier |-> req[t].saw, status |-> outcome, over |-> FALSE])]
  /\ IF outcome = "PAID" THEN Goto(t, "apply plan") ELSE Done(t)
  /\ UNCHANGED <<profile, strategy, gone, keys, follows, plan>>

\* applyPaidPlan.
ApplyPaidPlan(t) ==
  /\ At(t, "apply plan")
  /\ plan' = [plan EXCEPT ![req[t].who] = [tier |-> req[t].saw, running |-> TRUE, cancel |-> FALSE]]
  /\ Done(t) /\ UNCHANGED <<profile, strategy, gone, keys, follows, payments>>

\* cancelPlan.
CancelPlan(f) ==
  /\ CanCancel(f)
  /\ plan' = [plan EXCEPT ![f].cancel = TRUE]
  /\ Serve(f, None) /\ UNCHANGED <<profile, strategy, gone, keys, follows, payments>>

\* A month has passed: the period is over, and what was paid for it used up.
PeriodEnds(f) ==
  /\ plan[f] # None /\ plan[f].running
  /\ plan' = [plan EXCEPT ![f].running = FALSE]
  /\ payments' = [payments EXCEPT ![f] = [k \in DOMAIN @ |-> [@[k] EXCEPT !.over = TRUE]]]
  /\ raced' = raced \cup {f : t \in {t \in 1..Tabs : req[t].who = f}}
  /\ UNCHANGED <<profile, strategy, gone, keys, follows, req, job, requests, crashes>>

-----------------------------------------------------------------------------
(* Followers.                                                              *)

\* listPublic.
Listed(s) == strategy[s] # None /\ strategy[s].public /\ strategy[s].status \in {"ACTIVE", "PAUSED"}

\* Of the strategies listed, those that are live and not followed offer the dialog.
Offered(f, s) == Listed(s) /\ strategy[s].status = "ACTIVE" /\ follows[f, s] = "none"

SubscribeDialog(f, s) == Request("limit", f, s)

\* subscribe up to the limit of the plan.
Subscribe(t, f, s) ==
  /\ Offered(f, s)
  /\ Send(t, SubscribeDialog(f, s))
  /\ UNCHANGED rows

\* assertWithinPlanLimits.
CheckLimit(t) ==
  /\ At(t, "limit")
  /\ LET f == req[t].who IN
     IF Cardinality(Followed(f)) >= Limit[Effective(f)]
     THEN Done(t) ELSE Goto(t, "follow")
  /\ UNCHANGED rows

\* subscribe: the row, unless the account has one by now or the strategy is gone.
CreateSubscription(t) ==
  /\ At(t, "follow")
  /\ LET f == req[t].who  s == req[t].at IN
     IF strategy[s] # None /\ follows[f, s] = "none"
     THEN follows' = [follows EXCEPT ![<<f, s>>] = "IDLE"] /\ Goto(t, "member")
     ELSE Done(t) /\ UNCHANGED follows
  /\ UNCHANGED <<profile, strategy, gone, keys, plan, payments>>

\* memberCount goes up or down by one.
CountMember(t, step, by) ==
  /\ At(t, step)
  /\ LET s == req[t].at IN
     strategy' = [strategy EXCEPT ![s] =
                    IF strategy[s] = None THEN None ELSE [strategy[s] EXCEPT !.members = @ + by]]
  /\ Done(t) /\ UNCHANGED <<profile, gone, keys, follows, plan, payments>>

\* A card of the member's own subscriptions: the two buttons that fit its status, and
\* one to leave, which the handler refuses while it copies.
CardButtons(copyStatus) ==
  CASE copyStatus = "none"    -> {}
    [] copyStatus = "COPYING" -> {"PAUSED"}
    [] OTHER                  -> {"COPYING"}

\* startCopying, which needs a live strategy, and pauseCopying.
Control(f, s, copyStatus) ==
  /\ copyStatus \in CardButtons(follows[f, s])
  /\ copyStatus = "COPYING" => strategy[s].status = "ACTIVE"
  /\ follows' = [follows EXCEPT ![<<f, s>>] = copyStatus]
  /\ Serve(f, s) /\ UNCHANGED <<profile, strategy, gone, keys, plan, payments>>

\* unsubscribe up to its guard.
Unsubscribe(t, f, s) ==
  /\ follows[f, s] \notin {"none", "COPYING"}
  /\ Send(t, Request("unfollow", f, s))
  /\ UNCHANGED rows

\* unsubscribe: the row.
DeleteSubscription(t) ==
  /\ At(t, "unfollow")
  /\ LET f == req[t].who  s == req[t].at IN
     IF follows[f, s] # "none"
     THEN follows' = [follows EXCEPT ![<<f, s>>] = "none"] /\ Goto(t, "leave")
     ELSE Done(t) /\ UNCHANGED follows
  /\ UNCHANGED <<profile, strategy, gone, keys, plan, payments>>

-----------------------------------------------------------------------------
(* The recount, which the worker repeats.                                  *)

JobGoes(next) == job' = next /\ UNCHANGED <<gone, keys, follows, plan, payments, req, raced, requests, crashes>>

\* recomputeAllStats: the strategies there are.
StartRecount ==
  /\ job.step = "idle"
  /\ JobGoes([Rest EXCEPT !.step = "strategies", !.left = {s \in Strategies : strategy[s] # None}])
  /\ UNCHANGED <<profile, strategy>>

\* Mutant: only members whose copying is on are counted.
ReadCopying(s) ==
  /\ job.step = "strategies" /\ s \in job.left /\ job.of = None
  /\ JobGoes([job EXCEPT !.of = s, !.subscribers = Cardinality({f \in Followers : follows[f, s] = "COPYING"})])
  /\ UNCHANGED <<profile, strategy>>

\* recomputeStrategyStats: the members of strategy s are counted.
ReadMembers(s) ==
  /\ job.step = "strategies" /\ s \in job.left /\ job.of = None
  /\ JobGoes([job EXCEPT !.of = s, !.subscribers = Cardinality(FollowersOf(s))])
  /\ UNCHANGED <<profile, strategy>>

\* recomputeStrategyStats: and shown; a strategy that is gone is passed over.
WriteMembers ==
  /\ job.step = "strategies" /\ job.of # None
  /\ strategy' = [strategy EXCEPT ![job.of] = IF @ = None THEN None ELSE [@ EXCEPT !.members = job.subscribers]]
  /\ JobGoes([Rest EXCEPT !.step = "strategies", !.left = job.left \ {job.of}])
  /\ UNCHANGED profile

ProvidersLeft(left) == IF left = {} THEN Rest ELSE [Rest EXCEPT !.step = "providers", !.left = left]

\* recomputeAllStats: the providers there are; without any it is done.
TurnToProviders ==
  /\ job.step = "strategies" /\ job.left = {}
  /\ JobGoes(ProvidersLeft({p \in Applicants : profile[p] # None}))
  /\ UNCHANGED <<profile, strategy>>

\* A member who follows two strategies of a provider is one subscriber.
ReadTotals(p) ==
  /\ job.step = "providers" /\ p \in job.left /\ job.of = None
  /\ JobGoes([job EXCEPT !.of = p, !.strategies = Cardinality(OwnedBy(p)), !.subscribers = Cardinality(SubscribersOf(p))])
  /\ UNCHANGED <<profile, strategy>>

WriteTotals ==
  /\ job.step = "providers" /\ job.of # None
  /\ profile' = [profile EXCEPT ![job.of].strategies = job.strategies, ![job.of].subscribers = job.subscribers]
  /\ JobGoes(ProvidersLeft(job.left \ {job.of}))
  /\ UNCHANGED strategy

Recount ==
  \/ StartRecount \/ TurnToProviders
  \/ \E s \in Strategies : ReadMembers(s)
  \/ \E p \in Applicants : ReadTotals(p)
  \/ WriteMembers \/ WriteTotals

-----------------------------------------------------------------------------
TabStep(t) ==
  \/ StoreApplication(t) \/ CreateDraft(t) \/ CountStrategy(t) \/ LinkSource(t)
  \/ IssueKey(t) \/ KeyRevoked(t) \/ CountActive(t) \/ RemoveStrategy(t)
  \/ \E outcome \in Outcomes : RecordPayment(t, outcome)
  \/ ApplyPaidPlan(t)
  \/ CheckLimit(t) \/ CreateSubscription(t) \/ DeleteSubscription(t)
  \/ CountMember(t, "member", 1) \/ CountMember(t, "leave", -1)

NewRequest(t) ==
  \/ \E p \in Applicants : Apply(t, p) \/ \E s \in Strategies : CreateProviderStrategy(t, p, s)
  \/ \E s \in Strategies, who \in Applicants \cup {Admin} :
       \/ RequestKey(t, who, s) \/ RevokeKey(t, who, s)
       \/ \E owner \in Members \cup {None} : ChooseSource(t, who, s, owner)
  \/ \E s \in Strategies : DeleteStrategy(t, s)
  \/ \E f \in Followers, s \in Strategies : Subscribe(t, f, s) \/ Unsubscribe(t, f, s)
  \/ \E f \in Followers, tier \in DOMAIN Limit : ChangePlan(t, f, tier)

Next ==
  \/ \E t \in 1..Tabs : NewRequest(t) \/ TabStep(t) \/ Die(t)
  \/ \E p \in Applicants, decision \in ProviderStatuses : Review(p, decision)
  \/ \E s \in Strategies :
       \/ \E public \in BOOLEAN : CreatePlatformStrategy(s, public)
       \/ \E status \in StrategyStatuses : SetStrategyStatus(s, status)
       \/ UpdateStrategy(s)
  \/ \E f \in Followers : CancelPlan(f) \/ PeriodEnds(f)
  \/ \E f \in Followers, s \in Strategies, copyStatus \in {"COPYING", "PAUSED"} : Control(f, s, copyStatus)
  \/ Recount

\* The worker's schedule repeats the recount; requests come as they come, or stop.
Spec == Init /\ [][Next]_vars /\ WF_vars(Recount)

-----------------------------------------------------------------------------
(* Properties.                                                             *)

\* "Nothing a member submits can approve their own listing", nor undo a decision: who is
\* approved or suspended is so until an administrator decides otherwise, unless the
\* decision fell between the read and the write of an application.
DecisionStands ==
  [][\A p \in Applicants :
       /\ profile[p] # None /\ profile'[p] # None
       /\ profile[p].status \in {"APPROVED", "SUSPENDED"} /\ p \notin raced
       => profile'[p].status # "PENDING"]_vars

\* A member who is not approved changes nothing of what is published, through any
\* of the requests a provider has, unless the decision overtook the request.
UnapprovedPublishNothing ==
  [][\A t \in 1..Tabs :
       /\ req[t].step \in {"create", "link", "issue", "revoke"} /\ req'[t].step # req[t].step
       /\ <<strategy, keys>>' # <<strategy, keys>>
       /\ req[t].who \in Applicants \ raced
       => Approved(req[t].who)]_vars

\* "The account must belong to the person doing this, or a provider could publish
\* somebody else's trading as their own strategy."
SourceIsOwners ==
  \A s \in Strategies : strategy[s] # None => strategy[s].source \in {None, Admin, strategy[s].owner}

\* A member stops following a strategy by leaving it, never because it is deleted,
\* unless they were subscribing while it was.
FollowersAreKept ==
  [][\A f \in Followers, s \in Strategies :
       follows[f, s] # "none" /\ follows'[f, s] = "none"
       => s \in raced \/ \E t \in 1..Tabs : req[t] = Request("unfollow", f, s) /\ req'[t] # req[t]]_vars

\* The plan a member is entitled to: the one stored, until its period ends.
InForce(f) == IF plan[f] # None /\ plan[f].running THEN plan[f].tier ELSE "FREE"

\* "A pending or failed payment never grants access": a plan above the free one in
\* force was paid for; in its own period, unless one ended under way.
EntitlementIsPaid ==
  \A f \in Followers : InForce(f) # "FREE" =>
    \E k \in DOMAIN payments[f] :
      payments[f][k].tier = InForce(f) /\ payments[f][k].status = "PAID" /\ (payments[f][k].over => f \in raced)

\* A payment for a period that is not over.
Counts(payment) == payment.status = "PAID" /\ ~payment.over

\* Payment k is the last of those.
LastPaid(f, k) == Counts(payments[f][k]) /\ \A j \in DOMAIN payments[f] : j > k => ~Counts(payments[f][j])

\* And what was paid for is in force: the plan is that of the last paid transaction,
\* once its request is over, unless a request died or two of one member overlapped.
PaidIsApplied ==
  \A f \in Followers \ raced : \A k \in DOMAIN payments[f] :
    crashes = 0 /\ LastPaid(f, k) /\ (\A t \in 1..Tabs : req[t].who # f) => InForce(f) = payments[f][k].tier

\* A strategy more is followed only within the plan in force, unless the member's
\* requests overlapped or the period ended under way.
FollowedWithinPlan ==
  [][\A f \in Followers \ raced :
       Cardinality(Followed(f)') > Cardinality(Followed(f)) => Cardinality(Followed(f)') <= Limit[InForce(f)]]_vars

\* Whatever trades the recount finds closed, the drawdown it shows is the worst fall
\* of the curve from a high.
DrawdownIsWorstFall == job.of \in Strategies => DrawdownIsRight

\* "A wrong return figure is worse than none": no strategy shows a loss without a
\* drawdown as large, nor a perfect record with either.
LossIsADrawdown == job.of \in Strategies => LossHasDrawdown

\* Counts are kept by requests that may die or overlap, and by the recount; once the
\* requests stop, the counts shown become those of the rows, and stay.
CountsCatchUp ==
  <>[](/\ \A s \in Strategies : strategy[s] # None => strategy[s].members = Cardinality(FollowersOf(s))
       /\ \A p \in Applicants : profile[p] # None =>
            profile[p].strategies = Cardinality(OwnedBy(p)) /\ profile[p].subscribers = Cardinality(SubscribersOf(p)))

\* What is published was published by someone approved, of an account of their own:
\* applyAsProvider, reviewProvider and the strategy services of a provider.
PublishedByApproved == DecisionStands /\ UnapprovedPublishNothing /\ []SourceIsOwners

\* The plan in force and the payments agree, and every state is one the data types allow
\* (changePlan, cancelPlan, getEffectivePlan).
PlansArePaid == TypeOK /\ EntitlementIsPaid /\ PaidIsApplied

\* Followers are neither lost nor more than the plan allows (deleteStrategy, subscribe,
\* assertWithinPlanLimits).
FollowersHold == FollowersAreKept /\ FollowedWithinPlan

\* The figures of the marketplace: those the recount computes are right, and its counts
\* come to agree with the rows (recomputeStrategyStats, recomputeProviderStats).
FiguresAreRight == [](DrawdownIsWorstFall /\ LossIsADrawdown) /\ CountsCatchUp
=============================================================================
