---------------------------- MODULE CopyControl ----------------------------
(***************************************************************************)
(* Who copies: the subscriptions of one member, the status the account     *)
(* shows, the strategy's status and its member count, and the risk state   *)
(* that stops an account.  Web requests (member, strategy owner, operator) *)
(* and copy jobs work on the same rows, one action per database call.      *)
(***************************************************************************)
EXTENDS Integers, FiniteSets

CONSTANTS
  Accounts, Strategies,
  Subs,        \* the subscriptions there may be: pairs <<account, strategy>>
  Requests,    \* web requests at work at once
  Jobs,        \* copy jobs at work at once
  NoSub,
  PlanLimit,   \* SubscriptionPlan.maxStrategies of the member's plan
  MaxRequests, \* bound: requests made
  LastDay      \* bound: trading days

ASSUME SubsAssumption == Subs \subseteq Accounts \X Strategies /\ NoSub \notin Subs
ASSUME FiniteAssumption == IsFiniteSet(Subs) /\ IsFiniteSet(Requests)
ASSUME LimitsAssumption == {PlanLimit, MaxRequests, LastDay} \subseteq Nat

VARIABLES
  sub,         \* StrategySubscription.copyStatus, "none" without a row
  shown,       \* TradingAccount.copyStatus
  connected,   \* TradingAccount.connectionStatus is CONNECTED
  live,        \* Strategy.status is ACTIVE
  members,     \* Strategy.memberCount
  risk,        \* RiskState: the trading day and whether it is breached
  today,
  pc, req,     \* each web request: its next step and its subscription
  still,       \* its count of copying subscriptions was above zero
  ownerPc, ownerOf,     \* the strategy owner's request: its step and strategy,
  affected, ownerAt,    \* the accounts left to look at and the one looked at
  jobPc, job, jobDay,          \* each job: step, subscription, its day
  armed,       \* history: the member started copying since the last breach
  breachDay,   \* history: the day of the account's last breach
  made,        \* requests made so far
  overlapped   \* history: a request began while another was at work

rows    == <<sub, shown, connected, live, members>>
request == <<pc, req, still>>
owner   == <<ownerPc, ownerOf, affected, ownerAt>>
copying == <<risk, jobPc, job, jobDay, breachDay>>
count   == <<made, overlapped>>
vars    == <<rows, today, request, owner, copying, armed, count>>

CopyStatus == {"IDLE", "COPYING", "PAUSED", "STOPPED"}
PC == {"idle", "limit", "create", "increment", "account", "strategy", "start", "show",
       "pause", "stop", "delete", "decrement", "count", "sync"}
OwnerPC == {"idle", "read", "pauseAll", "count", "show"}
JobPC == {"idle", "load", "reset", "order", "breach"}
RiskType == [day : Nat, breached : BOOLEAN]
Never == -1

RowType ==
  /\ sub \in [Subs -> CopyStatus \cup {"none"}]
  /\ shown \in [Accounts -> {"IDLE", "COPYING"}]
  /\ connected \in [Accounts -> BOOLEAN]
  /\ live \in [Strategies -> BOOLEAN]
  /\ members \in [Strategies -> Int]

RequestType ==
  /\ pc \in [Requests -> PC]
  /\ req \in [Requests -> Subs \cup {NoSub}]
  /\ \A r \in Requests : pc[r] # "idle" => req[r] \in Subs
  /\ still \in [Requests -> BOOLEAN]

OwnerType ==
  /\ ownerPc \in OwnerPC /\ ownerOf \in Strategies
  /\ affected \subseteq Accounts /\ ownerAt \in Accounts

JobType ==
  /\ risk \in [Accounts -> RiskType]
  /\ jobPc \in [Jobs -> JobPC]
  /\ job \in [Jobs -> Subs \cup {NoSub}]
  /\ \A j \in Jobs : jobPc[j] # "idle" => job[j] \in Subs
  /\ jobDay \in [Jobs -> Nat]
  /\ breachDay \in [Accounts -> Nat \cup {Never}]

CountType ==
  /\ today \in Nat
  /\ armed \in [Accounts -> BOOLEAN]
  /\ made \in Nat /\ overlapped \in BOOLEAN

TypeOK == RowType /\ RequestType /\ OwnerType /\ JobType /\ CountType

SubsOf(strategy) == {s \in Subs : s[2] = strategy /\ sub[s] # "none"}
CopiesOn(account) == \E s \in Subs : s[1] = account /\ sub[s] = "COPYING"

\* A member who may follow strategies already.
Init ==
  /\ sub \in [Subs -> {"none", "STOPPED"}]
  /\ shown = [a \in Accounts |-> "IDLE"]
  /\ connected = [a \in Accounts |-> TRUE]
  /\ live = [t \in Strategies |-> TRUE]
  /\ members = [t \in Strategies |-> Cardinality(SubsOf(t))]
  /\ Cardinality({s \in Subs : sub[s] # "none"}) <= PlanLimit
  /\ today = 0
  /\ risk = [a \in Accounts |-> [day |-> 0, breached |-> FALSE]]
  /\ pc = [r \in Requests |-> "idle"]
  /\ req = [r \in Requests |-> NoSub]
  /\ still = [r \in Requests |-> FALSE]
  /\ ownerPc = "idle" /\ ownerOf \in Strategies /\ affected = {} /\ ownerAt \in Accounts
  /\ jobPc = [j \in Jobs |-> "idle"]
  /\ job = [j \in Jobs |-> NoSub]
  /\ jobDay = [j \in Jobs |-> 0]
  /\ armed = [a \in Accounts |-> TRUE]
  /\ breachDay = [a \in Accounts |-> Never]
  /\ made = 0 /\ overlapped = FALSE

\* No web request is at work.
Quiet == ownerPc = "idle" /\ \A r \in Requests : pc[r] = "idle"

Account(r) == req[r][1]
Strategy(r) == req[r][2]

\* One more request; it overlaps if another one is at work.
CountRequest ==
  /\ made < MaxRequests
  /\ made' = made + 1
  /\ overlapped' = (overlapped \/ ~Quiet)

Goto(r, step) == pc' = [pc EXCEPT ![r] = step]
Continue(r, step) == Goto(r, step) /\ UNCHANGED <<req, still>>

\* The request answers, with success or an error.
EndRequest(r) ==
  /\ Goto(r, "idle")
  /\ req' = [req EXCEPT ![r] = NoSub]
  /\ still' = [still EXCEPT ![r] = FALSE]

Begin(r, s, step) ==
  /\ pc[r] = "idle"
  /\ CountRequest
  /\ Goto(r, step)
  /\ req' = [req EXCEPT ![r] = s]
  /\ UNCHANGED <<rows, today, still, owner, copying, armed>>

\* A read of the database that lets the request go on, or refuses it.
Check(r, from, holds, step) ==
  /\ pc[r] = from
  /\ IF holds THEN Continue(r, step) ELSE EndRequest(r)
  /\ UNCHANGED <<rows, today, owner, copying, armed, count>>

-----------------------------------------------------------------------------
(* subscribe, unsubscribe.                                                 *)

\* The strategy is ACTIVE and the account does not follow it yet.
Subscribe(r, s) == live[s[2]] /\ sub[s] = "none" /\ Begin(r, s, "limit")

\* Mutant: the limit may be passed by one.
CheckLimitOff(r) ==
  Check(r, "limit", Cardinality({s \in Subs : sub[s] # "none"}) <= PlanLimit, "create")

\* assertWithinPlanLimits: the subscriptions in use are below the plan's limit.
CheckLimit(r) ==
  Check(r, "limit", Cardinality({s \in Subs : sub[s] # "none"}) < PlanLimit, "create")

\* Mutant: a row that exists already is taken for the new one.
CreateOrKeep(r) ==
  /\ pc[r] = "create"
  /\ sub' = [sub EXCEPT ![req[r]] = "IDLE"]
  /\ Continue(r, "increment")
  /\ UNCHANGED <<shown, connected, live, members, today, owner, copying, armed, count>>

\* The unique constraint on (accountId, strategyId) refuses a second row.
CreateSub(r) ==
  /\ pc[r] = "create"
  /\ IF sub[req[r]] = "none"
     THEN sub' = [sub EXCEPT ![req[r]] = "IDLE"] /\ Continue(r, "increment")
     ELSE EndRequest(r) /\ UNCHANGED sub
  /\ UNCHANGED <<shown, connected, live, members, today, owner, copying, armed, count>>

CountMember(r) ==
  /\ pc[r] = "increment"
  /\ members' = [members EXCEPT ![Strategy(r)] = @ + 1]
  /\ EndRequest(r)
  /\ UNCHANGED <<sub, shown, connected, live, today, owner, copying, armed, count>>

Unsubscribe(r, s) == sub[s] \notin {"none", "COPYING"} /\ Begin(r, s, "delete")

\* A row deleted meanwhile makes the call throw.
DeleteSub(r) ==
  /\ pc[r] = "delete"
  /\ IF sub[req[r]] # "none"
     THEN sub' = [sub EXCEPT ![req[r]] = "none"] /\ Continue(r, "decrement")
     ELSE EndRequest(r) /\ UNCHANGED sub
  /\ UNCHANGED <<shown, connected, live, members, today, owner, copying, armed, count>>

UncountMember(r) ==
  /\ pc[r] = "decrement"
  /\ members' = [members EXCEPT ![Strategy(r)] = @ - 1]
  /\ Continue(r, "count")
  /\ UNCHANGED <<sub, shown, connected, live, today, owner, copying, armed, count>>

-----------------------------------------------------------------------------
(* startCopying, pauseCopying, stopCopying.                                *)

Start(r, s) == sub[s] # "none" /\ Begin(r, s, "account")
CheckAccount(r) == Check(r, "account", connected[Account(r)], "strategy")

CheckStrategy(r) == Check(r, "strategy", live[Strategy(r)], "start")

\* The update of a subscription: it throws if the row is gone.
UpdateSub(r, from, status, step) ==
  /\ pc[r] = from
  /\ IF sub[req[r]] # "none"
     THEN sub' = [sub EXCEPT ![req[r]] = status] /\ Continue(r, step)
     ELSE EndRequest(r) /\ UNCHANGED sub
  /\ UNCHANGED <<shown, connected, live, members, today, owner, copying, count>>

StartSub(r) ==
  /\ UpdateSub(r, "start", "COPYING", "show")
  /\ armed' = [armed EXCEPT ![Account(r)] = @ \/ sub[req[r]] # "none"]

ShowCopying(r) ==
  /\ pc[r] = "show"
  /\ shown' = [shown EXCEPT ![Account(r)] = "COPYING"]
  /\ EndRequest(r)
  /\ UNCHANGED <<sub, connected, live, members, today, owner, copying, armed, count>>

Pause(r, s) == sub[s] # "none" /\ Begin(r, s, "pause")
Stop(r, s) == sub[s] # "none" /\ Begin(r, s, "stop")

PauseSub(r) == UpdateSub(r, "pause", "PAUSED", "count") /\ UNCHANGED armed
StopSub(r) == UpdateSub(r, "stop", "STOPPED", "count") /\ UNCHANGED armed

\* Mutant: the subscription just changed is counted too.
CountCopyingAny(r) ==
  /\ pc[r] = "count"
  /\ still' = [still EXCEPT ![r] = \E s \in Subs : s[1] = Account(r) /\ sub[s] # "none"]
  /\ Goto(r, "sync")
  /\ UNCHANGED <<rows, today, req, owner, copying, armed, count>>

\* syncAccountCopyStatus: a count, then a write.
CountCopying(r) ==
  /\ pc[r] = "count"
  /\ still' = [still EXCEPT ![r] = CopiesOn(Account(r))]
  /\ Goto(r, "sync")
  /\ UNCHANGED <<rows, today, req, owner, copying, armed, count>>

SyncAccount(r) ==
  /\ pc[r] = "sync"
  /\ shown' = [shown EXCEPT ![Account(r)] = IF still[r] THEN "COPYING" ELSE "IDLE"]
  /\ EndRequest(r)
  /\ UNCHANGED <<sub, connected, live, members, today, owner, copying, armed, count>>

-----------------------------------------------------------------------------
(* disconnectAccount, connectAccount: the write that ends them.            *)

Disconnect(a) ==
  /\ CountRequest
  /\ connected' = [connected EXCEPT ![a] = FALSE]
  /\ shown' = [shown EXCEPT ![a] = "IDLE"]
  /\ UNCHANGED <<sub, live, members, today, request, owner, copying, armed>>

Connect(a) ==
  /\ ~connected[a]
  /\ CountRequest
  /\ connected' = [connected EXCEPT ![a] = TRUE]
  /\ UNCHANGED <<sub, shown, live, members, today, request, owner, copying, armed>>

\* suspendMemberActivity: one transaction.
Suspend ==
  /\ CountRequest
  /\ sub' = [s \in Subs |-> IF sub[s] = "COPYING" THEN "PAUSED" ELSE sub[s]]
  /\ shown' = [a \in Accounts |-> "IDLE"]
  /\ UNCHANGED <<connected, live, members, today, request, owner, copying, armed>>

-----------------------------------------------------------------------------
(* setStrategyStatus.                                                      *)

ActivateStrategy(t) ==
  /\ ownerPc = "idle"
  /\ ~live[t]
  /\ CountRequest
  /\ live' = [live EXCEPT ![t] = TRUE]
  /\ UNCHANGED <<sub, shown, connected, members, today, request, owner, copying, armed>>

PauseStrategy(t) ==
  /\ ownerPc = "idle"
  /\ live[t]
  /\ CountRequest
  /\ live' = [live EXCEPT ![t] = FALSE]
  /\ ownerPc' = "read" /\ ownerOf' = t
  /\ UNCHANGED <<sub, shown, connected, members, affected, ownerAt>>
  /\ UNCHANGED <<today, request, copying, armed>>

ReadAffected ==
  /\ ownerPc = "read"
  /\ affected' = {s[1] : s \in {x \in Subs : x[2] = ownerOf /\ sub[x] = "COPYING"}}
  /\ ownerPc' = "pauseAll"
  /\ UNCHANGED <<rows, ownerOf, ownerAt, today, request, copying, armed, count>>

PauseAll ==
  /\ ownerPc = "pauseAll"
  /\ sub' = [s \in Subs |-> IF s[2] = ownerOf /\ sub[s] = "COPYING" THEN "PAUSED" ELSE sub[s]]
  /\ ownerPc' = "count"
  /\ UNCHANGED <<shown, connected, live, members, ownerOf, affected, ownerAt>>
  /\ UNCHANGED <<today, request, copying, armed, count>>

\* The next affected account, if any; one that copies nothing else is shown IDLE.
CountAffected ==
  /\ ownerPc = "count"
  /\ \E a \in affected :
       /\ affected' = affected \ {a}
       /\ ownerAt' = a
       /\ ownerPc' = IF CopiesOn(a) THEN "count" ELSE "show"
  /\ UNCHANGED <<rows, ownerOf, today, request, copying, armed, count>>

ShowIdle ==
  /\ ownerPc = "show"
  /\ shown' = [shown EXCEPT ![ownerAt] = "IDLE"]
  /\ ownerPc' = "count"
  /\ UNCHANGED <<sub, connected, live, members, ownerOf, affected, ownerAt>>
  /\ UNCHANGED <<today, request, copying, armed, count>>

OwnerEnds ==
  /\ ownerPc = "count"
  /\ affected = {}
  /\ ownerPc' = "idle"
  /\ UNCHANGED <<rows, ownerOf, affected, ownerAt, today, request, copying, armed, count>>

-----------------------------------------------------------------------------
(* The copy job, at one subscription of its list.                          *)

JobAccount(j) == job[j][1]

JobGoto(j, step) ==
  /\ jobPc' = [jobPc EXCEPT ![j] = step]
  /\ job' = IF step = "idle" THEN [job EXCEPT ![j] = NoSub] ELSE job

\* A subscription that copies, on a connected account, is on the job's list; the
\* job comes to it later, whatever has become of it.
ListSub(j, s) ==
  /\ jobPc[j] = "idle"
  /\ sub[s] = "COPYING" /\ connected[s[1]]
  /\ jobPc' = [jobPc EXCEPT ![j] = "load"]
  /\ job' = [job EXCEPT ![j] = s]
  /\ UNCHANGED <<rows, today, request, owner, risk, jobDay, breachDay, armed, count>>

\* evaluateRisk: a breached account is refused; another is skipped by a limit of
\* the trade, admitted, or found to breach a limit of the account.
Evaluate(j, breached) ==
  \E step \in (IF breached THEN {"idle"} ELSE {"idle", "order", "breach"}) : JobGoto(j, step)

\* loadRiskState: the state of an earlier day is to be reset first.
LoadRisk(j) ==
  /\ jobPc[j] = "load"
  /\ jobDay' = [jobDay EXCEPT ![j] = today]
  /\ IF risk[JobAccount(j)].day = today
     THEN Evaluate(j, risk[JobAccount(j)].breached)
     ELSE JobGoto(j, "reset")
  /\ UNCHANGED <<rows, today, request, owner, risk, breachDay, armed, count>>

ResetDay(j) ==
  /\ jobPc[j] = "reset"
  /\ risk' = [risk EXCEPT ![JobAccount(j)] = [day |-> jobDay[j], breached |-> FALSE]]
  /\ Evaluate(j, FALSE)
  /\ UNCHANGED <<rows, today, request, owner, jobDay, breachDay, armed, count>>

\* Mutant: the subscription is paused and the account is not marked.
PauseOnly(j) ==
  /\ jobPc[j] = "breach"
  /\ sub' = [sub EXCEPT ![job[j]] = IF @ = "none" THEN @ ELSE "PAUSED"]
  /\ armed' = [armed EXCEPT ![JobAccount(j)] = FALSE]
  /\ breachDay' = [breachDay EXCEPT ![JobAccount(j)] = jobDay[j]]
  /\ JobGoto(j, "idle")
  /\ UNCHANGED <<shown, connected, live, members, today, request, owner, risk, jobDay, count>>

\* One transaction: it fails as a whole if the subscription is gone.
PauseForBreach(j) ==
  /\ jobPc[j] = "breach"
  /\ IF sub[job[j]] = "none"
     THEN UNCHANGED <<sub, risk, armed, breachDay>>
     ELSE /\ sub' = [sub EXCEPT ![job[j]] = "PAUSED"]
          /\ risk' = [risk EXCEPT ![JobAccount(j)].breached = TRUE]
          /\ armed' = [armed EXCEPT ![JobAccount(j)] = FALSE]
          /\ breachDay' = [breachDay EXCEPT ![JobAccount(j)] = jobDay[j]]
  /\ JobGoto(j, "idle")
  /\ UNCHANGED <<shown, connected, live, members, today, request, owner, jobDay, count>>

\* The order and what follows it; the job goes on to other members.
SendOrder(j) ==
  /\ jobPc[j] = "order"
  /\ JobGoto(j, "idle")
  /\ UNCHANGED <<rows, today, request, owner, risk, jobDay, breachDay, armed, count>>

NextDay ==
  /\ today < LastDay
  /\ today' = today + 1
  /\ UNCHANGED <<rows, request, owner, copying, armed, count>>

-----------------------------------------------------------------------------

RequestStep(r) ==
  \/ CheckLimit(r) \/ CreateSub(r) \/ CountMember(r)
  \/ DeleteSub(r) \/ UncountMember(r)
  \/ (CheckAccount(r) \/ CheckStrategy(r))
  \/ StartSub(r) \/ ShowCopying(r)
  \/ PauseSub(r) \/ StopSub(r) \/ CountCopying(r) \/ SyncAccount(r)

OwnerStep == ReadAffected \/ PauseAll \/ CountAffected \/ ShowIdle \/ OwnerEnds

JobStep(j) == LoadRisk(j) \/ ResetDay(j) \/ PauseForBreach(j) \/ SendOrder(j)

Next ==
  \/ \E r \in Requests : \/ RequestStep(r)
                         \/ \E s \in Subs : \/ Subscribe(r, s) \/ Unsubscribe(r, s)
                                            \/ Start(r, s) \/ Pause(r, s) \/ Stop(r, s)
  \/ \E a \in Accounts : Disconnect(a) \/ Connect(a)
  \/ Suspend
  \/ \E t \in Strategies : ActivateStrategy(t) \/ PauseStrategy(t)
  \/ OwnerStep
  \/ \E j \in Jobs : JobStep(j) \/ \E s \in Subs : ListSub(j, s)
  \/ NextDay

Spec == Init /\ [][Next]_vars

-----------------------------------------------------------------------------
(* Properties at any concurrency.                                          *)

\* The member count is kept by increments and decrements, never recounted here:
\* once the requests at work have written theirs, it is the number of
\* subscriptions, whatever raced (two subscribes of one account, two
\* unsubscribes, a delete under a start).
Waiting(step, t) == {r \in Requests : pc[r] = step /\ Strategy(r) = t}

MembersCounted ==
  \A t \in Strategies :
    members[t] + Cardinality(Waiting("increment", t)) =
      Cardinality(SubsOf(t)) + Cardinality(Waiting("decrement", t))

-----------------------------------------------------------------------------
(* Properties of requests that do not overlap.                             *)

\* "An account is only COPYING while one of its subscriptions still is": between
\* requests the account shows COPYING only if a subscription copies, unless a
\* breach has paused one since the member last started copying.
ShownMeansCopying ==
  (Quiet /\ ~overlapped) =>
    \A a \in Accounts : (armed[a] /\ shown[a] = "COPYING") => CopiesOn(a)

\* A strategy that is not ACTIVE has no subscription that copies.
PausedMeansStill ==
  (Quiet /\ ~overlapped) =>
    \A s \in Subs : sub[s] = "COPYING" => live[s[2]]

\* What members are shown is what happens: setStrategyStatus, pauseCopying and
\* syncAccountCopyStatus leave no account shown copying that does not, and nothing copying
\* from a strategy that stopped.
StatusIsHonest == ShownMeansCopying /\ PausedMeansStill

\* A member follows no more strategies than the plan allows.
WithinPlan == ~overlapped => Cardinality({s \in Subs : sub[s] # "none"}) <= PlanLimit

-----------------------------------------------------------------------------
(* Properties of the risk state.                                           *)

\* Job j is about to send an order that evaluateRisk has just admitted.
Admits(j) == jobPc[j] \in {"load", "reset"} /\ jobPc'[j] = "order"

\* With one job at a time, a breach stops the account for the rest of its
\* trading day: neither another subscription nor a member who starts the
\* paused one again gets an order admitted.
BreachHoldsToday ==
  [][\A j \in Jobs : Admits(j) => breachDay[JobAccount(j)] # jobDay'[j]]_vars
=============================================================================
