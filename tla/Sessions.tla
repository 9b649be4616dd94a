------------------------------ MODULE Sessions ------------------------------
(***************************************************************************)
(* The provider's side of trading accounts: the terminals it runs for one  *)
(* login, the connections each process caches to them, and the rows of     *)
(* those who added that login.  Web requests and the worker's sweep call   *)
(* the adapter with no lock between them; one action is the code between   *)
(* two awaits.  Rows of other logins share nothing with these.             *)
(***************************************************************************)
EXTENDS Integers, FiniteSets

CONSTANTS
  Rows,         \* TradingAccount rows with this login and server, of a member each
  WebCalls,     \* requests the web tier serves at once
  WorkerCalls,  \* sessions the worker asks for at once
  NoRow, NoCall,
  MaxTerminals, \* bound: accounts created at the provider
  MaxRequests,  \* bound: web requests
  MaxThrows     \* bound: provider calls that throw

ASSUME SessionsAssumption ==
  /\ WebCalls \cap WorkerCalls = {} /\ {NoCall, "none", "open"} \cap (WebCalls \cup WorkerCalls) = {}
  /\ Rows # {} /\ NoRow \notin Rows
  /\ {MaxTerminals, MaxRequests, MaxThrows} \subseteq Nat /\ MaxTerminals > 0

VARIABLES
  row,      \* the rows: isEnabled, connectionStatus, providerAccountId (0: none), providerState
  terminal, \* the provider's accounts: their state
  made,     \* accounts created: 1 .. made
  cache,    \* metaApiConnections of each process: whose promise, or that it is open
  call,     \* each call in flight
  requests, throws,
  doubled,  \* history: an account was looked up in vain, or beside a creation
  stranded, \* history: accounts whose creator failed before its row named them
  loose     \* history: rows whose account was started behind their switch, and not stopped since

sbounds == <<requests, throws>>
shistory == <<doubled, stranded, loose>>
svars == <<row, terminal, made, cache, call, requests, throws, doubled, stranded, loose>>

Calls == WebCalls \cup WorkerCalls
Terminals == 1..MaxTerminals
Process(c) == IF c \in WebCalls THEN "web" ELSE "worker"

DeploymentState == {"DEPLOYED", "UNDEPLOYED", "DEPLOYING", "UNDEPLOYING"}
RowType ==
  [enabled : BOOLEAN, status : {"DISCONNECTED", "CONNECTED", "CONNECTING", "ERROR"}, at : 0..MaxTerminals,
   shown : {"none", "UNKNOWN"} \cup DeploymentState]
Opening == {"getAccount", "deploy", "waitConnected"}
Steps ==
  Opening \cup {"none", "connection", "waiting", "read", "lookup", "createAccount", "information",
                "close", "undeploy", "start", "ask", "store"}
CallType ==
  [step : Steps, kind : {"none", "connect", "sweep", "disconnect", "disable", "enable", "view"},
   row : Rows \cup {NoRow}, at : 0..MaxTerminals, saw : {"none", "CREATED", "UNKNOWN"} \cup DeploymentState,
   cached : BOOLEAN, on : Calls \cup {NoCall}, created : BOOLEAN, was : {"none", "DISCONNECTED", "CONNECTED", "CONNECTING", "ERROR"}]
NoneInFlight ==
  [step |-> "none", kind |-> "none", row |-> NoRow, at |-> 0, saw |-> "none", cached |-> FALSE,
   on |-> NoCall, created |-> FALSE, was |-> "none"]

SessionsType ==
  /\ row \in [Rows -> RowType]
  /\ terminal \in [Terminals -> {"none", "CREATED"} \cup DeploymentState]
  /\ made \in 0..MaxTerminals /\ \A t \in Terminals : terminal[t] = "none" <=> t > made
  /\ cache \in [{"web", "worker"} \X Terminals -> {"none", "open"} \cup Calls]
  /\ call \in [Calls -> CallType]
  /\ requests \in 0..MaxRequests /\ throws \in 0..MaxThrows
  /\ doubled \in BOOLEAN /\ stranded \subseteq Terminals /\ loose \subseteq Rows

\* Rows are as createAccount left them, or one was connected before the processes restarted.
SessionsInit ==
  /\ \E connected \in {{}, {CHOOSE r \in Rows : TRUE}} :
       /\ row = [r \in Rows |->
            IF r \in connected THEN [enabled |-> TRUE, status |-> "CONNECTED", at |-> 1, shown |-> "none"]
            ELSE [enabled |-> TRUE, status |-> "DISCONNECTED", at |-> 0, shown |-> "none"]]
       /\ made = IF connected = {} THEN 0 ELSE 1
       /\ terminal = [t \in Terminals |-> IF t <= made THEN "DEPLOYED" ELSE "none"]
  /\ cache = [e \in {"web", "worker"} \X Terminals |-> "none"]
  /\ call = [c \in Calls |-> NoneInFlight]
  /\ requests = 0 /\ throws = 0 /\ doubled = FALSE /\ stranded = {} /\ loose = {}

Entry(c) == <<Process(c), call[c].at>>
Goto(c, step) == call' = [call EXCEPT ![c].step = step]
Finish(c, saw) == call' = [call EXCEPT ![c].step = "store", ![c].saw = saw]

-----------------------------------------------------------------------------
(* Who calls.                                                              *)

\* A call begins with the row as it reads it.
Begin(c, kind, r, step) ==
  /\ call[c].step = "none"
  /\ call' = [call EXCEPT ![c] =
       [NoneInFlight EXCEPT !.kind = kind, !.row = r, !.step = step, !.at = row[r].at,
                            !.was = row[r].status]]
  /\ UNCHANGED <<terminal, made, cache, throws, shistory>>

\* Idle calls are alike: a request takes the first of them.
Ask(c, kind, r, step) ==
  /\ c = CHOOSE w \in WebCalls : call[w].step = "none" \/ \A v \in WebCalls : call[v].step # "none"
  /\ requests < MaxRequests /\ requests' = requests + 1
  /\ Begin(c, kind, r, step)

\* The account card: what its buttons and its switch ask for.
Buttons(r) ==
  {IF row[r].enabled THEN "disable" ELSE "enable"}
    \cup (IF ~row[r].enabled THEN {} ELSE IF row[r].status = "CONNECTED" THEN {"disconnect"} ELSE {"connect"})

\* connectAccount of the service, up to the provider.
Connect(c, r) ==
  /\ "connect" \in Buttons(r)
  /\ row' = [row EXCEPT ![r].status = "CONNECTING"]
  /\ Ask(c, "connect", r, "lookup")

\* disconnectAccount of the service, up to the provider.
Disconnect(c, r) ==
  /\ "disconnect" \in Buttons(r)
  /\ Ask(c, "disconnect", r, "close")
  /\ UNCHANGED row

\* setAccountEnabled, up to the provider if it knows the account.
SetEnabled(c, r) ==
  /\ \E kind \in Buttons(r) \cap {"disable", "enable"} :
       Ask(c, kind, r, IF row[r].at = 0 THEN "store" ELSE IF kind = "enable" THEN "start" ELSE "close")
  /\ UNCHANGED row

\* refreshProviderStates, as the account page is loaded.
View(c, r) ==
  /\ row[r].at # 0
  /\ Ask(c, "view", r, "ask")
  /\ UNCHANGED row

\* Mutant: a session is established whatever the status.
EnsureAnySession(c, r) ==
  /\ c \in WorkerCalls /\ row[r].at # 0
  /\ Begin(c, "sweep", r, "connection")
  /\ UNCHANGED <<row, requests>>

\* reconcileAccount: ensureProviderSession with recovery.
EnsureProviderSession(c, r) ==
  /\ c \in WorkerCalls /\ row[r].at # 0 /\ row[r].status \in {"CONNECTED", "ERROR"}
  /\ Begin(c, "sweep", r, "connection")
  /\ UNCHANGED <<row, requests>>

-----------------------------------------------------------------------------
(* MetaApiProvider: connections.                                           *)

\* connection: the cached promise, or a new one.
Connection(c) ==
  /\ call[c].step = "connection"
  /\ IF cache[Entry(c)] = "none"
     THEN /\ cache' = [cache EXCEPT ![Entry(c)] = c]
          /\ call' = [call EXCEPT ![c].step = "getAccount", ![c].cached = TRUE]
     ELSE /\ call' = [call EXCEPT ![c].step = IF cache[Entry(c)] = "open" THEN "read" ELSE "waiting",
                                  ![c].on = IF cache[Entry(c)] = "open" THEN NoCall ELSE cache[Entry(c)]]
          /\ UNCHANGED cache
  /\ UNCHANGED <<row, terminal, made, sbounds, shistory>>

GetAccount(c) ==
  /\ call[c].step = "getAccount"
  /\ call' = [call EXCEPT ![c].step = "deploy", ![c].saw = terminal[call[c].at]]
  /\ UNCHANGED <<row, terminal, made, cache, sbounds, shistory>>

\* The provider takes an account to be run, or stopped; it does so in its own time.
Order(t, state) ==
  terminal' = [terminal EXCEPT ![t] =
    IF <<state, @>> \in {<<"DEPLOYING", "DEPLOYED">>, <<"UNDEPLOYING", "UNDEPLOYED">>} THEN @ ELSE state]

\* Mutant: only an account never run before is deployed.
DeployNew(c) ==
  /\ call[c].step = "deploy"
  /\ IF call[c].saw = "CREATED" THEN Order(call[c].at, "DEPLOYING") ELSE UNCHANGED terminal
  /\ Goto(c, "waitConnected")
  /\ UNCHANGED <<row, made, cache, sbounds, shistory>>

\* The call began for a row that was to be connected, or was.
Meant(c) == call[c].kind \in {"connect", "enable"} \/ call[c].was \in {"CONNECTED", "ERROR"}

\* It starts the account of a row that is switched off, or beside a request about that row.
Contested(c) ==
  \/ call[c].kind # "enable" /\ ~row[call[c].row].enabled
  \/ \E d \in Calls \ {c} : call[d].row = call[c].row /\ call[d].kind \in {"disable", "enable", "view"}
StartedBehind(c) == IF Contested(c) /\ Meant(c) THEN {call[c].row} ELSE {}

\* openConnection: an account that was not running when it was read is deployed.
Deploy(c) ==
  /\ call[c].step = "deploy"
  /\ IF call[c].saw # "DEPLOYED"
     THEN /\ Order(call[c].at, "DEPLOYING")
          /\ loose' = loose \cup StartedBehind(c)
     ELSE UNCHANGED <<terminal, loose>>
  /\ Goto(c, "waitConnected")
  /\ UNCHANGED <<row, made, cache, sbounds, doubled, stranded>>

\* The opening call and those that wait for its promise.
Sharing(c) == {c} \cup {d \in Calls : call[d].step = "waiting" /\ call[d].on = c}

\* The connection is open: the promise resolves for all who wait for it, and connectAccount
\* puts its own in place of what the cache held.
WaitConnected(c) ==
  /\ call[c].step = "waitConnected" /\ terminal[call[c].at] = "DEPLOYED"
  /\ IF call[c].cached
     THEN /\ call' = [d \in Calls |->
               IF d \in Sharing(c) THEN [call[d] EXCEPT !.step = "read", !.on = NoCall, !.cached = FALSE] ELSE call[d]]
          /\ cache' = [cache EXCEPT ![Entry(c)] = IF @ = c THEN "open" ELSE @]
     ELSE /\ Goto(c, "information")
          /\ cache' = [cache EXCEPT ![Entry(c)] = "open"]
  /\ UNCHANGED <<row, terminal, made, sbounds, shistory>>

\* A failed read of the sweep turns to the stored credentials; a connect gives up.
Refused(d) ==
  IF d.kind = "sweep" THEN [d EXCEPT !.step = "lookup", !.on = NoCall, !.cached = FALSE, !.saw = "none"]
  ELSE [d EXCEPT !.step = "store", !.on = NoCall, !.cached = FALSE, !.saw = "UNKNOWN"]

\* Mutant: a promise that was rejected stays cached.
OpeningFailsCached(c) ==
  /\ call' = [d \in Calls |-> IF d \in Sharing(c) THEN Refused(call[d]) ELSE call[d]]
  /\ UNCHANGED <<row, terminal, made, cache, requests, shistory>>

\* connection: what was opening for all who wait is rejected, and whatever the cache
\* holds for the account by now is deleted.
OpeningFails(c) ==
  /\ call' = [d \in Calls |-> IF d \in Sharing(c) THEN Refused(call[d]) ELSE call[d]]
  /\ cache' = [cache EXCEPT ![Entry(c)] = "none"]
  /\ UNCHANGED <<row, terminal, made, requests, shistory>>

\* connectAccount: the caller is told, and the cache left alone.
ConnectFails(c) ==
  /\ Finish(c, "UNKNOWN")
  /\ UNCHANGED <<row, terminal, made, cache, requests, shistory>>

\* waitConnected gives up on an account nobody is starting.
TimesOut(c) ==
  /\ call[c].step = "waitConnected" /\ terminal[call[c].at] \notin {"DEPLOYED", "DEPLOYING"}
  /\ IF call[c].cached THEN OpeningFails(c) ELSE ConnectFails(c)
  /\ UNCHANGED throws

\* getAccountInfo and getPositions over the connection: they need the account to run.
Read(c) ==
  /\ call[c].step = "read"
  /\ IF terminal[call[c].at] = "DEPLOYED"
     THEN Finish(c, "DEPLOYED")
     ELSE call' = [call EXCEPT ![c] = Refused(@)]
  /\ UNCHANGED <<row, terminal, made, cache, sbounds, shistory>>

-----------------------------------------------------------------------------
(* MetaApiProvider: connectAccount, undeployAccount, deployAccount.        *)

\* connectAccount: the account of this login and server, whichever is found first.
Lookup(c) ==
  /\ call[c].step = "lookup"
  /\ IF made = 0 THEN Goto(c, "createAccount")
     ELSE \E t \in 1..made : call' = [call EXCEPT ![c].step = "deploy", ![c].at = t, ![c].saw = terminal[t]]
  /\ doubled' = (doubled \/ (made = 0 /\ \E d \in Calls \ {c} : call[d].step = "createAccount"))
  /\ UNCHANGED <<row, terminal, made, cache, sbounds, stranded, loose>>

\* A lookup that fails is taken for one that found nothing.
LookupThrows(c) ==
  /\ call[c].step = "lookup" /\ made < MaxTerminals /\ throws < MaxThrows /\ throws' = throws + 1
  /\ Goto(c, "createAccount")
  /\ doubled' = TRUE
  /\ UNCHANGED <<row, terminal, made, cache, requests, stranded, loose>>

CreateAccount(c) ==
  /\ call[c].step = "createAccount" /\ made < MaxTerminals
  /\ made' = made + 1
  /\ terminal' = [terminal EXCEPT ![made + 1] = "CREATED"]
  /\ call' = [call EXCEPT ![c].step = "deploy", ![c].at = made + 1, ![c].saw = "CREATED", ![c].created = TRUE]
  /\ UNCHANGED <<row, cache, sbounds, shistory>>

\* The account is there and answers: connectAccount of the service reads it once more
\* over the cached connection, the sweep goes on with it.
Information(c) ==
  /\ call[c].step = "information"
  /\ IF terminal[call[c].at] = "DEPLOYED" /\ call[c].kind = "connect"
     THEN Goto(c, "connection")
     ELSE Finish(c, IF terminal[call[c].at] = "DEPLOYED" THEN "DEPLOYED" ELSE "UNKNOWN")
  /\ UNCHANGED <<row, terminal, made, cache, sbounds, shistory>>

\* disconnectAccount of the provider: this process forgets its connection.
Close(c) ==
  /\ call[c].step = "close"
  /\ cache' = [cache EXCEPT ![Entry(c)] = "none"]
  /\ Goto(c, IF call[c].kind = "disable" THEN "undeploy" ELSE "store")
  /\ UNCHANGED <<row, terminal, made, sbounds, shistory>>

\* undeployAccount and deployAccount: the order is taken, and waited for a while.
Undeploy(c) ==
  /\ call[c].step = "undeploy"
  /\ Order(call[c].at, "UNDEPLOYING")
  /\ Goto(c, "ask")
  /\ loose' = {}
  /\ UNCHANGED <<row, made, cache, sbounds, doubled, stranded>>
Start(c) ==
  /\ call[c].step = "start"
  /\ Order(call[c].at, "DEPLOYING")
  /\ Goto(c, "ask")
  /\ loose' = loose \cup StartedBehind(c)
  /\ UNCHANGED <<row, made, cache, sbounds, doubled, stranded>>

\* readDeploymentState: what the provider says it is doing.
GetDeploymentState(c) ==
  /\ call[c].step = "ask"
  /\ Finish(c, IF terminal[call[c].at] \in DeploymentState THEN terminal[call[c].at] ELSE "UNKNOWN")
  /\ UNCHANGED <<row, terminal, made, cache, sbounds, shistory>>

-----------------------------------------------------------------------------
(* What is stored of it.                                                   *)

\* The row once the call is done: the service's update after the provider answered.
After(c) ==
  LET r == row[call[c].row]
      ok == call[c].saw = "DEPLOYED"
  IN CASE call[c].kind = "connect" /\ ok -> [r EXCEPT !.status = "CONNECTED", !.at = call[c].at]
       [] call[c].kind = "connect" /\ ~ok -> [r EXCEPT !.status = "ERROR"]
       [] call[c].kind = "sweep" /\ ok ->
            [r EXCEPT !.at = call[c].at, !.status = IF call[c].was = "ERROR" THEN "CONNECTED" ELSE @]
       [] call[c].kind = "sweep" /\ ~ok -> [r EXCEPT !.status = "ERROR"]
       [] call[c].kind = "disconnect" -> [r EXCEPT !.status = "DISCONNECTED"]
       [] call[c].kind = "disable" ->
            [r EXCEPT !.enabled = FALSE, !.status = "DISCONNECTED", !.shown = call[c].saw]
       [] call[c].kind = "enable" -> [r EXCEPT !.enabled = TRUE, !.shown = call[c].saw]
       [] call[c].kind = "view" -> [r EXCEPT !.shown = call[c].saw]

Store(c) ==
  /\ call[c].step = "store"
  /\ row' = [row EXCEPT ![call[c].row] = After(c)]
  /\ call' = [call EXCEPT ![c] = NoneInFlight]
  /\ stranded' = stranded \cup
       (IF call[c].created /\ call[c].kind \in {"connect", "sweep"} /\ call[c].saw # "DEPLOYED"
        THEN {call[c].at} ELSE {})
  /\ loose' = loose \cup
       (IF call[c].at # row[call[c].row].at
           /\ (call[c].kind = "disable" \/ (call[c].kind = "connect" /\ call[c].saw # "DEPLOYED"))
        THEN {call[c].row} ELSE {})
  /\ UNCHANGED <<terminal, made, cache, sbounds, doubled>>

\* A call to the provider throws.  Disabling goes on regardless; enabling gives up, though
\* the order may have been taken; a state that cannot be read is unknown.
Throw(c) ==
  /\ throws < MaxThrows /\ throws' = throws + 1
  /\ \/ call[c].step \in Opening /\ IF call[c].cached THEN OpeningFails(c) ELSE ConnectFails(c)
     \/ /\ call[c].step \in {"createAccount", "information"} /\ Finish(c, "UNKNOWN")
        /\ UNCHANGED <<row, terminal, made, cache, requests, shistory>>
     \/ /\ call[c].step = "read" /\ call' = [call EXCEPT ![c] = Refused(@)]
        /\ UNCHANGED <<row, terminal, made, cache, requests, shistory>>
     \/ /\ call[c].step = "undeploy" /\ Goto(c, "ask")
        /\ UNCHANGED <<row, terminal, made, cache, requests, shistory>>
     \/ /\ call[c].step = "start" /\ call' = [call EXCEPT ![c] = NoneInFlight]
        /\ \/ UNCHANGED <<terminal, loose>>
           \/ Order(call[c].at, "DEPLOYING") /\ loose' = loose \cup {call[c].row}
        /\ UNCHANGED <<row, made, cache, requests, doubled, stranded>>
     \/ /\ call[c].step = "ask" /\ Finish(c, "UNKNOWN")
        /\ UNCHANGED <<row, terminal, made, cache, requests, shistory>>

\* The provider gets to it.
Settle(t) ==
  /\ terminal[t] \in {"DEPLOYING", "UNDEPLOYING"}
  /\ terminal' = [terminal EXCEPT ![t] = IF @ = "DEPLOYING" THEN "DEPLOYED" ELSE "UNDEPLOYED"]
  /\ UNCHANGED <<row, made, cache, call, sbounds, shistory>>

SessionStep(c) ==
  \/ Connection(c) \/ GetAccount(c) \/ Deploy(c) \/ WaitConnected(c) \/ TimesOut(c) \/ Read(c)
  \/ Lookup(c) \/ CreateAccount(c) \/ Information(c) \/ Close(c) \/ Undeploy(c) \/ Start(c)
  \/ GetDeploymentState(c) \/ Store(c)
SessionsNext ==
  \/ \E c \in Calls, r \in Rows :
       Connect(c, r) \/ Disconnect(c, r) \/ SetEnabled(c, r) \/ View(c, r) \/ EnsureProviderSession(c, r)
  \/ \E c \in Calls : SessionStep(c) \/ LookupThrows(c) \/ Throw(c)
  \/ \E t \in Terminals : Settle(t)

-----------------------------------------------------------------------------
(* Properties.                                                             *)

\* What a process has cached for an account is open or being opened by the call that put
\* it there, however openings fail, are dropped by a disconnect or are overtaken: no
\* request waits for, or is handed, a connection that failed (connection in
\* MetaApiProvider.ts, "A failed construction must not be cached").
CacheIsSound ==
  /\ \A e \in DOMAIN cache : cache[e] \in Calls =>
       /\ call[cache[e]].step \in Opening /\ call[cache[e]].cached
       /\ Entry(cache[e]) = e
  /\ \A c \in Calls : call[c].step = "waiting" => call[call[c].on].step \in Opening /\ call[call[c].on].cached

\* One login has one account at the provider, and it stays in somebody's hand: a row names
\* it, or a call that will store it.  Exceptions: a lookup that failed, or ran beside the
\* creation; a first connection that failed once the account was made (connectAccount).
TerminalsInHand ==
  /\ made > 1 => doubled
  /\ \A t \in 1..made : \/ t \in stranded \/ doubled
                        \/ \E r \in Rows : row[r].at = t
                        \/ \E c \in Calls : call[c].at = t

Quiet(r) == \A c \in Calls : call[c].row # r
Off(r) == ~row[r].enabled /\ row[r].status = "DISCONNECTED" /\ Quiet(r) /\ r \notin loose
NeverConnected(r) == row[r].at = 0 /\ row[r].status = "DISCONNECTED" /\ Quiet(r) /\ r \notin loose

\* An account every member has switched off is stopped, or the page of one says the provider
\* does not agree, however requests and sessions overlap.  Exceptions (loose): a session or an
\* enable starts it behind the switch, or beside another request about the row; the switch read
\* the row before a first connect named its account; a first connect fails once the account runs;
\* an enable whose answer is lost.  And a second account of the login, doubled
\* (setAccountEnabled, providerMismatch).
DisabledIsStoppedOrSaid ==
  \A t \in Terminals :
    LET here == {r \in Rows : row[r].at = t}
    IN here # {} /\ ~doubled /\ (\A r \in Rows : Off(r) \/ NeverConnected(r))
         => terminal[t] \in {"UNDEPLOYING", "UNDEPLOYED"}
            \/ \E r \in here : row[r].shown \in {"DEPLOYED", "DEPLOYING", "UNKNOWN"}

\* An account that is linked and switched on is, again and again, connected and run, although
\* sessions fail and another member of the same login may switch it off under it
\* (ensureProviderSession, reconcileAllAccounts).
EnabledRuns ==
  \A r \in Rows : []<>(row[r].enabled /\ row[r].at # 0 /\ row[r].status \in {"CONNECTED", "ERROR"}
                         => row[r].status = "CONNECTED" /\ terminal[row[r].at] = "DEPLOYED")
=============================================================================
