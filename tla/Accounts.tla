------------------------------ MODULE Accounts ------------------------------
(***************************************************************************)
(* One trading account: its row, the provider's deployment of it, the      *)
(* positions its broker holds and the mappings the platform keeps of them. *)
(* Four parties write the row with no lock between them: the member's web  *)
(* requests (connect, disconnect, enable, disable, sync), the sweep that   *)
(* reconciles the account with its broker, the copy engine, and the member *)
(* starting or pausing the copy.  One action is the code between two       *)
(* awaits.  The copy engine is reduced to the writes the sweep can meet.   *)
(***************************************************************************)
EXTENDS Integers, FiniteSets

CONSTANTS
  Copies,       \* the master positions that are copied to the account
  Requests,     \* web requests at work at once
  NoCopy,
  MaxRequests,  \* bound: requests of the member in all
  MaxToggles,   \* bound: starts and pauses of the copy
  MaxTickets,   \* bound: tickets the broker issues
  MaxFailures   \* bound: calls that throw and processes that die

ASSUME CopiesAssumption == NoCopy \notin Copies
ASSUME BoundsAssumption ==
  {MaxRequests, MaxToggles, MaxTickets, MaxFailures} \subseteq Nat

VARIABLES
  status,      \* connectionStatus
  enabled,     \* isEnabled: what the member asked for
  linked,      \* providerAccountId is stored
  lastError,   \* lastError and lastErrorCode: none, other, or auth (rejected)
  openTrades,
  copying,     \* the subscription is COPYING
  shown,       \* the account shows COPYING
  deployed,    \* the provider runs the account
  live,        \* tickets of the positions open at the broker
  issued,      \* tickets the broker has issued: 1 .. issued
  deals,       \* tickets whose closing deal the broker reports
  mapping,     \* PositionMapping, by copy
  pc, read,    \* each request: its next step and the positions it counted
  sweep,       \* the sweep's next step
  was,         \* the status and error the sweep read at its start
  snap, todo,  \* its snapshot of the broker's tickets; mappings still to update
  job,         \* the copy engine: its step, copy and ticket
  requests, toggles, failures,
  overlapped,  \* history: a request ran beside another, a sweep or a copy
  raced        \* history: a copy ran beside the sweep's comparison

row     == <<status, enabled, linked, lastError>>
copy    == <<copying, shown>>
broker  == <<live, issued, deals>>
request == <<pc, read>>
sweeper == <<sweep, was, snap, todo>>
bounds  == <<requests, toggles, failures>>
history == <<overlapped, raced>>
vars    == <<row, openTrades, copy, deployed, broker, mapping, request, sweeper,
             job, bounds, history>>

Status == {"DISCONNECTED", "CONNECTING", "CONNECTED", "ERROR"}
Errors == {"none", "other", "auth"}
MappingStatus == {"none", "OPEN", "PARTIALLY_CLOSED", "CLOSED"}
MappingType == [status : MappingStatus, ticket : Nat, result : BOOLEAN]
RequestPC == {"idle", "connect", "reach", "connected", "rejected", "unreachable",
              "disconnect", "undeploy", "disable", "deploy", "enable", "sync", "synced"}
SweepPC == {"idle", "read", "session", "positions", "mappings", "closing", "backfill",
            "failed"}
JobPC == {"idle", "order", "map", "count", "close", "unmap", "uncount", "part", "remap"}
JobType == [step : JobPC, copy : Copies \cup {NoCopy}, ticket : Nat]

RowType ==
  /\ status \in Status /\ lastError \in Errors /\ openTrades \in Int
  /\ enabled \in BOOLEAN /\ linked \in BOOLEAN /\ deployed \in BOOLEAN
  /\ copying \in BOOLEAN /\ shown \in BOOLEAN
TicketType ==
  /\ issued \in Nat
  /\ live \subseteq 1 .. issued /\ deals \subseteq 1 .. issued /\ snap \subseteq 1 .. issued
RequestType == pc \in [Requests -> RequestPC] /\ read \in [Requests -> Nat]
SweepType == sweep \in SweepPC /\ was \in Status \X Errors /\ todo \subseteq Copies
JobsType == job \in JobType /\ (job.step # "idle" => job.copy \in Copies)
CountType ==
  /\ requests \in Nat /\ toggles \in Nat /\ failures \in Nat
  /\ overlapped \in BOOLEAN /\ raced \in BOOLEAN

TypeOK ==
  /\ RowType /\ TicketType /\ RequestType /\ SweepType /\ JobsType /\ CountType
  /\ mapping \in [Copies -> MappingType]

NoMapping == [status |-> "none", ticket |-> 0, result |-> FALSE]
NotRead == <<"DISCONNECTED", "none">>
NoJob == [step |-> "idle", copy |-> NoCopy, ticket |-> 0]

\* createAccount: credentials stored, never connected, nothing at the provider.
Init ==
  /\ status = "DISCONNECTED" /\ enabled = TRUE /\ linked = FALSE
  /\ lastError = "none"
  /\ openTrades = 0
  /\ copying = FALSE /\ shown = FALSE /\ deployed = FALSE
  /\ live = {} /\ issued = 0 /\ deals = {}
  /\ mapping = [c \in Copies |-> NoMapping]
  /\ pc = [r \in Requests |-> "idle"] /\ read = [r \in Requests |-> 0]
  /\ sweep = "idle" /\ was = NotRead /\ snap = {} /\ todo = {}
  /\ job = NoJob
  /\ requests = 0 /\ toggles = 0 /\ failures = 0
  /\ overlapped = FALSE /\ raced = FALSE

Open(c) == mapping[c].status \in {"OPEN", "PARTIALLY_CLOSED"}
NoRequest == \A r \in Requests : pc[r] = "idle"
Comparing == sweep \in {"mappings", "closing"}

-----------------------------------------------------------------------------
(* The member's requests.                                                  *)

\* A request arrives, reads the account and passes its guards.
Begin(r, step) ==
  /\ pc[r] = "idle"
  /\ requests < MaxRequests
  /\ requests' = requests + 1
  /\ pc' = [pc EXCEPT ![r] = step]
  /\ overlapped' = (overlapped \/ ~NoRequest \/ sweep # "idle" \/ job.step # "idle")
  /\ UNCHANGED <<row, openTrades, copy, deployed, broker, mapping, read, sweeper, job,
                 toggles, failures, raced>>

\* Mutant: connect does not look at isEnabled.
ConnectAny(r) == lastError # "auth" /\ Begin(r, "connect")

\* connectAccount refuses a disabled account and credentials the broker rejected.
Connect(r) == enabled /\ lastError # "auth" /\ Begin(r, "connect")
Disconnect(r) == Begin(r, "disconnect")
\* Only an account known at the provider is undeployed or deployed there.
Disable(r) == enabled /\ ~shown /\ Begin(r, IF linked THEN "undeploy" ELSE "disable")
Enable(r) == ~enabled /\ Begin(r, IF linked THEN "deploy" ELSE "enable")
Sync(r) == enabled /\ status = "CONNECTED" /\ linked /\ Begin(r, "sync")

Goto(r, from, to) == pc[r] = from /\ pc' = [pc EXCEPT ![r] = to]

MarkConnecting(r) ==
  /\ Goto(r, "connect", "reach")
  /\ status' = "CONNECTING" /\ lastError' = "none"
  /\ UNCHANGED <<enabled, linked, openTrades, copy, deployed, broker, mapping, read,
                 sweeper, job, bounds, history>>

\* The provider deploys what is not deployed, connects and reports the positions.
ReachBroker(r) ==
  /\ \/ Goto(r, "reach", "connected")
     \/ Goto(r, "sync", "synced")
  /\ deployed' = TRUE
  /\ read' = [read EXCEPT ![r] = Cardinality(live)]
  /\ UNCHANGED <<row, openTrades, copy, broker, mapping, sweeper, job, bounds, history>>

StoreConnected(r) ==
  /\ Goto(r, "connected", "idle")
  /\ status' = "CONNECTED" /\ linked' = TRUE /\ lastError' = "none"
  /\ openTrades' = read[r]
  /\ read' = [read EXCEPT ![r] = 0]
  /\ UNCHANGED <<enabled, copy, deployed, broker, mapping, sweeper, job, bounds, history>>

StoreError(r) ==
  /\ \/ Goto(r, "rejected", "idle") /\ lastError' = "auth"
     \/ Goto(r, "unreachable", "idle") /\ lastError' = "other"
  /\ status' = "ERROR"
  /\ UNCHANGED <<enabled, linked, openTrades, copy, deployed, broker, mapping, read,
                 sweeper, job, bounds, history>>

\* The provider only closes its socket; an error of it is logged.
StoreDisconnected(r) ==
  /\ Goto(r, "disconnect", "idle")
  /\ status' = "DISCONNECTED" /\ shown' = FALSE
  /\ UNCHANGED <<enabled, linked, lastError, openTrades, copying, deployed, broker,
                 mapping, read, sweeper, job, bounds, history>>

Undeploy(r) ==
  /\ Goto(r, "undeploy", "disable")
  /\ deployed' = FALSE
  /\ UNCHANGED <<row, openTrades, copy, broker, mapping, read, sweeper, job, bounds,
                 history>>

StoreDisabled(r) ==
  /\ Goto(r, "disable", "idle")
  /\ enabled' = FALSE /\ status' = "DISCONNECTED"
  /\ shown' = FALSE /\ openTrades' = 0
  /\ UNCHANGED <<linked, lastError, copying, deployed, broker, mapping, read, sweeper,
                 job, bounds, history>>

Deploy(r) ==
  /\ Goto(r, "deploy", "enable")
  /\ deployed' = TRUE
  /\ UNCHANGED <<row, openTrades, copy, broker, mapping, read, sweeper, job, bounds,
                 history>>

StoreEnabled(r) ==
  /\ Goto(r, "enable", "idle")
  /\ enabled' = TRUE /\ lastError' = "none"
  /\ UNCHANGED <<status, linked, openTrades, copy, deployed, broker, mapping, read,
                 sweeper, job, bounds, history>>

StoreSynced(r) ==
  /\ Goto(r, "synced", "idle")
  /\ openTrades' = read[r]
  /\ read' = [read EXCEPT ![r] = 0]
  /\ UNCHANGED <<row, copy, deployed, broker, mapping, sweeper, job, bounds, history>>

Fail == failures < MaxFailures /\ failures' = failures + 1

\* A provider call throws, possibly after the provider has acted: connect records
\* why, disable goes on, enable and sync give up.
ProviderThrows(r) ==
  /\ Fail
  /\ \/ /\ \/ Goto(r, "reach", "rejected")
           \/ Goto(r, "reach", "unreachable")
           \/ Goto(r, "deploy", "idle")
           \/ Goto(r, "sync", "idle")
        /\ deployed' \in {deployed, TRUE}
     \/ /\ Goto(r, "undeploy", "disable")
        /\ deployed' \in {deployed, FALSE}
  /\ UNCHANGED <<row, openTrades, copy, broker, mapping, read, sweeper, job, requests,
                 toggles, history>>

\* The web process dies or a database call of the request throws; only connect
\* catches a failure of its last write.
RequestDies(r) ==
  /\ Fail
  /\ \/ pc[r] # "idle" /\ pc' = [pc EXCEPT ![r] = "idle"]
     \/ Goto(r, "connected", "unreachable")
  /\ read' = [read EXCEPT ![r] = 0]
  /\ UNCHANGED <<row, openTrades, copy, deployed, broker, mapping, sweeper, job,
                 requests, toggles, history>>

\* startCopying and pauseCopying, whose own steps are in CopyControl.
Toggle(on) ==
  /\ toggles < MaxToggles
  /\ copying # on
  /\ toggles' = toggles + 1
  /\ copying' = on /\ shown' = on
  /\ UNCHANGED <<row, openTrades, deployed, broker, mapping, request, sweeper, job,
                 requests, failures, history>>

StartCopying == status = "CONNECTED" /\ Toggle(TRUE)
PauseCopying == Toggle(FALSE)

-----------------------------------------------------------------------------
(* The sweep: reconcileAllAccounts on this account, one pass at a time.    *)

SweepGoto(from, to) == sweep = from /\ sweep' = to
PassEnds == sweep' = "idle" /\ was' = NotRead /\ snap' = {} /\ todo' = {}

\* Mutant: the sweep leaves out accounts in ERROR.
ListConnected ==
  /\ SweepGoto("idle", "read")
  /\ status = "CONNECTED" /\ linked
  /\ overlapped' = (overlapped \/ ~NoRequest)
  /\ UNCHANGED <<row, openTrades, copy, deployed, broker, mapping, request, was, snap,
                 todo, job, bounds, raced>>

\* The account is listed; other accounts may be reconciled before its turn comes.
ListAccount ==
  /\ SweepGoto("idle", "read")
  /\ status \in {"CONNECTED", "ERROR"} /\ linked
  /\ overlapped' = (overlapped \/ ~NoRequest)
  /\ UNCHANGED <<row, openTrades, copy, deployed, broker, mapping, request, was, snap,
                 todo, job, bounds, raced>>

ReadAccount ==
  /\ IF status \in {"CONNECTED", "ERROR"}
       THEN /\ SweepGoto("read", "session")
            /\ was' = <<status, lastError>>
            /\ UNCHANGED <<snap, todo>>
       ELSE sweep = "read" /\ PassEnds
  /\ UNCHANGED <<row, openTrades, copy, deployed, broker, mapping, request, job, bounds,
                 history>>

\* ensureProviderSession with allowRecovery reads the status again.
EnsureSession ==
  /\ SweepGoto("session", IF status \in {"CONNECTED", "ERROR"} THEN "positions" ELSE "failed")
  /\ UNCHANGED <<row, openTrades, copy, deployed, broker, mapping, request, was, snap,
                 todo, job, bounds, history>>

\* Any call to the provider deploys the account again.
GetPositions ==
  /\ SweepGoto("positions", "mappings")
  /\ deployed' = TRUE
  /\ snap' = live
  /\ raced' = (raced \/ job.step # "idle")
  /\ UNCHANGED <<row, openTrades, copy, broker, mapping, request, was, todo, job,
                 bounds, overlapped>>

\* Mutant: the filter keeps the tickets the broker does report.
Reported == {c \in Copies : Open(c) /\ mapping[c].ticket \in snap}

\* Mutant: partly closed mappings are not compared.
VanishedOpen ==
  {c \in Copies : mapping[c].status = "OPEN" /\ mapping[c].ticket \notin snap}

Vanished == {c \in Copies : Open(c) /\ mapping[c].ticket \notin snap}

FindVanished ==
  /\ SweepGoto("mappings", "closing")
  /\ todo' = Vanished
  /\ UNCHANGED <<row, openTrades, copy, deployed, broker, mapping, request, was, snap,
                 job, bounds, history>>

\* The update is by the mapping's id, whatever the row says by now.
CloseVanished(c) ==
  /\ sweep = "closing"
  /\ c \in todo
  /\ mapping' = [mapping EXCEPT ![c].status = "CLOSED",
                                ![c].result = mapping[c].ticket \in deals]
  /\ todo' = todo \ {c}
  /\ UNCHANGED <<row, openTrades, copy, deployed, broker, request, sweep, was, snap, job,
                 bounds, history>>

FindMissing ==
  /\ SweepGoto("closing", "backfill")
  /\ todo = {}
  /\ todo' = {c \in Copies : mapping[c].status = "CLOSED" /\ ~mapping[c].result}
  /\ UNCHANGED <<row, openTrades, copy, deployed, broker, mapping, request, was, snap,
                 job, bounds, history>>

\* A result the broker does not report yet is left for a later pass.
Backfill(c) ==
  /\ sweep = "backfill"
  /\ c \in todo
  /\ mapping' = [mapping EXCEPT ![c].result = @ \/ mapping[c].ticket \in deals]
  /\ todo' = todo \ {c}
  /\ UNCHANGED <<row, openTrades, copy, deployed, broker, request, sweep, was, snap, job,
                 bounds, history>>

\* Reaching the broker again clears an earlier failure, as read at the start.
Recovered == was[1] = "ERROR" \/ was[2] # "none"

\* Mutant: an account that recovered keeps its error.
StoreFiguresOnly ==
  /\ sweep = "backfill" /\ todo = {}
  /\ PassEnds
  /\ openTrades' = Cardinality(snap)
  /\ status' = IF Recovered THEN "CONNECTED" ELSE status
  /\ UNCHANGED <<enabled, linked, lastError, copy, deployed, broker, mapping, request,
                 job, bounds, history>>

StoreFigures ==
  /\ sweep = "backfill" /\ todo = {}
  /\ PassEnds
  /\ openTrades' = Cardinality(snap)
  /\ IF Recovered
       THEN status' = "CONNECTED" /\ lastError' = "none"
       ELSE UNCHANGED <<status, lastError>>
  /\ UNCHANGED <<enabled, linked, copy, deployed, broker, mapping, request, job, bounds,
                 history>>

\* The broker cannot be reached, or a call of the pass throws.
SweepThrows ==
  /\ Fail
  /\ sweep \in {"session", "positions", "mappings", "closing", "backfill"}
  /\ sweep' = "failed"
  /\ deployed' \in (IF sweep = "positions" THEN {deployed, TRUE} ELSE {deployed})
  /\ snap' = {} /\ todo' = {}
  /\ UNCHANGED <<row, openTrades, copy, broker, mapping, request, was, job, requests,
                 toggles, history>>

\* lastErrorCode is left as it is.
StoreFailure ==
  /\ sweep = "failed"
  /\ PassEnds
  /\ status' = "ERROR"
  /\ lastError' = IF lastError = "auth" THEN "auth" ELSE "other"
  /\ UNCHANGED <<enabled, linked, openTrades, copy, deployed, broker, mapping, request,
                 job, bounds, history>>

\* The worker dies, or that last write throws, which is ignored.
SweepDies ==
  /\ Fail
  /\ sweep # "idle"
  /\ PassEnds
  /\ UNCHANGED <<row, openTrades, copy, deployed, broker, mapping, request, job,
                 requests, toggles, history>>

-----------------------------------------------------------------------------
(* The copy engine's writes, one job at a time.                            *)

\* The subscription copies, the account is connected and the session is up.
TakeJob(c, step, ticket) ==
  /\ job.step = "idle"
  /\ copying /\ status = "CONNECTED"
  /\ job' = [step |-> step, copy |-> c, ticket |-> ticket]
  /\ deployed' = TRUE
  /\ overlapped' = (overlapped \/ ~NoRequest)
  /\ raced' = (raced \/ Comparing)
  /\ UNCHANGED <<row, openTrades, copy, broker, mapping, request, sweeper, bounds>>

TakeOpen(c) == mapping[c].status = "none" /\ TakeJob(c, "order", 0)
TakeClose(c) == Open(c) /\ TakeJob(c, "close", mapping[c].ticket)
TakePartial(c) == Open(c) /\ TakeJob(c, "part", mapping[c].ticket)

JobGoto(from, to) == job.step = from /\ job' = [job EXCEPT !.step = to]
JobEnds == job' = NoJob

\* The order executes under a ticket of its own.
OrderExecuted ==
  /\ job.step = "order"
  /\ issued < MaxTickets
  /\ issued' = issued + 1
  /\ live' = live \cup {issued'}
  /\ job' = [job EXCEPT !.step = "map", !.ticket = issued']
  /\ UNCHANGED <<row, openTrades, copy, deployed, deals, mapping, request, sweeper,
                 bounds, history>>

CloseExecuted ==
  /\ JobGoto("close", "unmap")
  /\ job.ticket \in live
  /\ live' = live \ {job.ticket}
  /\ UNCHANGED <<row, openTrades, copy, deployed, issued, deals, mapping, request,
                 sweeper, bounds, history>>

\* MT4 closes the ticket and gives the remainder another; MT5 keeps it.
PartialExecuted ==
  /\ job.step = "part"
  /\ job.ticket \in live
  /\ \/ /\ issued < MaxTickets
        /\ issued' = issued + 1
        /\ live' = (live \ {job.ticket}) \cup {issued'}
        /\ job' = [job EXCEPT !.step = "remap", !.ticket = issued']
     \/ /\ job' = [job EXCEPT !.step = "remap"]
        /\ UNCHANGED <<issued, live>>
  /\ UNCHANGED <<row, openTrades, copy, deployed, deals, mapping, request, sweeper,
                 bounds, history>>

\* The broker refuses: the copy is FAILED and nothing else is written.
Refused ==
  /\ \/ job.step = "order"
     \/ job.step \in {"close", "part"} /\ job.ticket \notin live
  /\ JobEnds
  /\ UNCHANGED <<row, openTrades, copy, deployed, broker, mapping, request, sweeper,
                 bounds, history>>

StoreMapping ==
  /\ JobGoto("map", "count")
  /\ mapping' = [mapping EXCEPT ![job.copy] =
                   [status |-> "OPEN", ticket |-> job.ticket, result |-> FALSE]]
  /\ UNCHANGED <<row, openTrades, copy, deployed, broker, request, sweeper, bounds, history>>

StoreRemainder ==
  /\ job.step = "remap"
  /\ JobEnds
  /\ mapping' = [mapping EXCEPT ![job.copy].status = "PARTIALLY_CLOSED",
                                ![job.copy].ticket = job.ticket]
  /\ UNCHANGED <<row, openTrades, copy, deployed, broker, request, sweeper, bounds, history>>

StoreClosed ==
  /\ JobGoto("unmap", "uncount")
  /\ mapping' = [mapping EXCEPT ![job.copy].status = "CLOSED",
                                ![job.copy].result = job.ticket \in deals]
  /\ UNCHANGED <<row, openTrades, copy, deployed, broker, request, sweeper, bounds, history>>

StoreCount ==
  /\ \/ job.step = "count" /\ openTrades' = openTrades + 1
     \/ job.step = "uncount" /\ openTrades' = openTrades - 1
  /\ JobEnds
  /\ UNCHANGED <<row, copy, deployed, broker, mapping, request, sweeper, bounds, history>>

JobDies ==
  /\ Fail
  /\ job.step # "idle"
  /\ JobEnds
  /\ UNCHANGED <<row, openTrades, copy, deployed, broker, mapping, request, sweeper,
                 requests, toggles, history>>

-----------------------------------------------------------------------------
(* The broker.                                                             *)

\* A stop, a target or the member's terminal closes a position.
ClosedOutside(t) ==
  /\ t \in live
  /\ live' = live \ {t}
  /\ UNCHANGED <<row, openTrades, copy, deployed, issued, deals, mapping, request,
                 sweeper, job, bounds, history>>

\* Deals lag the close they belong to.
DealReported(t) ==
  /\ t \in (1 .. issued) \ (live \cup deals)
  /\ deals' = deals \cup {t}
  /\ UNCHANGED <<row, openTrades, copy, deployed, live, issued, mapping, request,
                 sweeper, job, bounds, history>>

-----------------------------------------------------------------------------
Arrives(r) == Connect(r) \/ Disconnect(r) \/ Disable(r) \/ Enable(r) \/ Sync(r)

RequestStep(r) ==
  \/ MarkConnecting(r) \/ ReachBroker(r) \/ StoreConnected(r) \/ StoreError(r)
  \/ StoreDisconnected(r) \/ Undeploy(r) \/ StoreDisabled(r)
  \/ Deploy(r) \/ StoreEnabled(r) \/ StoreSynced(r)

SweepStep ==
  \/ ListAccount \/ ReadAccount \/ EnsureSession \/ GetPositions \/ FindVanished
  \/ \E c \in Copies : CloseVanished(c) \/ Backfill(c)
  \/ FindMissing \/ StoreFigures \/ StoreFailure

JobStep ==
  \/ OrderExecuted \/ CloseExecuted \/ PartialExecuted \/ Refused
  \/ StoreMapping \/ StoreRemainder \/ StoreClosed \/ StoreCount

Next ==
  \/ \E r \in Requests : Arrives(r) \/ RequestStep(r) \/ ProviderThrows(r) \/ RequestDies(r)
  \/ StartCopying \/ PauseCopying
  \/ SweepStep \/ SweepThrows \/ SweepDies
  \/ \E c \in Copies : TakeOpen(c) \/ TakeClose(c) \/ TakePartial(c)
  \/ JobStep \/ JobDies
  \/ \E t \in 1 .. issued : ClosedOutside(t) \/ DealReported(t)

Spec == Init /\ [][Next]_vars

\* A request and a job at work go on unless their process dies, the scheduler
\* starts a pass every minute, and the broker reports each deal at last.
FairSpec ==
  /\ Spec
  /\ \A r \in Requests : WF_vars(RequestStep(r))
  /\ WF_vars(SweepStep)
  /\ WF_vars(JobStep)
  /\ \A t \in 1 .. MaxTickets : WF_vars(DealReported(t))

-----------------------------------------------------------------------------
(* Properties at any overlap of the four parties.                          *)

\* What a copy job relies on when it finds the account CONNECTED: the provider
\* session it needs is stored, and no failure is left on the row.
ConnectedIsClean == status = "CONNECTED" => (linked /\ lastError = "none")

\* "ERROR accounts stay in the sweep, so a broker outage or an expired session
\* heals itself once the account answers again".
ErrorHeals == (status = "ERROR" /\ linked) ~> (status # "ERROR")

Swept == status \in {"CONNECTED", "ERROR"} /\ linked

\* A position that ended at the broker does not stay OPEN in the platform while
\* the account is swept, even when the job that closed or re-ticketed it died.
EndedIsClosed ==
  \A c \in Copies :
    (Open(c) /\ mapping[c].ticket \notin live)
      ~> (mapping[c].status = "CLOSED" \/ mapping[c].ticket \in live \/ ~Swept)

\* "stay null if it has none yet - the sweep fills them in on a later pass".
ResultArrives ==
  \A c \in Copies :
    (mapping[c].status = "CLOSED" /\ ~mapping[c].result)
      ~> (mapping[c].result \/ mapping[c].ticket \in live \/ ~Swept)

\* "The broker is the authority on how many positions are open": whatever counts
\* raced before, the stored count comes to agree with the broker.
CountSettles == <>[](Swept => openTrades = Cardinality(live))

\* The sweep brings the platform's book of an account back to the broker's, whatever a
\* job, a crash or the broker left behind (reconcileAccount).
BookSettles == EndedIsClosed /\ ResultArrives /\ CountSettles

-----------------------------------------------------------------------------
(* A closed mapping and its position.                                      *)

\* "Mappings we believe are open but the broker no longer reports were closed
\* outside the platform": a CLOSED mapping is never that of a live position,
\* which no later close of the master would reach.
ClosedMeansGone ==
  \A c \in Copies : mapping[c].status = "CLOSED" => mapping[c].ticket \notin live

\* It holds as long as no copy runs beside the sweep's comparison, whatever else
\* happens: the two windows of the race are the only ones.
ClosedUnlessRaced == ~raced => ClosedMeansGone

-----------------------------------------------------------------------------
(* Properties of requests that overlap nothing.                            *)

\* "A disabled account is undeployed at the provider and cannot connect, sync or
\* copy": once its request is through, no pass and no job brings it back.
DisabledStaysOff ==
  (~overlapped /\ NoRequest /\ ~enabled) =>
    /\ status = "DISCONNECTED"
    /\ failures = 0 => ~deployed
=============================================================================
