---------------------------- MODULE MasterWatch ----------------------------
(***************************************************************************)
(* A strategy published from a trading account the platform is connected   *)
(* to: the account is polled, its positions are compared with the recorded *)
(* MasterTrade rows and the differences are ingested as events with        *)
(* derived ids.  Polls may overlap (two worker processes, a stalled job).  *)
(*                                                                         *)
(* ingestMasterEvent is two steps here, the nonce and the store; its own   *)
(* interleavings are the subject of MasterIngest.                          *)
(***************************************************************************)
EXTENDS Integers, FiniteSets

CONSTANTS
  Accounts,   \* the owner's trading accounts
  NoAccount,
  Tickets,    \* positions the master may open, each once
  Holder,     \* Holder[t]: the account ticket t is opened on
  Pollers,    \* polls that may be in flight at once
  MaxLots,    \* bound: volume of a position
  Stops,      \* pairs of stop loss and target; 0 is none
  MaxChanges, \* bound: changes the master makes
  MaxDisturbances \* bound: links, status changes, expired nonces and failures, together

ASSUME WatchAssumption ==
  /\ NoAccount \notin Accounts
  /\ Holder \in [Tickets -> Accounts]
  /\ MaxLots \in Nat \ {0}
  /\ Stops \subseteq Nat /\ 0 \in Stops
ASSUME WatchBounds == MaxChanges \in Nat /\ MaxDisturbances \in Nat

VARIABLES
  link,      \* Strategy.masterAccountId
  started,   \* Strategy.watchStartedAt is set
  active,    \* Strategy.status is ACTIVE
  broker,    \* what is open on the accounts, by ticket
  trade,     \* MasterTrade, by ticket
  nonces,    \* event ids Redis holds
  events,    \* TradeEvent rows
  sent,      \* events enqueued for the copy engine
  pc,        \* each poll: its next step,
  at,        \*   the strategy as it read it,
  live,      \*   the positions it read,
  known,     \*   the recorded trades it read,
  todo,      \*   the tickets still to handle,
  chosen,    \*   and the ticket whose change is being stored
  told,      \* history: the stops followers were last told, by ticket
  old,       \* history: tickets open and never recorded when their account was linked
  excused,   \* history: tickets with a change that was lost or never told
  overlap,   \* history: two polls were in flight at once
  raced,     \* history: the link was changed during a poll
  moved,     \* history: another account was linked while recorded positions were open
  changes, disturbances

strategy == <<link, started, active>>
store    == <<trade, nonces, events, sent, told>>
memory   == <<at, live, known, todo, chosen>>
poll     == <<pc, memory>>
history  == <<old, excused, overlap, raced, moved>>
bounds   == <<changes, disturbances>>
vars     == <<strategy, broker, store, poll, history, bounds>>

Lots == 0..MaxLots
\* Volume -1 is a ticket not opened yet, 0 one that is over.
Position == [volume : -1..MaxLots, stops : Stops]
NoPosition == [volume |-> 0, stops |-> 0]
Unopened == [volume |-> -1, stops |-> 0]
TradeType == [status : {"none", "OPEN", "PARTIALLY_CLOSED", "CLOSED"}, volume : Lots, stops : Stops]
NoTrade == [status |-> "none", volume |-> 0, stops |-> 0]
StrategyType == [link : Accounts \cup {NoAccount}, started : BOOLEAN, active : BOOLEAN]
NoStrategy == [link |-> NoAccount, started |-> FALSE, active |-> FALSE]

\* What eventIdFor hashes: the kind, the ticket and the detail of the change.
Id(kind, t, detail) == [kind |-> kind, ticket |-> t, detail |-> detail]
Ids == [kind : {"OPEN", "PARTIAL_CLOSE", "MODIFY", "CLOSE"}, ticket : Tickets,
        detail : Lots \X (Lots \cup Stops)]

PC == {"idle", "load", "positions", "baseline", "known", "publish", "store"}

TypeOK ==
  /\ link \in Accounts \cup {NoAccount}
  /\ started \in BOOLEAN /\ active \in BOOLEAN
  /\ broker \in [Tickets -> Position]
  /\ trade \in [Tickets -> TradeType]
  /\ nonces \subseteq Ids /\ events \subseteq Ids /\ sent \subseteq events
  /\ pc \in [Pollers -> PC]
  /\ at \in [Pollers -> StrategyType]
  /\ live \in [Pollers -> [Tickets -> Position]]
  /\ known \in [Pollers -> [Tickets -> TradeType]]
  /\ todo \in [Pollers -> SUBSET Tickets]
  /\ chosen \in [Pollers -> SUBSET Tickets]
  /\ told \in [Tickets -> Stops]
  /\ old \subseteq Tickets /\ excused \subseteq Tickets
  /\ overlap \in BOOLEAN /\ raced \in BOOLEAN /\ moved \in BOOLEAN
  /\ changes \in Nat /\ disturbances \in Nat

Live(t) == broker[t].volume > 0
IsOpen(row) == row.status \in {"OPEN", "PARTIALLY_CLOSED"}
Idle == \A p \in Pollers : pc[p] = "idle"

Init ==
  /\ link \in Accounts \cup {NoAccount} /\ started = FALSE /\ active = TRUE
  /\ broker \in [Tickets -> {Unopened, [volume |-> MaxLots, stops |-> 0]}]
  /\ trade = [t \in Tickets |-> NoTrade]
  /\ nonces = {} /\ events = {} /\ sent = {}
  /\ pc = [p \in Pollers |-> "idle"]
  /\ at = [p \in Pollers |-> NoStrategy]
  /\ live = [p \in Pollers |-> [t \in Tickets |-> NoPosition]]
  /\ known = [p \in Pollers |-> [t \in Tickets |-> NoTrade]]
  /\ todo = [p \in Pollers |-> {}] /\ chosen = [p \in Pollers |-> {}]
  /\ told = [t \in Tickets |-> 0]
  /\ old = {t \in Tickets : Holder[t] = link /\ Live(t)} /\ excused = {}
  /\ overlap = FALSE /\ raced = FALSE /\ moved = FALSE
  /\ changes = 0 /\ disturbances = 0

-----------------------------------------------------------------------------
(* The differences a poll publishes.                                       *)

\* eventIdFor.
EventIdFor(kind, t, detail) == Id(kind, t, detail)

Change(kind, t, volume, stops, detail) ==
  [id |-> EventIdFor(kind, t, detail), volume |-> volume, stops |-> stops]
NoChange == [id |-> Id("none", {}, <<0, 0>>), volume |-> 0, stops |-> 0]

\* Mutant: a change of stops is not published.
NoModify(t, was, now) ==
  IF ~IsOpen(was)
  THEN IF now.volume > 0 THEN Change("OPEN", t, now.volume, now.stops, <<now.volume, 0>>) ELSE NoChange
  ELSE IF now.volume = 0 THEN Change("CLOSE", t, was.volume, 0, <<0, 0>>)
  ELSE IF now.volume < was.volume
       THEN Change("PARTIAL_CLOSE", t, was.volume - now.volume, now.stops, <<was.volume, now.volume>>)
       ELSE NoChange

\* Mutant: only a row in status OPEN counts as known.
ForgetReduced(t, was, now) ==
  IF was.status # "OPEN"
  THEN IF now.volume > 0 THEN Change("OPEN", t, now.volume, now.stops, <<now.volume, 0>>) ELSE NoChange
  ELSE IF now.volume = 0 THEN Change("CLOSE", t, was.volume, 0, <<0, 0>>)
  ELSE IF now.volume < was.volume
       THEN Change("PARTIAL_CLOSE", t, was.volume - now.volume, now.stops, <<was.volume, now.volume>>)
       ELSE NoChange

\* What the comparison of a recorded trade with a position publishes: an open,
\* a partial close (which carries the stops along), nothing for a larger volume,
\* a change of stops, or a close.
Difference(t, was, now) ==
  IF ~IsOpen(was)
  THEN IF now.volume > 0 THEN Change("OPEN", t, now.volume, now.stops, <<now.volume, 0>>) ELSE NoChange
  ELSE IF now.volume = 0 THEN Change("CLOSE", t, was.volume, 0, <<0, 0>>)
  ELSE IF now.volume < was.volume
       THEN Change("PARTIAL_CLOSE", t, was.volume - now.volume, now.stops, <<was.volume, now.volume>>)
  ELSE IF now.volume = was.volume /\ now.stops # was.stops
       THEN Change("MODIFY", t, now.volume, now.stops, <<0, now.stops>>)
       ELSE NoChange

\* The upsert of storeEvent.
Upserted(row, c) ==
  LET partial == c.id.kind = "PARTIAL_CLOSE"
      left == IF partial /\ row.volume > 0
              THEN IF c.volume < row.volume THEN row.volume - c.volume ELSE 0
              ELSE c.volume
  IN IF row.status = "none"
     THEN [status |-> "OPEN", volume |-> c.volume, stops |-> c.stops]
     ELSE [status |-> CASE c.id.kind = "CLOSE" -> "CLOSED"
                        [] partial -> "PARTIALLY_CLOSED"
                        [] OTHER -> row.status,
           volume |-> left, stops |-> c.stops]

-----------------------------------------------------------------------------
(* The master trades at the broker, the owner links an account.            *)

\* The master opens a ticket, changes its volume or its stops, or it ends.
\* Back at stops it was moved to before, the derived id is already spent.
MasterTrades(t) ==
  /\ changes < MaxChanges /\ changes' = changes + 1
  /\ \E v \in Lots, s \in Stops :
       /\ \/ broker[t] = Unopened /\ v > 0 /\ s = 0
          \/ Live(t) /\ v # broker[t].volume /\ s = (IF v = 0 THEN 0 ELSE broker[t].stops)
          \/ Live(t) /\ v = broker[t].volume /\ s # broker[t].stops
       /\ broker' = [broker EXCEPT ![t] = [volume |-> v, stops |-> s]]
       /\ excused' = IF s # broker[t].stops /\ EventIdFor("MODIFY", t, <<0, s>>) \in nonces \cup events
                     THEN excused \cup {t} ELSE excused
  /\ UNCHANGED <<strategy, store, poll, old, overlap, raced, moved, disturbances>>

\* setStrategyMasterAccount: another account or none; a fresh baseline is due.
SetStrategyMasterAccount(a) ==
  /\ disturbances < MaxDisturbances /\ disturbances' = disturbances + 1
  /\ link' = a /\ started' = FALSE
  /\ old' = old \cup {t \in Tickets : Holder[t] = a /\ Live(t) /\ trade[t].status = "none"}
  /\ raced' = (raced \/ ~Idle)
  /\ moved' = (moved \/ \E t \in Tickets : IsOpen(trade[t]) /\ a \notin {Holder[t], NoAccount})
  /\ UNCHANGED <<active, broker, store, poll, excused, overlap, changes>>

\* setStrategyStatus: paused, or active again.
SetStrategyStatus ==
  /\ disturbances < MaxDisturbances /\ disturbances' = disturbances + 1
  /\ active' = ~active
  /\ UNCHANGED <<link, started, broker, store, poll, history, changes>>

\* A nonce is held for a day.
NonceExpires(id) ==
  /\ disturbances < MaxDisturbances /\ disturbances' = disturbances + 1
  /\ id \in nonces /\ nonces' = nonces \ {id}
  /\ UNCHANGED <<strategy, broker, trade, events, sent, told, poll, history,
                 changes>>

-----------------------------------------------------------------------------
(* A poll, up to the comparison.                                           *)

Goto(p, step) == pc' = [pc EXCEPT ![p] = step]

\* The poll is over and its memory gone.
EndPoll(p) ==
  /\ Goto(p, "idle")
  /\ at' = [at EXCEPT ![p] = NoStrategy]
  /\ live' = [live EXCEPT ![p] = [t \in Tickets |-> NoPosition]]
  /\ known' = [known EXCEPT ![p] = [t \in Tickets |-> NoTrade]]
  /\ todo' = [todo EXCEPT ![p] = {}]
  /\ chosen' = [chosen EXCEPT ![p] = {}]

\* pollAllMasterAccounts lists the active strategies with a master account.
ListStrategies(p) ==
  /\ pc[p] = "idle" /\ active /\ link # NoAccount
  /\ Goto(p, "load")
  /\ overlap' = (overlap \/ ~Idle)
  /\ UNCHANGED <<strategy, broker, store, memory, old, excused, raced, moved, bounds>>

\* pollMasterAccount reads the strategy, and finds its account connected.
LoadStrategy(p) ==
  /\ pc[p] = "load"
  /\ IF link = NoAccount
     THEN EndPoll(p)
     ELSE /\ Goto(p, "positions")
          /\ at' = [at EXCEPT ![p] = [link |-> link, started |-> started, active |-> active]]
          /\ UNCHANGED <<live, known, todo, chosen>>
  /\ UNCHANGED <<strategy, broker, store, history, bounds>>

\* Mutant: positions that cannot be read count as none.
ReadPositionsOrNone(p) ==
  /\ pc[p] = "positions"
  /\ \E readable \in BOOLEAN :
       LET positions == [t \in Tickets |-> IF readable /\ Holder[t] = at[p].link /\ Live(t)
                                           THEN broker[t] ELSE NoPosition]
       IN /\ live' = [live EXCEPT ![p] = positions]
          /\ todo' = [todo EXCEPT ![p] = IF at[p].started THEN {}
                                         ELSE {t \in Tickets : positions[t].volume > 0}]
  /\ Goto(p, IF at[p].started THEN "known" ELSE "baseline")
  /\ UNCHANGED <<strategy, broker, store, at, known, chosen, history, bounds>>

\* getPositions of the account the poll has read.
ReadPositions(p) ==
  /\ pc[p] = "positions"
  /\ LET positions == [t \in Tickets |-> IF Holder[t] = at[p].link /\ Live(t) THEN broker[t] ELSE NoPosition]
     IN /\ live' = [live EXCEPT ![p] = positions]
        /\ todo' = [todo EXCEPT ![p] = IF at[p].started THEN {}
                                       ELSE {t \in Tickets : positions[t].volume > 0}]
  /\ Goto(p, IF at[p].started THEN "known" ELSE "baseline")
  /\ UNCHANGED <<strategy, broker, store, at, known, chosen, history, bounds>>

\* recordBaseline, one upsert that leaves an existing row alone.
RecordBaseline(p) ==
  /\ pc[p] = "baseline"
  /\ \E t \in todo[p] :
       /\ trade' = [trade EXCEPT ![t] = IF @.status # "none" THEN @
            ELSE [status |-> "OPEN", volume |-> live[p][t].volume, stops |-> live[p][t].stops]]
       /\ todo' = [todo EXCEPT ![p] = @ \ {t}]
  /\ UNCHANGED <<strategy, broker, nonces, events, sent, told, pc, at, live, known, chosen, history, bounds>>

\* The end of the first poll: watching has started, whatever is linked by now.
MarkStarted(p) ==
  /\ pc[p] = "baseline" /\ todo[p] = {}
  /\ started' = TRUE
  /\ EndPoll(p)
  /\ UNCHANGED <<link, active, broker, store, history, bounds>>

\* knownPositions; what the comparison will publish is settled here.
ReadKnown(p) ==
  /\ pc[p] = "known"
  /\ LET changed == {t \in Tickets : Difference(t, trade[t], live[p][t]) # NoChange}
     IN IF changed = {}
        THEN EndPoll(p)
        ELSE /\ known' = [known EXCEPT ![p] = trade]
             /\ todo' = [todo EXCEPT ![p] = changed]
             /\ Goto(p, "publish")
             /\ UNCHANGED <<at, live, chosen>>
  /\ UNCHANGED <<strategy, broker, store, history, bounds>>

-----------------------------------------------------------------------------
(* publish and ingestMasterEvent.                                          *)

ChangeOf(p, t) == Difference(t, known[p][t], live[p][t])

\* The change of ticket t is dealt with: on to the next, or the poll is over.
Continue(p, t) ==
  IF todo[p] \ {t} = {}
  THEN EndPoll(p)
  ELSE /\ Goto(p, "publish")
       /\ todo' = [todo EXCEPT ![p] = @ \ {t}]
       /\ chosen' = [chosen EXCEPT ![p] = {}]
       /\ UNCHANGED <<at, live, known>>

\* claimNonce: a spent id is a DUPLICATE, and the poll goes on.
ClaimNonce(p) ==
  /\ pc[p] = "publish"
  /\ \E t \in todo[p] :
       /\ nonces' = nonces \cup {ChangeOf(p, t).id}
       /\ IF ChangeOf(p, t).id \in nonces
          THEN Continue(p, t)
          ELSE /\ Goto(p, "store")
               /\ chosen' = [chosen EXCEPT ![p] = {t}]
               /\ UNCHANGED <<at, live, known, todo>>
  /\ UNCHANGED <<strategy, broker, trade, events, sent, told, history, bounds>>

\* storeEvent and enqueueCopyJob: the row of the position is written first, then
\* the unique index decides; followers hear of it if the strategy was active.
StoreEvent(p) ==
  /\ pc[p] = "store"
  /\ \E t \in chosen[p] :
       LET c == ChangeOf(p, t)
           queued == c.id \notin events /\ at[p].active
       IN /\ trade' = [trade EXCEPT ![t] = Upserted(@, c)]
          /\ events' = events \cup {c.id}
          /\ sent' = IF queued THEN sent \cup {c.id} ELSE sent
          /\ told' = IF queued /\ c.id.kind \in {"OPEN", "MODIFY"}
                     THEN [told EXCEPT ![t] = c.stops] ELSE told
          /\ excused' = IF ~queued \/ (c.id.kind = "PARTIAL_CLOSE" /\ c.stops # known[p][t].stops)
                        THEN excused \cup {t} ELSE excused
          /\ Continue(p, t)
  /\ UNCHANGED <<strategy, broker, nonces, old, overlap, raced, moved, bounds>>

\* A database or queue error after the nonce was claimed: nothing is written, or
\* the position only, or all but the job.  publish logs it and goes on.
PublishFails(p) ==
  /\ pc[p] = "store" /\ disturbances < MaxDisturbances /\ disturbances' = disturbances + 1
  /\ \E t \in chosen[p] :
       LET c == ChangeOf(p, t)
       IN /\ \/ UNCHANGED <<trade, events>>
             \/ trade' = [trade EXCEPT ![t] = Upserted(@, c)] /\ UNCHANGED events
             \/ /\ at[p].active
                /\ trade' = [trade EXCEPT ![t] = Upserted(@, c)]
                /\ events' = events \cup {c.id}
          /\ excused' = excused \cup {t}
          /\ Continue(p, t)
  /\ UNCHANGED <<strategy, broker, nonces, sent, told, old, overlap, raced, moved,
                 changes>>

\* The account is not connected, the provider or the database throws, or the
\* worker dies: the poll ends where it is.
PollFails(p) ==
  /\ pc[p] # "idle" /\ disturbances < MaxDisturbances /\ disturbances' = disturbances + 1
  /\ EndPoll(p)
  /\ excused' = excused \cup chosen[p]
  /\ UNCHANGED <<strategy, broker, store, old, overlap, raced, moved, changes>>

PollStep(p) ==
  \/ ListStrategies(p) \/ LoadStrategy(p) \/ ReadPositions(p) \/ RecordBaseline(p) \/ MarkStarted(p)
  \/ ReadKnown(p) \/ ClaimNonce(p) \/ StoreEvent(p)

Next ==
  \/ \E t \in Tickets : MasterTrades(t)
  \/ \E a \in Accounts \cup {NoAccount} : SetStrategyMasterAccount(a)
  \/ SetStrategyStatus
  \/ \E id \in nonces : NonceExpires(id)
  \/ \E p \in Pollers : PollStep(p) \/ PublishFails(p) \/ PollFails(p)

Spec == Init /\ [][Next]_vars

\* The scheduler starts a poll every few seconds and a poll goes on.
Fairness == \A p \in Pollers : WF_vars(PollStep(p))
LiveSpec == Spec /\ Fairness

-----------------------------------------------------------------------------
(* Properties.                                                             *)

Sent(kind, t) == {id \in sent : id.kind = kind /\ id.ticket = t}

\* Polls did not overlap, the link never changed under a poll, and no other account
\* was linked while recorded positions were open.
Orderly == ~overlap /\ ~raced /\ ~moved

\* A position already open when its account was linked is never copied.
OldIsNeverCopied == \A t \in old : Sent("OPEN", t) = {}

\* The same, in an orderly history: a link changed under a poll takes that poll's
\* baseline for its own, and linking another account closes the baseline's records.
BaselineNeverCopied == Orderly => OldIsNeverCopied

\* The open of a position is published once: a second one, under another id, would
\* double the followers' positions.
OpenPublishedOnce == Orderly => \A t \in Tickets : Cardinality(Sent("OPEN", t)) <= 1

\* The close of a position is published only once it is gone from the broker.
CloseMeansGone == Orderly => \A t \in Tickets : Sent("CLOSE", t) # {} => ~Live(t)

\* No lot is closed twice: of two partial closes published for a position one starts
\* where the other ended, or lower.
NoLotClosedTwice ==
  ~overlap => \A t \in Tickets : \A i, j \in Sent("PARTIAL_CLOSE", t) :
    i # j => i.detail[2] >= j.detail[1] \/ j.detail[2] >= i.detail[1]

Watched(t) == link = Holder[t] /\ active
Excused(t) == ~Orderly \/ t \in excused

\* What the strategy has recorded as open comes to agree with the broker, if nothing
\* was lost on the way.
RecordCatchesUp ==
  \A t \in Tickets : Watched(t) ~> (~Watched(t) \/ Excused(t) \/ (Live(t) <=> IsOpen(trade[t])))

\* The stops of a position followers hold reach them, unless they return to where
\* they were moved before (the id is spent), move together with a partial close
\* (which carries them into the record only), or while the volume is above the
\* recorded one.
Held(t) == Watched(t) /\ Live(t) /\ Sent("OPEN", t) # {}
StopsReachFollowers ==
  \A t \in Tickets, s \in Stops :
    (Held(t) /\ broker[t].stops = s)
      ~> (~Held(t) \/ Excused(t) \/ broker[t].stops # s \/ broker[t].volume > trade[t].volume \/ told[t] = s)

\* A poll sees each change of the master's position once, and in a state its data types
\* allow (pollMasterAccount, eventIdFor).
SeenOnce == TypeOK /\ OpenPublishedOnce /\ NoLotClosedTwice

\* What followers are told happened: no trade older than the link, no close of a position
\* still open (recordBaseline, pollMasterAccount).
OnlyWhatHappened == BaselineNeverCopied /\ CloseMeansGone

\* Polls that go on bring the record, and the stops followers hold, to the master's.
FollowersCatchUp == RecordCatchesUp /\ StopsReachFollowers
=============================================================================
