---------------------------- MODULE SignalProofs ----------------------------
(***************************************************************************)
(* Proofs about a master's trade: how the polls of the master's account    *)
(* see it (MasterWatch) and in what size it is copied (LotRules).          *)
(*                                                                         *)
(* MasterWatch, however many polls are in flight and whatever is linked    *)
(* meanwhile: a change is seen once, and what is told has happened.  The   *)
(* invariant has a part that always holds, a part for polls that do not    *)
(* overlap and a part for orderly histories; a lemma for each step.        *)
(*                                                                         *)
(* LotRules, for every size, price and limit: what is opened is what the   *)
(* member's limits and choices admit and has a size the broker takes, and  *)
(* partial closes keep the member's share of the position.                 *)
(***************************************************************************)
EXTENDS MasterWatch, LotRules, FiniteSetTheorems, TLAPS

-----------------------------------------------------------------------------
(* MasterWatch: the invariant.                                             *)

\* Steps at which a poll has read the positions, and at which it has settled what to publish.
Reading == {"baseline", "known", "publish", "store"}
Publishing == {"publish", "store"}

\* A poll's own memory.
PollKnown(p) ==
  /\ chosen[p] \subseteq todo[p] /\ (pc[p] # "store" => chosen[p] = {})
  /\ pc[p] \in Publishing => \A t \in todo[p] : ChangeOf(p, t) # NoChange
  /\ pc[p] = "baseline" => ~at[p].started /\ \A t \in todo[p] : live[p][t].volume > 0
  /\ pc[p] \in Publishing \cup {"known"} => at[p].started
  /\ \A t \in Tickets : live[p][t].volume >= 0

\* Tickets recorded, read or old were opened, and an open is published of a recorded one.
TicketKnown(t) ==
  /\ trade[t].status # "none" \/ t \in old => broker[t].volume # -1
  /\ \A p \in Pollers : live[p][t].volume > 0 \/ known[p][t].status # "none" => broker[t].volume # -1
  /\ Sent("OPEN", t) # {} => trade[t].status # "none"

\* With one poll at a time: what it compared with is still recorded, and what was closed in part
\* was closed from the top down.
OnePoll ==
  /\ \A p, q \in Pollers : pc[p] # "idle" /\ pc[q] # "idle" => p = q
  /\ \A p \in Pollers : pc[p] \in Publishing => \A t \in todo[p] : known[p][t] = trade[t]
Partials(t) ==
  /\ trade[t].status = "none" => Sent("PARTIAL_CLOSE", t) = {}
  /\ IsOpen(trade[t]) => \A j \in Sent("PARTIAL_CLOSE", t) : j.detail[2] >= trade[t].volume
  /\ \A i, j \in Sent("PARTIAL_CLOSE", t) : i # j => i.detail[2] >= j.detail[1] \/ j.detail[2] >= i.detail[1]

\* In an orderly history: a poll works for the link there is, on tickets of that account,
\* and what it, or the record, takes for closed is gone for good.
PollRight(p) ==
  /\ pc[p] \notin {"idle", "load"} => at[p].link = link /\ link # NoAccount /\ at[p].started = started
  /\ pc[p] \in Reading => \A t \in Tickets :
       /\ live[p][t].volume > 0 => Holder[t] = link
       /\ trade[t].status = "CLOSED" => live[p][t].volume = 0
       /\ IsOpen(trade[t]) /\ live[p][t].volume = 0 => broker[t].volume = 0
       /\ t \in old /\ trade[t].status = "none" =>
            IF pc[p] = "baseline" THEN Holder[t] # link \/ broker[t].volume = 0 \/ t \in todo[p]
            ELSE live[p][t].volume = 0
TicketRight(t) ==
  /\ IsOpen(trade[t]) => link \in {Holder[t], NoAccount}
  /\ trade[t].status = "CLOSED" \/ Sent("CLOSE", t) # {} => broker[t].volume = 0
  /\ \A i, j \in Sent("OPEN", t) : i = j
  /\ t \in old => /\ Sent("OPEN", t) = {}
                  /\ link = Holder[t] /\ started /\ trade[t].status = "none" => broker[t].volume = 0

WatchInvariant ==
  /\ TypeOK
  /\ \A p \in Pollers : PollKnown(p)
  /\ \A t \in Tickets : TicketKnown(t)
  /\ ~overlap => OnePoll /\ \A t \in Tickets : Partials(t)
  /\ Orderly => (\A p \in Pollers : PollRight(p)) /\ \A t \in Tickets : TicketRight(t)

LEMMA OneAtMost ==
  ASSUME NEW S, \A i, j \in S : i = j
  PROVE  Cardinality(S) <= 1
<1>1. CASE S = {}
  BY <1>1, FS_EmptySet
<1>2. ASSUME NEW x \in S
      PROVE  Cardinality(S) <= 1
  <2>1. S = {x}
    BY <1>2
  <2> QED
    BY <2>1, FS_Singleton
<1> QED
  BY <1>1, <1>2

LEMMA WatchKept == WatchInvariant => SeenOnce /\ OnlyWhatHappened
<1> SUFFICES ASSUME WatchInvariant PROVE SeenOnce /\ OnlyWhatHappened
  OBVIOUS
<1>1. TypeOK /\ NoLotClosedTwice
  BY DEF WatchInvariant, NoLotClosedTwice, Partials
<1>2. ASSUME Orderly
      PROVE  /\ \A t \in Tickets : Cardinality(Sent("OPEN", t)) <= 1
             /\ \A t \in Tickets : Sent("CLOSE", t) # {} => ~Live(t)
             /\ OldIsNeverCopied
  <2>1. \A t \in Tickets : TicketRight(t)
    BY <1>2 DEF WatchInvariant
  <2>2. \A t \in Tickets : \A i, j \in Sent("OPEN", t) : i = j
    BY <2>1 DEF TicketRight
  <2>3. \A t \in Tickets : Cardinality(Sent("OPEN", t)) <= 1
    BY <2>2, OneAtMost
  <2>4. \A t \in Tickets : Sent("CLOSE", t) # {} => ~Live(t)
    BY <2>1 DEF TicketRight, Live
  <2>5. old \subseteq Tickets
    BY <1>1 DEF TypeOK
  <2>6. OldIsNeverCopied
    BY <2>1, <2>5 DEF TicketRight, OldIsNeverCopied
  <2> QED
    BY <2>3, <2>4, <2>6
<1> QED
  BY <1>1, <1>2 DEF SeenOnce, OnlyWhatHappened, OpenPublishedOnce, BaselineNeverCopied, CloseMeansGone

-----------------------------------------------------------------------------
(* What a comparison publishes and a store writes.                         *)

LEMMA Differs ==
  ASSUME NEW t \in Tickets, NEW was \in TradeType, NEW now \in Position, now.volume >= 0,
         NEW c, c = Difference(t, was, now), c # NoChange
  PROVE  /\ c.id \in Ids /\ c.id.ticket = t /\ c.volume \in Lots /\ c.stops \in Stops
         /\ c.id.kind = "OPEN" => ~IsOpen(was) /\ now.volume > 0
         /\ c.id.kind = "CLOSE" => IsOpen(was) /\ now.volume = 0
         /\ c.id.kind = "PARTIAL_CLOSE" =>
              /\ IsOpen(was) /\ now.volume > 0 /\ now.volume < was.volume
              /\ c.volume = was.volume - now.volume
              /\ c.id.detail[1] = was.volume /\ c.id.detail[2] = now.volume
         /\ c.id.kind = "MODIFY" => IsOpen(was) /\ now.volume > 0 /\ c.volume = was.volume
<1>1. /\ MaxLots \in Nat /\ now.volume \in Lots /\ was.volume \in Lots /\ now.stops \in Stops /\ 0 \in Lots
      /\ 0 \in Stops /\ was.volume \in Int /\ now.volume \in Int
  BY WatchAssumption DEF Position, TradeType, Lots
<1>2. CASE ~IsOpen(was)
  <2>1. now.volume > 0 /\ c = Change("OPEN", t, now.volume, now.stops, <<now.volume, 0>>)
    BY <1>2 DEF Difference
  <2>2. <<now.volume, 0>> \in Lots \X (Lots \cup Stops)
    BY <1>1
  <2> QED
    BY <1>1, <1>2, <2>1, <2>2 DEF Change, EventIdFor, Id, Ids
<1>3. CASE IsOpen(was) /\ now.volume = 0
  <2>1. c = Change("CLOSE", t, was.volume, 0, <<0, 0>>)
    BY <1>3 DEF Difference
  <2>2. <<0, 0>> \in Lots \X (Lots \cup Stops)
    BY <1>1
  <2> QED
    BY <1>1, <1>3, <2>1, <2>2 DEF Change, EventIdFor, Id, Ids
<1>4. CASE IsOpen(was) /\ now.volume # 0 /\ now.volume < was.volume
  <2>1. c = Change("PARTIAL_CLOSE", t, was.volume - now.volume, now.stops, <<was.volume, now.volume>>)
    BY <1>4 DEF Difference
  <2>2. <<was.volume, now.volume>> \in Lots \X (Lots \cup Stops) /\ was.volume - now.volume \in Lots
    BY <1>1, <1>4 DEF Lots
  <2>3. /\ c.id = [kind |-> "PARTIAL_CLOSE", ticket |-> t, detail |-> <<was.volume, now.volume>>]
        /\ c.volume = was.volume - now.volume /\ c.stops = now.stops
    BY <2>1 DEF Change, EventIdFor, Id
  <2>4. c.id \in Ids /\ c.id.ticket = t /\ c.id.kind = "PARTIAL_CLOSE"
    BY <2>2, <2>3 DEF Ids
  <2>5. c.id.detail[1] = was.volume /\ c.id.detail[2] = now.volume
    BY <2>3
  <2> QED
    BY <1>1, <1>4, <2>2, <2>3, <2>4, <2>5
<1>5. CASE IsOpen(was) /\ now.volume # 0 /\ ~(now.volume < was.volume)
  <2>1. now.volume = was.volume /\ c = Change("MODIFY", t, now.volume, now.stops, <<0, now.stops>>)
    BY <1>5 DEF Difference
  <2>2. <<0, now.stops>> \in Lots \X (Lots \cup Stops)
    BY <1>1
  <2> QED
    BY <1>1, <1>5, <2>1, <2>2 DEF Change, EventIdFor, Id, Ids
<1> QED
  BY <1>2, <1>3, <1>4, <1>5

LEMMA Upserts ==
  ASSUME NEW row \in TradeType, NEW c, c.volume \in Lots, c.stops \in Stops, NEW new, new = Upserted(row, c)
  PROVE  /\ new \in TradeType /\ new.status # "none"
         /\ row.status = "none" => new.status = "OPEN"
         /\ row.status # "none" /\ c.id.kind = "CLOSE" => new.status = "CLOSED"
         /\ c.id.kind \notin {"CLOSE", "PARTIAL_CLOSE"} /\ row.status # "none" =>
              new.status = row.status /\ new.volume = c.volume
         /\ row.status # "none" /\ c.id.kind = "PARTIAL_CLOSE" =>
              /\ new.status = "PARTIALLY_CLOSED"
              /\ row.volume > 0 /\ c.volume < row.volume => new.volume = row.volume - c.volume
<1>1. MaxLots \in Nat /\ row.volume \in Lots /\ row.status \in {"none", "OPEN", "PARTIALLY_CLOSED", "CLOSED"}
  BY WatchAssumption DEF TradeType
<1>2. CASE row.status = "none"
  <2>1. new = [status |-> "OPEN", volume |-> c.volume, stops |-> c.stops]
    BY <1>2 DEF Upserted
  <2> QED
    BY <1>2, <2>1 DEF TradeType
<1>3. CASE row.status # "none"
  <2> DEFINE partial == c.id.kind = "PARTIAL_CLOSE"
  <2>1. PICK left : left = IF partial /\ row.volume > 0
                           THEN IF c.volume < row.volume THEN row.volume - c.volume ELSE 0
                           ELSE c.volume
    OBVIOUS
  <2>2. left \in Lots
    BY <1>1, <2>1 DEF Lots
  <2>3. PICK st : st = CASE c.id.kind = "CLOSE" -> "CLOSED" [] partial -> "PARTIALLY_CLOSED" [] OTHER -> row.status
    OBVIOUS
  <2>4. /\ c.id.kind = "CLOSE" => st = "CLOSED"
        /\ c.id.kind = "PARTIAL_CLOSE" => st = "PARTIALLY_CLOSED"
        /\ c.id.kind \notin {"CLOSE", "PARTIAL_CLOSE"} => st = row.status
    BY <2>3
  <2>5. new = [status |-> st, volume |-> left, stops |-> c.stops]
    BY <1>3, <2>1, <2>3 DEF Upserted
  <2>6. new.status = st /\ new.volume = left /\ new.stops = c.stops
    BY <2>5
  <2>7. st \in {"none", "OPEN", "PARTIALLY_CLOSED", "CLOSED"} /\ st # "none"
    BY <1>1, <1>3, <2>4
  <2>8. new \in TradeType
    BY <2>2, <2>5, <2>7 DEF TradeType
  <2> QED
    BY <1>3, <2>1, <2>4, <2>6, <2>7, <2>8
<1> QED
  BY <1>2, <1>3
-----------------------------------------------------------------------------
(* What a step leaves alone.                                               *)

PollType ==
  /\ pc \in [Pollers -> PC] /\ at \in [Pollers -> StrategyType]
  /\ live \in [Pollers -> [Tickets -> Position]] /\ known \in [Pollers -> [Tickets -> TradeType]]
  /\ todo \in [Pollers -> SUBSET Tickets] /\ chosen \in [Pollers -> SUBSET Tickets]
StoreType ==
  /\ trade \in [Tickets -> TradeType] /\ nonces \subseteq Ids /\ events \subseteq Ids /\ sent \subseteq events
  /\ told \in [Tickets -> Stops]
RestType ==
  /\ link \in Accounts \cup {NoAccount} /\ started \in BOOLEAN /\ active \in BOOLEAN
  /\ broker \in [Tickets -> Position]
  /\ old \subseteq Tickets /\ excused \subseteq Tickets
  /\ overlap \in BOOLEAN /\ raced \in BOOLEAN /\ moved \in BOOLEAN
  /\ changes \in Nat /\ disturbances \in Nat

LEMMA TypeParts == TypeOK <=> PollType /\ StoreType /\ RestType
BY DEF TypeOK, PollType, StoreType, RestType

LEMMA TypeSum == PollType' /\ StoreType' /\ RestType' => TypeOK'
BY DEF TypeOK, PollType, StoreType, RestType

\* What is known of every part, for the proofs of the steps.
LEMMA Parts ==
  ASSUME WatchInvariant
  PROVE  /\ PollType /\ StoreType /\ RestType
         /\ \A p \in Pollers : PollKnown(p)
         /\ \A t \in Tickets : TicketKnown(t)
         /\ ~overlap => OnePoll /\ \A t \in Tickets : Partials(t)
         /\ Orderly => (\A p \in Pollers : PollRight(p)) /\ \A t \in Tickets : TicketRight(t)
BY TypeParts DEF WatchInvariant

PollsStay == UNCHANGED poll
Alike(p, q) ==
  /\ pc'[q] = pc[q] /\ at'[q] = at[q] /\ live'[q] = live[q] /\ known'[q] = known[q]
  /\ todo'[q] = todo[q] /\ chosen'[q] = chosen[q]
OthersStay(p) == \A q \in Pollers \ {p} : Alike(p, q)

LEMMA PollsKnown ==
  ASSUME \A p \in Pollers : PollKnown(p), PollsStay
  PROVE  \A p \in Pollers : PollKnown(p)'
BY DEF PollKnown, PollsStay, poll, memory, ChangeOf

LEMMA OthersKnown ==
  ASSUME \A p \in Pollers : PollKnown(p), NEW p \in Pollers, OthersStay(p), PollKnown(p)'
  PROVE  \A q \in Pollers : PollKnown(q)'
<1>1. ASSUME NEW q \in Pollers \ {p}
      PROVE  PollKnown(q)'
  <2>1. PollKnown(q) /\ Alike(p, q)
    BY DEF OthersStay
  <2> QED
    BY <2>1 DEF PollKnown, ChangeOf, Alike
<1> QED
  BY <1>1

\* The strategy's status and the nonces matter to none of it.
LEMMA ElsewhereKeeps ==
  ASSUME WatchInvariant, RestType', StoreType',
         UNCHANGED <<link, started, broker, trade, sent, poll, old, overlap, raced, moved>>
  PROVE  WatchInvariant'
<1> USE Parts
<1>1. PollsStay /\ UNCHANGED <<pc, at, live, known, todo, chosen>>
  BY DEF PollsStay, poll, memory
<1>2. TypeOK'
  BY <1>1, TypeSum DEF PollType
<1>3. \A p \in Pollers : PollKnown(p)'
  BY <1>1, PollsKnown
<1>4. \A t \in Tickets : TicketKnown(t)'
  BY <1>1 DEF TicketKnown, Sent
<1>5. ASSUME ~overlap'
      PROVE  OnePoll' /\ \A t \in Tickets : Partials(t)'
  <2>1. OnePoll /\ \A t \in Tickets : Partials(t)
    BY <1>5
  <2> QED
    BY <1>1, <2>1 DEF OnePoll, Partials, Sent
<1>6. ASSUME Orderly'
      PROVE  (\A p \in Pollers : PollRight(p)') /\ \A t \in Tickets : TicketRight(t)'
  <2>1. (\A p \in Pollers : PollRight(p)) /\ \A t \in Tickets : TicketRight(t)
    BY <1>6 DEF Orderly
  <2> QED
    BY <1>1, <2>1 DEF PollRight, TicketRight, Sent
<1> QED
  BY <1>2, <1>3, <1>4, <1>5, <1>6 DEF WatchInvariant

LEMMA SetStatusKeeps == ASSUME WatchInvariant, SetStrategyStatus PROVE WatchInvariant'
<1>1. UNCHANGED <<link, started, broker, trade, nonces, events, sent, told, poll, old, excused, overlap, raced, moved, changes>>
      /\ active' = ~active /\ disturbances' = disturbances + 1
  BY DEF SetStrategyStatus, store, history
<1>2. StoreType' /\ RestType'
  BY <1>1, Parts DEF StoreType, RestType
<1> QED
  BY <1>1, <1>2, ElsewhereKeeps

LEMMA NonceExpiresKeeps == ASSUME WatchInvariant, NEW id \in nonces, NonceExpires(id) PROVE WatchInvariant'
<1>1. UNCHANGED <<link, started, active, broker, trade, events, sent, told, poll, old, excused, overlap, raced, moved, changes>>
      /\ nonces' \subseteq nonces /\ disturbances' = disturbances + 1
  BY DEF NonceExpires, strategy, history
<1>2. StoreType' /\ RestType'
  BY <1>1, Parts DEF StoreType, RestType
<1> QED
  BY <1>1, <1>2, ElsewhereKeeps

LEMMA MasterTradesKeeps == ASSUME WatchInvariant, NEW t \in Tickets, MasterTrades(t) PROVE WatchInvariant'
<1> USE Parts
<1>1. /\ UNCHANGED <<link, started, active, trade, nonces, events, sent, told, pc, at, live, known, todo, chosen,
                    old, overlap, raced, moved, disturbances>>
      /\ changes' = changes + 1 /\ excused' \subseteq excused \cup {t} /\ PollsStay
  BY DEF MasterTrades, strategy, store, poll, memory, PollsStay
<1>2. PICK v \in Lots, s \in Stops :
        /\ broker[t] = Unopened \/ broker[t].volume > 0
        /\ broker' = [broker EXCEPT ![t] = [volume |-> v, stops |-> s]]
  BY DEF MasterTrades, Live
<1>3. MaxLots \in Nat /\ v \in -1..MaxLots /\ v >= 0
  BY WatchAssumption DEF Lots
<1>4. RestType'
  <2>1. [volume |-> v, stops |-> s] \in Position
    BY <1>3 DEF Position
  <2> QED
    BY <1>1, <1>2, <2>1 DEF RestType
<1>5. \A u \in Tickets : /\ broker[u].volume = 0 => broker'[u].volume = 0
                         /\ broker[u].volume # -1 => broker'[u].volume # -1
  BY <1>2, <1>3 DEF RestType, Unopened
<1>6. TypeOK'
  BY <1>1, <1>4, TypeSum DEF PollType, StoreType
<1>7. \A p \in Pollers : PollKnown(p)'
  BY <1>1, PollsKnown
<1>8. \A u \in Tickets : TicketKnown(u)'
  BY <1>1, <1>5 DEF TicketKnown, Sent
<1>9. ASSUME ~overlap'
      PROVE  OnePoll' /\ \A u \in Tickets : Partials(u)'
  <2>1. OnePoll /\ \A u \in Tickets : Partials(u)
    BY <1>1, <1>9
  <2> QED
    BY <1>1, <2>1 DEF OnePoll, Partials, Sent
<1>10. ASSUME Orderly'
       PROVE  (\A p \in Pollers : PollRight(p)') /\ \A u \in Tickets : TicketRight(u)'
  <2>1. (\A p \in Pollers : PollRight(p)) /\ \A u \in Tickets : TicketRight(u)
    BY <1>1, <1>10 DEF Orderly
  <2>2. ASSUME NEW p \in Pollers
        PROVE  PollRight(p)'
    <3>1. PollRight(p)
      BY <2>1
    <3> QED
      BY <1>1, <1>5, <3>1 DEF PollRight
  <2>3. ASSUME NEW u \in Tickets
        PROVE  TicketRight(u)'
    <3>1. TicketRight(u)
      BY <2>1
    <3> QED
      BY <1>1, <1>5, <3>1 DEF TicketRight, Sent
  <2> QED
    BY <2>2, <2>3
<1> QED
  BY <1>6, <1>7, <1>8, <1>9, <1>10 DEF WatchInvariant

LEMMA SetMasterKeeps ==
  ASSUME WatchInvariant, NEW a \in Accounts \cup {NoAccount}, SetStrategyMasterAccount(a)
  PROVE  WatchInvariant'
<1> USE Parts
<1>1. /\ UNCHANGED <<active, broker, trade, nonces, events, sent, told, pc, at, live, known, todo, chosen,
                    excused, overlap, changes>>
      /\ disturbances' = disturbances + 1 /\ link' = a /\ started' = FALSE /\ PollsStay
  BY DEF SetStrategyMasterAccount, store, poll, memory, PollsStay
<1>2. /\ old' = old \cup {t \in Tickets : Holder[t] = a /\ Live(t) /\ trade[t].status = "none"}
      /\ raced' = (raced \/ ~Idle)
      /\ moved' = (moved \/ \E t \in Tickets : IsOpen(trade[t]) /\ a \notin {Holder[t], NoAccount})
  BY DEF SetStrategyMasterAccount
<1>3. \A t \in old' : t \in old \/ (t \in Tickets /\ broker[t].volume > 0 /\ trade[t].status = "none")
  BY <1>2 DEF Live
<1>4. RestType'
  <2>1. raced' \in BOOLEAN /\ moved' \in BOOLEAN
    BY <1>2 DEF RestType
  <2>2. old' \subseteq Tickets
    BY <1>2 DEF RestType
  <2>3. link' \in Accounts \cup {NoAccount} /\ broker' \in [Tickets -> Position] /\ excused' \subseteq Tickets
        /\ changes' \in Nat /\ disturbances' \in Nat
    BY <1>1 DEF RestType
  <2>4. started' \in BOOLEAN /\ active' \in BOOLEAN /\ overlap' \in BOOLEAN
    BY <1>1 DEF RestType
  <2> QED
    BY <2>1, <2>2, <2>3, <2>4 DEF RestType
<1>5. TypeOK'
  BY <1>1, <1>4, TypeSum DEF PollType, StoreType
<1>6. \A p \in Pollers : PollKnown(p)'
  BY <1>1, PollsKnown
<1>7. \A u \in Tickets : TicketKnown(u)'
  BY <1>1, <1>3 DEF TicketKnown, Sent
<1>8. ASSUME ~overlap'
      PROVE  OnePoll' /\ \A u \in Tickets : Partials(u)'
  <2>1. OnePoll /\ \A u \in Tickets : Partials(u)
    BY <1>1, <1>8
  <2> QED
    BY <1>1, <2>1 DEF OnePoll, Partials, Sent
<1>9. ASSUME Orderly'
      PROVE  (\A p \in Pollers : PollRight(p)') /\ \A u \in Tickets : TicketRight(u)'
  <2>1. ~raced' /\ ~moved' /\ ~overlap'
    BY <1>9 DEF Orderly
  <2>2. /\ Orderly /\ \A p \in Pollers : pc[p] = "idle"
        /\ \A t \in Tickets : IsOpen(trade[t]) => a \in {Holder[t], NoAccount}
    BY <1>1, <1>2, <2>1 DEF Orderly, Idle
  <2>3. \A u \in Tickets : TicketRight(u)
    BY <2>2
  <2>4. \A p \in Pollers : PollRight(p)'
    BY <1>1, <2>2 DEF PollRight, Reading
  <2>5. ASSUME NEW u \in Tickets
        PROVE  TicketRight(u)'
    <3>1. TicketRight(u) /\ TicketKnown(u)
      BY <2>3
    <3>2. u \in old' => Sent("OPEN", u) = {}
      BY <1>3, <3>1 DEF TicketRight, TicketKnown
    <3> QED
      BY <1>1, <2>2, <3>1, <3>2 DEF TicketRight, Sent
  <2> QED
    BY <2>4, <2>5
<1> QED
  BY <1>5, <1>6, <1>7, <1>8, <1>9 DEF WatchInvariant
-----------------------------------------------------------------------------
(* A poll, up to the comparison.                                           *)

\* The poll is over, or goes on with its memory changed; the others stay.
Ended(p) ==
  /\ pc'[p] = "idle" /\ at'[p] = NoStrategy /\ todo'[p] = {} /\ chosen'[p] = {}
  /\ \A t \in Tickets : live'[p][t] = NoPosition /\ known'[p][t] = NoTrade

LEMMA Ends ==
  ASSUME PollType, NEW p \in Pollers, EndPoll(p)
  PROVE  PollType' /\ OthersStay(p) /\ Ended(p) /\ PollKnown(p)'
<1>1. /\ NoStrategy \in StrategyType /\ NoPosition \in Position /\ NoTrade \in TradeType /\ "idle" \in PC
      /\ NoPosition.volume = 0
  BY WatchAssumption DEF NoStrategy, StrategyType, NoPosition, Position, NoTrade, TradeType, PC, Lots
<1>2. /\ pc' = [pc EXCEPT ![p] = "idle"] /\ at' = [at EXCEPT ![p] = NoStrategy]
      /\ live' = [live EXCEPT ![p] = [t \in Tickets |-> NoPosition]]
      /\ known' = [known EXCEPT ![p] = [t \in Tickets |-> NoTrade]]
      /\ todo' = [todo EXCEPT ![p] = {}] /\ chosen' = [chosen EXCEPT ![p] = {}]
  BY DEF EndPoll, Goto
<1>3. PollType'
  BY <1>1, <1>2 DEF PollType
<1>4. OthersStay(p)
  BY <1>2 DEF PollType, OthersStay, Alike
<1>5. Ended(p)
  BY <1>2 DEF PollType, Ended
<1>6. PollKnown(p)'
  <2>1. \A t \in Tickets : live'[p][t].volume >= 0
    BY <1>1, <1>5 DEF Ended
  <2> QED
    BY <1>5, <2>1 DEF Ended, PollKnown, Publishing
<1> QED
  BY <1>3, <1>4, <1>5, <1>6

LEMMA Goes ==
  ASSUME PollType, NEW p \in Pollers, NEW step \in PC, Goto(p, step)
  PROVE  /\ pc' \in [Pollers -> PC] /\ pc'[p] = step
         /\ \A q \in Pollers \ {p} : pc'[q] = pc[q]
BY DEF PollType, Goto

\* With one poll at a time, the others do nothing.
LEMMA OthersIdle ==
  ASSUME OnePoll, NEW p \in Pollers, pc[p] # "idle", OthersStay(p)
  PROVE  \A q \in Pollers \ {p} : pc[q] = "idle" /\ pc'[q] = "idle"
BY DEF OnePoll, OthersStay, Alike

\* A poll that is over leaves what is known of tickets, when record and broker stay.
LEMMA EndKeeps ==
  ASSUME WatchInvariant, NEW p \in Pollers, pc[p] # "idle", EndPoll(p), RestType', StoreType',
         UNCHANGED <<link, broker, trade, sent, old, overlap, raced, moved>>,
         \/ started' = started
         \/ /\ pc[p] = "baseline" /\ todo[p] = {}
  PROVE  WatchInvariant'
<1> USE Parts
<1>1. PollType' /\ OthersStay(p) /\ Ended(p) /\ PollKnown(p)'
  BY Ends
<1>2. TypeOK'
  BY <1>1, TypeSum
<1>3. \A q \in Pollers : PollKnown(q)'
  BY <1>1, OthersKnown
<1>4. ASSUME NEW t \in Tickets
      PROVE  TicketKnown(t)'
  <2>1. NoPosition.volume = 0 /\ NoTrade.status = "none"
    BY DEF NoPosition, NoTrade
  <2>2. \A q \in Pollers : live'[q][t].volume > 0 \/ known'[q][t].status # "none"
                             => live[q][t].volume > 0 \/ known[q][t].status # "none"
    BY <1>1, <2>1 DEF Ended, OthersStay, Alike
  <2>3. TicketKnown(t)
    OBVIOUS
  <2> QED
    BY <2>2, <2>3 DEF TicketKnown, Sent
<1>5. ASSUME ~overlap'
      PROVE  OnePoll' /\ (\A t \in Tickets : Partials(t)') /\ \A q \in Pollers : pc'[q] = "idle"
  <2>1. OnePoll /\ \A t \in Tickets : Partials(t)
    BY <1>5
  <2>2. \A q \in Pollers : pc'[q] = "idle"
    BY <1>1, <2>1, OthersIdle DEF Ended
  <2>3. OnePoll'
    BY <2>2 DEF OnePoll, Publishing
  <2> QED
    BY <2>1, <2>2, <2>3 DEF Partials, Sent
<1>6. ASSUME Orderly'
      PROVE  (\A q \in Pollers : PollRight(q)') /\ \A t \in Tickets : TicketRight(t)'
  <2>1. Orderly /\ ~overlap'
    BY <1>6 DEF Orderly
  <2>2. \A q \in Pollers : PollRight(q)'
    BY <1>5, <2>1 DEF PollRight, Reading
  <2>3. ASSUME NEW t \in Tickets
        PROVE  TicketRight(t)'
    <3>1. TicketRight(t) /\ PollRight(p)
      BY <2>1
    <3>2. CASE started' = started
      BY <3>1, <3>2 DEF TicketRight, Sent
    <3>3. CASE pc[p] = "baseline" /\ todo[p] = {}
      <4>1. t \in old /\ trade[t].status = "none" => Holder[t] # link \/ broker[t].volume = 0
        BY <3>1, <3>3 DEF PollRight, Reading
      <4> QED
        BY <3>1, <4>1 DEF TicketRight, Sent
    <3> QED
      BY <3>2, <3>3
  <2> QED
    BY <2>2, <2>3
<1> QED
  BY <1>2, <1>3, <1>4, <1>5, <1>6 DEF WatchInvariant

LEMMA SameRest ==
  ASSUME WatchInvariant,
         UNCHANGED <<link, started, active, broker, trade, nonces, events, sent, told, old, excused, overlap, raced,
                     moved, changes, disturbances>>
  PROVE  RestType' /\ StoreType'
BY Parts DEF RestType, StoreType

LEMMA MarkStartedKeeps == ASSUME WatchInvariant, NEW p \in Pollers, MarkStarted(p) PROVE WatchInvariant'
<1>1. /\ UNCHANGED <<link, active, broker, trade, nonces, events, sent, told, old, excused, overlap, raced, moved,
                    changes, disturbances>>
      /\ started' = TRUE /\ pc[p] = "baseline" /\ todo[p] = {} /\ EndPoll(p)
  BY DEF MarkStarted, store, history, bounds
<1>2. RestType' /\ StoreType'
  <2>1. started' \in BOOLEAN /\ active' \in BOOLEAN /\ overlap' \in BOOLEAN /\ raced' \in BOOLEAN /\ moved' \in BOOLEAN
    BY <1>1, Parts DEF RestType
  <2> QED
    BY <1>1, <2>1, Parts DEF RestType, StoreType
<1> QED
  BY <1>1, <1>2, EndKeeps

LEMMA PollFailsKeeps == ASSUME WatchInvariant, NEW p \in Pollers, PollFails(p) PROVE WatchInvariant'
<1>1. /\ UNCHANGED <<link, started, active, broker, trade, nonces, events, sent, told, old, overlap, raced, moved,
                    changes>>
      /\ disturbances' = disturbances + 1 /\ excused' = excused \cup chosen[p] /\ pc[p] # "idle" /\ EndPoll(p)
  BY DEF PollFails, strategy, store
<1>2. RestType' /\ StoreType'
  BY <1>1, Parts DEF RestType, StoreType, PollType
<1> QED
  BY <1>1, <1>2, EndKeeps

\* A poll that goes on to another step with memory of its own.
LEMMA MoveKeeps ==
  ASSUME WatchInvariant, NEW p \in Pollers, PollType', OthersStay(p), PollKnown(p)', RestType', StoreType',
         UNCHANGED <<link, started, broker, trade, sent, old, overlap, raced, moved>>,
         \A t \in Tickets : live'[p][t].volume > 0 \/ known'[p][t].status # "none" => broker[t].volume # -1,
         pc[p] # "idle", ~overlap /\ pc'[p] \in Publishing => \A t \in todo'[p] : known'[p][t] = trade[t],
         Orderly => PollRight(p)'
  PROVE  WatchInvariant'
<1> USE Parts
<1>1. TypeOK'
  BY TypeSum
<1>2. \A q \in Pollers : PollKnown(q)'
  BY OthersKnown
<1>3. ASSUME NEW t \in Tickets
      PROVE  TicketKnown(t)'
  <2>1. \A q \in Pollers : live'[q][t].volume > 0 \/ known'[q][t].status # "none" => broker[t].volume # -1
    <3>1. ASSUME NEW q \in Pollers \ {p}
          PROVE  live'[q][t].volume > 0 \/ known'[q][t].status # "none" => broker[t].volume # -1
      BY DEF OthersStay, Alike, TicketKnown
    <3> QED
      BY <3>1
  <2>2. TicketKnown(t)
    OBVIOUS
  <2> QED
    BY <2>1, <2>2 DEF TicketKnown, Sent
<1>4. ASSUME ~overlap'
      PROVE  OnePoll' /\ (\A t \in Tickets : Partials(t)') /\ \A q \in Pollers \ {p} : pc'[q] = "idle"
  <2>1. OnePoll /\ ~overlap /\ \A t \in Tickets : Partials(t)
    BY <1>4
  <2>2. \A q \in Pollers \ {p} : pc'[q] = "idle"
    BY <2>1, OthersIdle
  <2>3. OnePoll'
    BY <2>1, <2>2 DEF OnePoll, Publishing
  <2> QED
    BY <2>1, <2>2, <2>3 DEF Partials, Sent
<1>5. ASSUME Orderly'
      PROVE  (\A q \in Pollers : PollRight(q)') /\ \A t \in Tickets : TicketRight(t)'
  <2>1. Orderly /\ ~overlap'
    BY <1>5 DEF Orderly
  <2>2. \A q \in Pollers : PollRight(q)'
    BY <1>4, <2>1 DEF PollRight, Reading
  <2>3. \A t \in Tickets : TicketRight(t)'
    BY <2>1 DEF TicketRight, Sent
  <2> QED
    BY <2>2, <2>3
<1> QED
  BY <1>1, <1>2, <1>3, <1>4, <1>5 DEF WatchInvariant
LEMMA ListKeeps == ASSUME WatchInvariant, NEW p \in Pollers, ListStrategies(p) PROVE WatchInvariant'
<1> USE Parts
<1>1. /\ UNCHANGED <<link, started, active, broker, trade, nonces, events, sent, told, at, live, known, todo, chosen,
                    old, excused, raced, moved, changes, disturbances>>
      /\ pc[p] = "idle" /\ Goto(p, "load") /\ overlap' = (overlap \/ ~Idle)
  BY DEF ListStrategies, strategy, store, memory, bounds
<1>2. /\ pc' \in [Pollers -> PC] /\ pc'[p] = "load"
      /\ \A q \in Pollers \ {p} : pc'[q] = pc[q]
  BY <1>1, Goes DEF PC
<1>3. PollType' /\ StoreType'
  BY <1>1, <1>2 DEF PollType, StoreType
<1>4. RestType'
  <2>1. overlap' \in BOOLEAN
    BY <1>1 DEF RestType
  <2> QED
    BY <1>1, <2>1 DEF RestType
<1>5. TypeOK'
  BY <1>3, <1>4, TypeSum
<1>6. PollKnown(p)'
  BY <1>1, <1>2 DEF PollKnown, Publishing
<1>7. OthersStay(p)
  BY <1>1, <1>2 DEF OthersStay, Alike
<1>8. \A q \in Pollers : PollKnown(q)'
  BY <1>6, <1>7, OthersKnown
<1>9. \A t \in Tickets : TicketKnown(t)'
  BY <1>1 DEF TicketKnown, Sent
<1>10. ASSUME ~overlap'
       PROVE  /\ OnePoll' /\ \A t \in Tickets : Partials(t)'
              /\ \A q \in Pollers : pc'[q] \in {"idle", "load"}
  <2>1. ~overlap /\ Idle
    BY <1>1, <1>10
  <2>2. \A q \in Pollers \ {p} : pc'[q] = "idle"
    BY <1>2, <2>1 DEF Idle
  <2>3. OnePoll'
    BY <1>2, <2>2 DEF OnePoll, Publishing
  <2>4. \A t \in Tickets : Partials(t)'
    BY <1>1, <2>1 DEF Partials, Sent
  <2> QED
    BY <1>2, <2>2, <2>3, <2>4
<1>11. ASSUME Orderly'
       PROVE  (\A q \in Pollers : PollRight(q)') /\ \A t \in Tickets : TicketRight(t)'
  <2>1. ~overlap' /\ ~raced' /\ ~moved'
    BY <1>11 DEF Orderly
  <2>2. Orderly
    BY <1>1, <2>1 DEF Orderly
  <2>3. \A q \in Pollers : PollRight(q)'
    BY <1>10, <2>1 DEF PollRight, Reading
  <2>4. \A t \in Tickets : TicketRight(t)'
    BY <1>1, <2>2 DEF TicketRight, Sent
  <2> QED
    BY <2>3, <2>4
<1> QED
  BY <1>5, <1>8, <1>9, <1>10, <1>11 DEF WatchInvariant

LEMMA LoadKeeps == ASSUME WatchInvariant, NEW p \in Pollers, LoadStrategy(p) PROVE WatchInvariant'
<1> USE Parts
<1>1. /\ UNCHANGED <<link, started, active, broker, trade, nonces, events, sent, told, old, excused, overlap, raced,
                     moved, changes, disturbances>>
      /\ pc[p] = "load"
  BY DEF LoadStrategy, strategy, store, history, bounds
<1>2. RestType' /\ StoreType'
  BY <1>1, SameRest
<1>3. CASE link = NoAccount
  <2>1. EndPoll(p)
    BY <1>3 DEF LoadStrategy
  <2> QED
    BY <1>1, <1>2, <2>1, EndKeeps
<1>4. CASE link # NoAccount
  <2> DEFINE row == [link |-> link, started |-> started, active |-> active]
  <2>1. /\ Goto(p, "positions") /\ at' = [at EXCEPT ![p] = row]
        /\ UNCHANGED <<live, known, todo, chosen>>
    BY <1>4 DEF LoadStrategy
  <2>2. /\ pc' \in [Pollers -> PC] /\ pc'[p] = "positions"
        /\ \A q \in Pollers \ {p} : pc'[q] = pc[q]
    BY <2>1, Goes DEF PC
  <2>3. row \in StrategyType
    BY DEF StrategyType, RestType
  <2>4. at' \in [Pollers -> StrategyType] /\ at'[p] = row /\ \A q \in Pollers \ {p} : at'[q] = at[q]
    BY <2>1, <2>3 DEF PollType
  <2>5. PollType'
    BY <2>1, <2>2, <2>4 DEF PollType
  <2>6. OthersStay(p)
    BY <2>1, <2>2, <2>4 DEF OthersStay, Alike
  <2>7. PollKnown(p)'
    BY <1>1, <2>1, <2>2 DEF PollKnown, Publishing
  <2>8. PollRight(p)'
    BY <1>1, <1>4, <2>2, <2>4 DEF PollRight, Reading
  <2>9. \A t \in Tickets : live'[p][t].volume > 0 \/ known'[p][t].status # "none" => broker[t].volume # -1
    BY <2>1 DEF TicketKnown
  <2>10. pc[p] # "idle" /\ pc'[p] \notin Publishing
    BY <1>1, <2>2 DEF Publishing
  <2> QED
    BY <1>1, <1>2, <2>5, <2>6, <2>7, <2>8, <2>9, <2>10, MoveKeeps
<1> QED
  BY <1>3, <1>4

LEMMA ReadPositionsKeeps == ASSUME WatchInvariant, NEW p \in Pollers, ReadPositions(p) PROVE WatchInvariant'
<1> USE Parts
<1> DEFINE positions == [t \in Tickets |-> IF Holder[t] = at[p].link /\ Live(t) THEN broker[t] ELSE NoPosition]
           left == IF at[p].started THEN {} ELSE {t \in Tickets : positions[t].volume > 0}
<1>1. /\ UNCHANGED <<link, started, active, broker, trade, nonces, events, sent, told, at, known, chosen, old, excused,
                     overlap, raced, moved, changes, disturbances>>
      /\ pc[p] = "positions"
  BY DEF ReadPositions, strategy, store, history, bounds
<1>2. /\ live' = [live EXCEPT ![p] = positions] /\ todo' = [todo EXCEPT ![p] = left]
      /\ Goto(p, IF at[p].started THEN "known" ELSE "baseline")
  BY DEF ReadPositions
<1>3. RestType' /\ StoreType'
  BY <1>1, SameRest
<1>4. NoPosition \in Position /\ NoPosition.volume = 0
  BY WatchAssumption DEF NoPosition, Position
<1>5. ASSUME NEW t \in Tickets
      PROVE  /\ positions[t] \in Position /\ positions[t].volume >= 0
             /\ positions[t].volume > 0 => Holder[t] = at[p].link /\ broker[t].volume > 0
             /\ Holder[t] = at[p].link /\ broker[t].volume > 0 => positions[t].volume > 0
  <2>1. broker[t] \in Position /\ broker[t].volume \in Int
    BY DEF RestType, Position
  <2> QED
    BY <1>4, <2>1 DEF Live
<1> HIDE DEF positions
<1>6. positions \in [Tickets -> Position]
  BY <1>5 DEF positions
<1>7. /\ pc' \in [Pollers -> PC] /\ pc'[p] = IF at[p].started THEN "known" ELSE "baseline"
      /\ \A q \in Pollers \ {p} : pc'[q] = pc[q]
  <2>1. (IF at[p].started THEN "known" ELSE "baseline") \in PC
    BY DEF PC
  <2> QED
    BY <1>2, <2>1, Goes
<1>8. live' \in [Pollers -> [Tickets -> Position]] /\ live'[p] = positions /\ \A q \in Pollers \ {p} : live'[q] = live[q]
  BY <1>2, <1>6 DEF PollType
<1>9. todo' \in [Pollers -> SUBSET Tickets] /\ todo'[p] = left /\ \A q \in Pollers \ {p} : todo'[q] = todo[q]
  BY <1>2 DEF PollType
<1>10. PollType'
  BY <1>1, <1>7, <1>8, <1>9 DEF PollType
<1>11. OthersStay(p)
  BY <1>1, <1>7, <1>8, <1>9 DEF OthersStay, Alike
<1>12. PollKnown(p)'
  <2>1. chosen'[p] = {}
    BY <1>1 DEF PollKnown
  <2>2. pc'[p] \notin Publishing /\ (pc'[p] = "known" => at'[p].started)
    BY <1>1, <1>7 DEF Publishing
  <2>3. pc'[p] = "baseline" => ~at'[p].started /\ \A t \in todo'[p] : live'[p][t].volume > 0
    BY <1>1, <1>7, <1>8, <1>9
  <2>4. \A t \in Tickets : live'[p][t].volume >= 0
    BY <1>5, <1>8
  <2> QED
    BY <2>1, <2>2, <2>3, <2>4 DEF PollKnown
<1>13. \A t \in Tickets : live'[p][t].volume > 0 \/ known'[p][t].status # "none" => broker[t].volume # -1
  <2>1. \A t \in Tickets : broker[t].volume \in Int /\ (known[p][t].status # "none" => broker[t].volume # -1)
    BY DEF TicketKnown, RestType, Position
  <2> QED
    BY <1>1, <1>5, <1>8, <2>1
<1>14. ASSUME Orderly
       PROVE  PollRight(p)'
  <2>1. at[p].link = link /\ link # NoAccount /\ at[p].started = started
    BY <1>1, <1>14 DEF PollRight
  <2>2. ASSUME NEW t \in Tickets
        PROVE  /\ live'[p][t].volume > 0 => Holder[t] = link
               /\ trade[t].status = "CLOSED" => live'[p][t].volume = 0
               /\ IsOpen(trade[t]) /\ live'[p][t].volume = 0 => broker[t].volume = 0
               /\ t \in old /\ trade[t].status = "none" =>
                    IF pc'[p] = "baseline" THEN Holder[t] # link \/ broker[t].volume = 0 \/ t \in todo'[p]
                    ELSE live'[p][t].volume = 0
    <3>1. TicketRight(t) /\ TicketKnown(t)
      BY <1>14
    <3>2. broker[t].volume \in -1..MaxLots /\ MaxLots \in Nat /\ live'[p][t].volume \in -1..MaxLots
      BY <1>8, WatchAssumption DEF RestType, Position
    <3>3. /\ live'[p][t].volume >= 0
          /\ live'[p][t].volume > 0 => Holder[t] = link /\ broker[t].volume > 0
          /\ Holder[t] = link /\ broker[t].volume > 0 => live'[p][t].volume > 0
      BY <1>5, <1>8, <2>1
    <3>4. live'[p][t].volume > 0 => Holder[t] = link
      BY <3>3
    <3>5. trade[t].status = "CLOSED" => live'[p][t].volume = 0
      BY <3>1, <3>2, <3>3 DEF TicketRight
    <3>6. IsOpen(trade[t]) /\ live'[p][t].volume = 0 => broker[t].volume = 0
      <4>1. IsOpen(trade[t]) => Holder[t] = link /\ broker[t].volume # -1
        BY <2>1, <3>1 DEF TicketRight, TicketKnown, IsOpen
      <4> QED
        BY <3>2, <3>3, <4>1
    <3>7. ASSUME t \in old, trade[t].status = "none"
          PROVE  IF pc'[p] = "baseline" THEN Holder[t] # link \/ broker[t].volume = 0 \/ t \in todo'[p]
                 ELSE live'[p][t].volume = 0
      <4>1. broker[t].volume # -1 /\ (link = Holder[t] /\ started => broker[t].volume = 0)
        BY <3>1, <3>7 DEF TicketRight, TicketKnown
      <4>2. CASE at[p].started
        <5>1. pc'[p] # "baseline"
          BY <1>7, <4>2
        <5>2. live'[p][t].volume = 0
          BY <2>1, <3>2, <3>3, <4>1, <4>2
        <5> QED
          BY <5>1, <5>2
      <4>3. CASE ~at[p].started
        <5>1. pc'[p] = "baseline" /\ (live'[p][t].volume > 0 => t \in todo'[p])
          BY <1>7, <1>8, <1>9, <4>3
        <5>2. Holder[t] # link \/ broker[t].volume = 0 \/ live'[p][t].volume > 0
          BY <3>2, <3>3, <4>1
        <5> QED
          BY <5>1, <5>2
      <4> QED
        BY <4>2, <4>3
    <3> QED
      BY <3>4, <3>5, <3>6, <3>7
  <2> QED
    BY <1>1, <2>1, <2>2 DEF PollRight
<1>15. pc[p] # "idle" /\ pc'[p] \notin Publishing
  BY <1>1, <1>7 DEF Publishing
<1> QED
  BY <1>1, <1>3, <1>10, <1>11, <1>12, <1>13, <1>14, <1>15, MoveKeeps

LEMMA ReadKnownKeeps == ASSUME WatchInvariant, NEW p \in Pollers, ReadKnown(p) PROVE WatchInvariant'
<1> USE Parts
<1> DEFINE changed == {t \in Tickets : Difference(t, trade[t], live[p][t]) # NoChange}
<1>1. /\ UNCHANGED <<link, started, active, broker, trade, nonces, events, sent, told, old, excused, overlap, raced,
                     moved, changes, disturbances>>
      /\ pc[p] = "known"
  BY DEF ReadKnown, strategy, store, history, bounds
<1>2. RestType' /\ StoreType'
  BY <1>1, SameRest
<1>3. CASE changed = {}
  <2>1. EndPoll(p)
    BY <1>3 DEF ReadKnown
  <2> QED
    BY <1>1, <1>2, <2>1, EndKeeps
<1>4. CASE changed # {}
  <2>1. /\ known' = [known EXCEPT ![p] = trade] /\ todo' = [todo EXCEPT ![p] = changed]
        /\ Goto(p, "publish") /\ UNCHANGED <<at, live, chosen>>
    BY <1>4 DEF ReadKnown
  <2>2. /\ pc' \in [Pollers -> PC] /\ pc'[p] = "publish"
        /\ \A q \in Pollers \ {p} : pc'[q] = pc[q]
    BY <2>1, Goes DEF PC
  <2>3. known' \in [Pollers -> [Tickets -> TradeType]] /\ known'[p] = trade /\ \A q \in Pollers \ {p} : known'[q] = known[q]
    BY <2>1 DEF PollType, StoreType
  <2>4. todo' \in [Pollers -> SUBSET Tickets] /\ todo'[p] = changed /\ \A q \in Pollers \ {p} : todo'[q] = todo[q]
    BY <2>1 DEF PollType
  <2>5. PollType'
    BY <2>1, <2>2, <2>3, <2>4 DEF PollType
  <2>6. OthersStay(p)
    BY <2>1, <2>2, <2>3, <2>4 DEF OthersStay, Alike
  <2>7. PollKnown(p)'
    <3>1. PollKnown(p)
      OBVIOUS
    <3>2. chosen'[p] = {} /\ at'[p].started /\ \A t \in Tickets : live'[p][t].volume >= 0
      BY <1>1, <2>1, <3>1 DEF PollKnown
    <3>3. \A t \in todo'[p] : ChangeOf(p, t)' # NoChange
      BY <2>1, <2>3, <2>4 DEF ChangeOf
    <3> QED
      BY <2>2, <3>2, <3>3 DEF PollKnown
  <2>8. ASSUME Orderly
        PROVE  PollRight(p)'
    <3>1. PollRight(p)
      BY <2>8
    <3> QED
      BY <1>1, <2>1, <2>2, <3>1 DEF PollRight, Reading
  <2>9. \A t \in Tickets : live'[p][t].volume > 0 \/ known'[p][t].status # "none" => broker[t].volume # -1
    BY <2>1, <2>3 DEF TicketKnown
  <2>10. pc[p] # "idle" /\ \A t \in todo'[p] : known'[p][t] = trade[t]
    BY <1>1, <2>3
  <2> QED
    BY <1>1, <1>2, <2>5, <2>6, <2>7, <2>8, <2>9, <2>10, MoveKeeps
<1> QED
  BY <1>3, <1>4

LEMMA RecordBaselineKeeps == ASSUME WatchInvariant, NEW p \in Pollers, RecordBaseline(p) PROVE WatchInvariant'
<1> USE Parts
<1>1. /\ UNCHANGED <<link, started, active, broker, nonces, events, sent, told, pc, at, live, known, chosen, old, excused,
                     overlap, raced, moved, changes, disturbances>>
      /\ pc[p] = "baseline"
  BY DEF RecordBaseline, strategy, history, bounds
<1>2. PICK t \in todo[p] :
        /\ trade' = [trade EXCEPT ![t] = IF @.status # "none" THEN @
             ELSE [status |-> "OPEN", volume |-> live[p][t].volume, stops |-> live[p][t].stops]]
        /\ todo' = [todo EXCEPT ![p] = @ \ {t}]
  BY DEF RecordBaseline
<1> DEFINE new == [status |-> "OPEN", volume |-> live[p][t].volume, stops |-> live[p][t].stops]
<1>3. t \in Tickets /\ live[p][t] \in Position /\ live[p][t].volume > 0
  BY <1>1, <1>2 DEF PollType, PollKnown
<1>4. new \in TradeType /\ new.status = "OPEN"
  BY <1>3, WatchAssumption DEF Position, TradeType, Lots
<1>5. /\ trade' \in [Tickets -> TradeType]
      /\ \A u \in Tickets \ {t} : trade'[u] = trade[u]
      /\ trade[t].status # "none" => trade'[t] = trade[t]
      /\ trade[t].status = "none" => trade'[t] = new
  BY <1>2, <1>3, <1>4 DEF StoreType
<1> HIDE DEF new
<1>6. /\ todo' \in [Pollers -> SUBSET Tickets] /\ todo'[p] = todo[p] \ {t}
      /\ \A q \in Pollers \ {p} : todo'[q] = todo[q]
  BY <1>2 DEF PollType
<1>7. PollType' /\ StoreType' /\ RestType'
  BY <1>1, <1>5, <1>6 DEF PollType, StoreType, RestType
<1>8. TypeOK'
  BY <1>7, TypeSum
<1>9. OthersStay(p)
  BY <1>1, <1>6 DEF OthersStay, Alike
<1>10. PollKnown(p)'
  <2>1. PollKnown(p)
    OBVIOUS
  <2>2. chosen'[p] = {} /\ ~at'[p].started /\ (\A u \in todo'[p] : live'[p][u].volume > 0)
        /\ \A u \in Tickets : live'[p][u].volume >= 0
    BY <1>1, <1>6, <2>1 DEF PollKnown
  <2> QED
    BY <1>1, <2>2 DEF PollKnown, Publishing
<1>11. \A q \in Pollers : PollKnown(q)'
  BY <1>9, <1>10, OthersKnown
<1>12. ASSUME NEW u \in Tickets
       PROVE  TicketKnown(u)'
  <2>1. TicketKnown(u) /\ TicketKnown(t)
    BY <1>3
  <2>2. broker[t].volume # -1
    BY <1>3, <2>1 DEF TicketKnown
  <2>3. trade'[u].status # "none" => broker[u].volume # -1
    BY <1>5, <2>1, <2>2 DEF TicketKnown
  <2>4. trade[u].status # "none" => trade'[u].status # "none"
    BY <1>5
  <2> QED
    BY <1>1, <2>1, <2>3, <2>4 DEF TicketKnown, Sent
<1>13. ASSUME ~overlap'
       PROVE  /\ OnePoll' /\ \A u \in Tickets : Partials(u)'
              /\ \A q \in Pollers \ {p} : pc'[q] = "idle"
  <2>1. OnePoll /\ \A u \in Tickets : Partials(u)
    BY <1>1, <1>13
  <2>2. \A q \in Pollers \ {p} : pc'[q] = "idle"
    BY <1>1, <1>9, <2>1, OthersIdle
  <2>3. OnePoll'
    BY <1>1, <2>2 DEF OnePoll, Publishing
  <2>4. ASSUME NEW u \in Tickets
        PROVE  Partials(u)'
    <3>1. Partials(u) /\ Partials(t)
      BY <1>3, <2>1
    <3>2. CASE trade'[u] = trade[u]
      BY <1>1, <3>1, <3>2 DEF Partials, Sent
    <3>3. CASE u = t /\ trade[t].status = "none" /\ trade'[t] = new
      <4>1. Sent("PARTIAL_CLOSE", u) = {}
        BY <3>1, <3>3 DEF Partials
      <4> QED
        BY <1>1, <4>1 DEF Partials, Sent
    <3> QED
      BY <1>5, <3>2, <3>3
  <2> QED
    BY <2>2, <2>3, <2>4
<1>14. ASSUME Orderly'
       PROVE  (\A q \in Pollers : PollRight(q)') /\ \A u \in Tickets : TicketRight(u)'
  <2>1. Orderly /\ ~overlap'
    BY <1>1, <1>14 DEF Orderly
  <2>2. PollRight(p)
    BY <2>1
  <2>3. /\ at[p].link = link /\ link # NoAccount /\ at[p].started = started
        /\ \A u \in Tickets :
             /\ live[p][u].volume > 0 => Holder[u] = link
             /\ trade[u].status = "CLOSED" => live[p][u].volume = 0
             /\ IsOpen(trade[u]) /\ live[p][u].volume = 0 => broker[u].volume = 0
             /\ u \in old /\ trade[u].status = "none" => Holder[u] # link \/ broker[u].volume = 0 \/ u \in todo[p]
    BY <1>1, <2>2 DEF PollRight, Reading
  <2>4. ASSUME NEW u \in Tickets
        PROVE  /\ live[p][u].volume > 0 => Holder[u] = link
               /\ trade'[u].status = "CLOSED" => live[p][u].volume = 0
               /\ IsOpen(trade'[u]) /\ live[p][u].volume = 0 => broker[u].volume = 0
               /\ u \in old /\ trade'[u].status = "none" => Holder[u] # link \/ broker[u].volume = 0 \/ u \in todo'[p]
    <3>1. CASE trade'[u] = trade[u] /\ (trade[u].status = "none" => u # t)
      BY <1>6, <2>3, <3>1
    <3>2. CASE u = t /\ trade'[t] = new
      BY <1>3, <1>4, <2>3, <3>2
    <3> QED
      BY <1>5, <3>1, <3>2
  <2>5. PollRight(p)'
    BY <1>1, <2>3, <2>4 DEF PollRight
  <2>6. ASSUME NEW q \in Pollers \ {p}
        PROVE  PollRight(q)'
    <3>1. pc'[q] = "idle"
      BY <1>13, <2>1
    <3> QED
      BY <3>1 DEF PollRight, Reading
  <2>7. ASSUME NEW u \in Tickets
        PROVE  TicketRight(u)'
    <3>1. TicketRight(u)
      BY <2>1
    <3>2. CASE trade'[u] = trade[u]
      BY <1>1, <3>1, <3>2 DEF TicketRight, Sent
    <3>3. CASE u = t /\ trade[t].status = "none" /\ trade'[t] = new
      <4>1. Holder[u] = link /\ trade'[u].status = "OPEN"
        BY <1>3, <1>4, <2>3, <3>3
      <4> QED
        BY <1>1, <3>1, <4>1 DEF TicketRight, Sent
    <3> QED
      BY <1>5, <3>2, <3>3
  <2> QED
    BY <2>5, <2>6, <2>7
<1> QED
  BY <1>8, <1>11, <1>12, <1>13, <1>14 DEF WatchInvariant
-----------------------------------------------------------------------------
(* publish and ingestMasterEvent.                                          *)

\* After a change the poll is over, or goes on with what it had less that ticket.
GoneOn(p, t) ==
  \/ pc'[p] = "idle"
  \/ /\ pc'[p] = "publish" /\ todo'[p] = todo[p] \ {t} /\ chosen'[p] = {}
     /\ at'[p] = at[p] /\ live'[p] = live[p] /\ known'[p] = known[p]

LEMMA Continues ==
  ASSUME PollType, NEW p \in Pollers, PollKnown(p), pc[p] \in Publishing, NEW t, Continue(p, t)
  PROVE  /\ PollType' /\ OthersStay(p) /\ PollKnown(p)' /\ GoneOn(p, t)
         /\ \A u \in Tickets : live'[p][u].volume > 0 \/ known'[p][u].status # "none"
                                 => live[p][u].volume > 0 \/ known[p][u].status # "none"
<1>1. CASE todo[p] \ {t} = {}
  <2>1. EndPoll(p)
    BY <1>1 DEF Continue
  <2>2. PollType' /\ OthersStay(p) /\ Ended(p) /\ PollKnown(p)'
    BY <2>1, Ends
  <2>3. NoPosition.volume = 0 /\ NoTrade.status = "none"
    BY DEF NoPosition, NoTrade
  <2> QED
    BY <2>2, <2>3 DEF Ended, GoneOn
<1>2. CASE todo[p] \ {t} # {}
  <2>1. /\ Goto(p, "publish") /\ todo' = [todo EXCEPT ![p] = @ \ {t}] /\ chosen' = [chosen EXCEPT ![p] = {}]
        /\ UNCHANGED <<at, live, known>>
    BY <1>2 DEF Continue
  <2>2. /\ pc' \in [Pollers -> PC] /\ pc'[p] = "publish"
        /\ \A q \in Pollers \ {p} : pc'[q] = pc[q]
    BY <2>1, Goes DEF PC
  <2>3. /\ todo' \in [Pollers -> SUBSET Tickets] /\ todo'[p] = todo[p] \ {t}
        /\ \A q \in Pollers \ {p} : todo'[q] = todo[q]
    BY <2>1 DEF PollType
  <2>4. /\ chosen' \in [Pollers -> SUBSET Tickets] /\ chosen'[p] = {}
        /\ \A q \in Pollers \ {p} : chosen'[q] = chosen[q]
    BY <2>1 DEF PollType
  <2>5. PollType'
    BY <2>1, <2>2, <2>3, <2>4 DEF PollType
  <2>6. OthersStay(p)
    BY <2>1, <2>2, <2>3, <2>4 DEF OthersStay, Alike
  <2>7. PollKnown(p)'
    <3>1. at'[p].started /\ \A u \in Tickets : live'[p][u].volume >= 0
      BY <2>1 DEF PollKnown
    <3>2. \A u \in todo'[p] : ChangeOf(p, u)' # NoChange
      BY <2>1, <2>3 DEF PollKnown, ChangeOf
    <3> QED
      BY <2>2, <2>4, <3>1, <3>2 DEF PollKnown
  <2> QED
    BY <2>1, <2>2, <2>3, <2>4, <2>5, <2>6, <2>7 DEF GoneOn
<1> QED
  BY <1>1, <1>2

LEMMA ClaimNonceKeeps == ASSUME WatchInvariant, NEW p \in Pollers, ClaimNonce(p) PROVE WatchInvariant'
<1> USE Parts
<1>1. /\ UNCHANGED <<link, started, active, broker, trade, events, sent, told, old, excused, overlap, raced, moved,
                     changes, disturbances>>
      /\ pc[p] = "publish"
  BY DEF ClaimNonce, strategy, history, bounds
<1>2. PICK t \in todo[p] :
        /\ nonces' = nonces \cup {ChangeOf(p, t).id}
        /\ \/ Continue(p, t)
           \/ /\ Goto(p, "store") /\ chosen' = [chosen EXCEPT ![p] = {t}]
              /\ UNCHANGED <<at, live, known, todo>>
  BY DEF ClaimNonce
<1>3. /\ PollKnown(p) /\ t \in Tickets /\ ChangeOf(p, t) # NoChange
      /\ known[p][t] \in TradeType /\ live[p][t] \in Position /\ live[p][t].volume >= 0
  BY <1>1, <1>2 DEF PollKnown, PollType, Publishing
<1>4. ChangeOf(p, t).id \in Ids
  <2>1. PICK c : c = ChangeOf(p, t)
    OBVIOUS
  <2>2. c = Difference(t, known[p][t], live[p][t]) /\ c # NoChange
    BY <1>3, <2>1 DEF ChangeOf
  <2>3. c.id \in Ids
    BY <1>3, <2>2, Differs
  <2> QED
    BY <2>1, <2>3
<1>5. RestType' /\ StoreType'
  BY <1>1, <1>2, <1>4 DEF RestType, StoreType
<1>6. pc[p] \in Publishing /\ pc[p] # "idle"
  BY <1>1 DEF Publishing
<1>7. CASE Continue(p, t)
  <2>1. /\ PollType' /\ OthersStay(p) /\ PollKnown(p)' /\ GoneOn(p, t)
        /\ \A u \in Tickets : live'[p][u].volume > 0 \/ known'[p][u].status # "none"
                                => live[p][u].volume > 0 \/ known[p][u].status # "none"
    BY <1>3, <1>6, <1>7, Continues
  <2>2. \A u \in Tickets : live'[p][u].volume > 0 \/ known'[p][u].status # "none" => broker[u].volume # -1
    BY <2>1 DEF TicketKnown
  <2>3. ~overlap /\ pc'[p] \in Publishing => \A u \in todo'[p] : known'[p][u] = trade[u]
    BY <1>6, <2>1 DEF OnePoll, GoneOn, Publishing
  <2>4. ASSUME Orderly
        PROVE  PollRight(p)'
    <3>1. PollRight(p)
      BY <2>4
    <3>2. CASE pc'[p] = "idle"
      BY <3>2 DEF PollRight, Reading
    <3>3. CASE pc'[p] # "idle"
      <4>1. pc'[p] = "publish" /\ at'[p] = at[p] /\ live'[p] = live[p]
        BY <2>1, <3>3 DEF GoneOn
      <4> QED
        BY <1>1, <3>1, <4>1 DEF PollRight, Reading
    <3> QED
      BY <3>2, <3>3
  <2> QED
    BY <1>1, <1>5, <1>6, <2>1, <2>2, <2>3, <2>4, MoveKeeps
<1>8. CASE /\ Goto(p, "store") /\ chosen' = [chosen EXCEPT ![p] = {t}]
           /\ UNCHANGED <<at, live, known, todo>>
  <2>1. /\ pc' \in [Pollers -> PC] /\ pc'[p] = "store"
        /\ \A q \in Pollers \ {p} : pc'[q] = pc[q]
    BY <1>8, Goes DEF PC
  <2>2. /\ chosen' \in [Pollers -> SUBSET Tickets] /\ chosen'[p] = {t}
        /\ \A q \in Pollers \ {p} : chosen'[q] = chosen[q]
    BY <1>3, <1>8 DEF PollType
  <2>3. PollType'
    BY <1>8, <2>1, <2>2 DEF PollType
  <2>4. OthersStay(p)
    BY <1>8, <2>1, <2>2 DEF OthersStay, Alike
  <2>5. PollKnown(p)'
    <3>1. \A u \in todo'[p] : ChangeOf(p, u)' # NoChange
      BY <1>3, <1>6, <1>8 DEF PollKnown, ChangeOf
    <3> QED
      BY <1>2, <1>3, <1>6, <1>8, <2>1, <2>2, <3>1 DEF PollKnown
  <2>6. \A u \in Tickets : live'[p][u].volume > 0 \/ known'[p][u].status # "none" => broker[u].volume # -1
    BY <1>8 DEF TicketKnown
  <2>7. ~overlap => \A u \in todo'[p] : known'[p][u] = trade[u]
    BY <1>6, <1>8 DEF OnePoll
  <2>8. ASSUME Orderly
        PROVE  PollRight(p)'
    <3>1. PollRight(p)
      BY <2>8
    <3> QED
      BY <1>1, <1>8, <2>1, <3>1 DEF PollRight, Reading
  <2> QED
    BY <1>1, <1>5, <1>6, <2>3, <2>4, <2>5, <2>6, <2>7, <2>8, MoveKeeps
<1> QED
  BY <1>2, <1>7, <1>8

\* A change stored, in whole or in part: of its ticket the row may be written and its id
\* added to the events, and with both to what is sent.
Stored(p, t) ==
  /\ trade' = trade \/ trade' = [trade EXCEPT ![t] = Upserted(@, ChangeOf(p, t))]
  /\ events' = events \/ events' = events \cup {ChangeOf(p, t).id}
  /\ \/ sent' = sent
     \/ /\ sent' = sent \cup {ChangeOf(p, t).id} /\ events' = events \cup {ChangeOf(p, t).id}
        /\ trade' = [trade EXCEPT ![t] = Upserted(@, ChangeOf(p, t))]

\* What a stored change is, and what it makes of the record.
LEMMA Stores ==
  ASSUME WatchInvariant, NEW p \in Pollers, pc[p] = "store", NEW t \in chosen[p], Stored(p, t),
         NEW c, c = ChangeOf(p, t)
  PROVE  /\ t \in Tickets /\ t \in todo[p] /\ c.stops \in Stops
         /\ c.id \in Ids /\ c.id.ticket = t /\ c.id.kind \in {"OPEN", "PARTIAL_CLOSE", "MODIFY", "CLOSE"}
         /\ trade' \in [Tickets -> TradeType] /\ events' \subseteq Ids /\ sent' \subseteq events'
         /\ \A u \in Tickets \ {t} : trade'[u] = trade[u]
         /\ sent' = sent \/ (sent' = sent \cup {c.id} /\ trade'[t] = Upserted(trade[t], c))
         /\ trade'[t] = trade[t] \/ trade'[t] = Upserted(trade[t], c)
         /\ Upserted(trade[t], c).status # "none" /\ broker[t].volume # -1
<1> USE Parts
<1>1. /\ t \in todo[p] /\ t \in Tickets /\ c # NoChange /\ c = Difference(t, known[p][t], live[p][t])
      /\ known[p][t] \in TradeType /\ live[p][t] \in Position /\ live[p][t].volume >= 0
  BY DEF PollKnown, PollType, Publishing, ChangeOf
<1>2. /\ c.id \in Ids /\ c.id.ticket = t /\ c.volume \in Lots /\ c.stops \in Stops
      /\ c.id.kind = "OPEN" => live[p][t].volume > 0
      /\ c.id.kind # "OPEN" => IsOpen(known[p][t])
  <2>1. PICK was, now : was = known[p][t] /\ now = live[p][t]
    OBVIOUS
  <2>2. was \in TradeType /\ now \in Position /\ now.volume >= 0 /\ c = Difference(t, was, now) /\ c # NoChange
    BY <1>1, <2>1
  <2>3. /\ c.id \in Ids /\ c.id.ticket = t /\ c.volume \in Lots /\ c.stops \in Stops
        /\ c.id.kind = "OPEN" => now.volume > 0
        /\ c.id.kind \in {"CLOSE", "PARTIAL_CLOSE", "MODIFY"} => IsOpen(was)
    BY <1>1, <2>2, Differs
  <2> QED
    BY <2>1, <2>3 DEF Ids
<1>3. trade[t] \in TradeType
  BY <1>1 DEF StoreType
<1>4. Upserted(trade[t], c) \in TradeType /\ Upserted(trade[t], c).status # "none"
  BY <1>2, <1>3, Upserts
<1>5. trade' = trade \/ trade' = [trade EXCEPT ![t] = Upserted(trade[t], c)]
  BY DEF Stored
<1>6. /\ trade' \in [Tickets -> TradeType] /\ \A u \in Tickets \ {t} : trade'[u] = trade[u]
      /\ trade'[t] = trade[t] \/ trade'[t] = Upserted(trade[t], c)
  BY <1>1, <1>4, <1>5 DEF StoreType
<1>7. events' \subseteq Ids /\ sent' \subseteq events'
  BY <1>2 DEF Stored, StoreType
<1>8. sent' = sent \/ (sent' = sent \cup {c.id} /\ trade'[t] = Upserted(trade[t], c))
  BY <1>1 DEF Stored, StoreType
<1>9. broker[t].volume # -1
  BY <1>1, <1>2 DEF TicketKnown, IsOpen
<1>10. c.id.kind \in {"OPEN", "PARTIAL_CLOSE", "MODIFY", "CLOSE"}
  BY <1>2 DEF Ids
<1> QED
  BY <1>1, <1>2, <1>4, <1>6, <1>7, <1>8, <1>9, <1>10

\* With one poll at a time, a change stored is one of the record as it is.
LEMMA StoresOne ==
  ASSUME WatchInvariant, ~overlap, NEW p \in Pollers, pc[p] = "store", NEW t \in chosen[p], Stored(p, t),
         NEW c, c = ChangeOf(p, t)
  PROVE  /\ trade'[t] # trade[t] => trade'[t].status # "none"
         /\ trade'[t].status = "none" => trade[t].status = "none" /\ sent' = sent
         /\ trade'[t].status = "CLOSED" => trade[t].status = "CLOSED" \/ c.id.kind = "CLOSE"
         /\ IsOpen(trade'[t]) => IsOpen(trade[t]) \/ (trade[t].status = "none" /\ c.id.kind = "OPEN")
         /\ c.id.kind = "OPEN" => ~IsOpen(trade[t]) /\ live[p][t].volume > 0
         /\ c.id.kind = "CLOSE" => IsOpen(trade[t]) /\ live[p][t].volume = 0
         /\ c.id.kind \in {"PARTIAL_CLOSE", "MODIFY"} => IsOpen(trade[t]) /\ live[p][t].volume > 0
         /\ trade'[t] # trade[t] /\ c.id.kind = "CLOSE" => trade'[t].status = "CLOSED"
         /\ c.id.kind = "PARTIAL_CLOSE" =>
              c.id.detail[1] = trade[t].volume /\ c.id.detail[2] < trade[t].volume /\ c.id.detail[2] \in Lots
         /\ trade'[t] # trade[t] /\ c.id.kind = "PARTIAL_CLOSE" => trade'[t].volume = c.id.detail[2]
         /\ trade'[t] # trade[t] /\ c.id.kind = "MODIFY" => trade'[t].volume = trade[t].volume
         /\ sent' # sent => trade'[t] # trade[t] \/ c.id.kind \notin {"CLOSE", "PARTIAL_CLOSE"}
<1> USE Parts
<1>1. /\ t \in todo[p] /\ t \in Tickets /\ c.stops \in Stops
      /\ c.id.kind \in {"OPEN", "PARTIAL_CLOSE", "MODIFY", "CLOSE"}
      /\ sent' = sent \/ (sent' = sent \cup {c.id} /\ trade'[t] = Upserted(trade[t], c))
      /\ trade'[t] = trade[t] \/ trade'[t] = Upserted(trade[t], c)
  BY Stores
<1>2. PICK was, now, new : was = trade[t] /\ now = live[p][t] /\ new = Upserted(was, c)
  OBVIOUS
<1>3. /\ was \in TradeType /\ now \in Position /\ now.volume >= 0 /\ c = Difference(t, was, now) /\ c # NoChange
      /\ known[p][t] = trade[t]
  BY <1>1, <1>2 DEF PollKnown, PollType, StoreType, Publishing, ChangeOf, OnePoll
<1>4. /\ c.id \in Ids /\ c.id.ticket = t /\ c.volume \in Lots
      /\ c.id.kind = "OPEN" => ~IsOpen(was) /\ now.volume > 0
      /\ c.id.kind = "CLOSE" => IsOpen(was) /\ now.volume = 0
      /\ c.id.kind = "PARTIAL_CLOSE" =>
           /\ IsOpen(was) /\ now.volume > 0 /\ now.volume < was.volume
           /\ c.volume = was.volume - now.volume
           /\ c.id.detail[1] = was.volume /\ c.id.detail[2] = now.volume
      /\ c.id.kind = "MODIFY" => IsOpen(was) /\ now.volume > 0 /\ c.volume = was.volume
  BY <1>1, <1>3, Differs
<1>5. /\ new \in TradeType /\ new.status # "none"
      /\ was.status = "none" => new.status = "OPEN"
      /\ was.status # "none" /\ c.id.kind = "CLOSE" => new.status = "CLOSED"
      /\ c.id.kind \notin {"CLOSE", "PARTIAL_CLOSE"} /\ was.status # "none" =>
           new.status = was.status /\ new.volume = c.volume
      /\ was.status # "none" /\ c.id.kind = "PARTIAL_CLOSE" =>
           /\ new.status = "PARTIALLY_CLOSED"
           /\ was.volume > 0 /\ c.volume < was.volume => new.volume = was.volume - c.volume
  BY <1>1, <1>2, <1>3, <1>4, Upserts
<1>6. /\ was.volume \in Lots /\ was.volume \in Int /\ now.volume \in Int /\ MaxLots \in Nat
      /\ was.status \in {"none", "OPEN", "PARTIALLY_CLOSED", "CLOSED"}
  BY <1>3, WatchAssumption DEF TradeType, Position, Lots
<1>7. IsOpen(was) => was.status # "none" /\ was.status # "CLOSED"
  BY DEF IsOpen
<1>8. c.id.kind = "PARTIAL_CLOSE" => new.volume = now.volume /\ now.volume \in Lots /\ was.volume > 0
  BY <1>4, <1>5, <1>6, <1>7 DEF Lots
<1>9. new.status = "CLOSED" => was.status = "CLOSED" \/ c.id.kind = "CLOSE"
  BY <1>1, <1>5, <1>6
<1>10. IsOpen(new) => IsOpen(was) \/ (was.status = "none" /\ c.id.kind = "OPEN")
  BY <1>1, <1>4, <1>5, <1>6 DEF IsOpen
<1>11. sent' # sent /\ c.id.kind \in {"CLOSE", "PARTIAL_CLOSE"} => trade'[t] # trade[t]
  BY <1>1, <1>2, <1>4, <1>5, <1>6, <1>7, <1>8
<1>12. trade'[t] = was \/ trade'[t] = new
  BY <1>1, <1>2
<1>13. trade'[t].status = "none" => trade[t].status = "none" /\ sent' = sent
  BY <1>1, <1>2, <1>5
<1>14. /\ trade'[t] # trade[t] => trade'[t] = new
       /\ trade[t] = was /\ live[p][t] = now
  BY <1>2, <1>12
<1>15. /\ trade'[t].status = "CLOSED" => trade[t].status = "CLOSED" \/ c.id.kind = "CLOSE"
       /\ IsOpen(trade'[t]) => IsOpen(trade[t]) \/ (trade[t].status = "none" /\ c.id.kind = "OPEN")
  BY <1>9, <1>10, <1>12, <1>14
<1>16. trade'[t] # trade[t] /\ c.id.kind = "CLOSE" => trade'[t].status = "CLOSED"
  BY <1>4, <1>5, <1>7, <1>14
<1>17. trade'[t] # trade[t] /\ c.id.kind = "MODIFY" => trade'[t].volume = trade[t].volume
  BY <1>4, <1>5, <1>7, <1>14
<1>18. c.id.kind = "PARTIAL_CLOSE" =>
         c.id.detail[1] = trade[t].volume /\ c.id.detail[2] < trade[t].volume /\ c.id.detail[2] \in Lots
  BY <1>4, <1>8, <1>14
<1>19. trade'[t] # trade[t] /\ c.id.kind = "PARTIAL_CLOSE" => trade'[t].volume = c.id.detail[2]
  BY <1>4, <1>8, <1>14
<1>20. trade'[t] # trade[t] => trade'[t].status # "none"
  BY <1>5, <1>14
<1>21. /\ c.id.kind = "OPEN" => ~IsOpen(trade[t]) /\ live[p][t].volume > 0
       /\ c.id.kind = "CLOSE" => IsOpen(trade[t]) /\ live[p][t].volume = 0
       /\ c.id.kind \in {"PARTIAL_CLOSE", "MODIFY"} => IsOpen(trade[t]) /\ live[p][t].volume > 0
  BY <1>4, <1>14
<1> QED
  BY <1>11, <1>13, <1>15, <1>16, <1>17, <1>18, <1>19, <1>20, <1>21
LEMMA StoredKeeps ==
  ASSUME WatchInvariant, NEW p \in Pollers, pc[p] = "store", NEW t \in chosen[p], Stored(p, t), Continue(p, t),
         UNCHANGED <<link, started, active, broker, nonces, old, overlap, raced, moved>>, RestType',
         told' \in [Tickets -> Stops]
  PROVE  WatchInvariant'
<1> USE Parts
<1>1. PICK c : c = ChangeOf(p, t)
  OBVIOUS
<1>2. /\ t \in Tickets /\ t \in todo[p]
      /\ c.id \in Ids /\ c.id.ticket = t /\ c.id.kind \in {"OPEN", "PARTIAL_CLOSE", "MODIFY", "CLOSE"}
      /\ trade' \in [Tickets -> TradeType] /\ events' \subseteq Ids /\ sent' \subseteq events'
      /\ \A u \in Tickets \ {t} : trade'[u] = trade[u]
      /\ sent' = sent \/ (sent' = sent \cup {c.id} /\ trade'[t] = Upserted(trade[t], c))
      /\ trade'[t] = trade[t] \/ trade'[t] = Upserted(trade[t], c)
      /\ Upserted(trade[t], c).status # "none" /\ broker[t].volume # -1
  BY <1>1, Stores
<1>3. pc[p] \in Publishing /\ pc[p] # "idle" /\ PollKnown(p)
  BY DEF Publishing
<1>4. /\ PollType' /\ OthersStay(p) /\ PollKnown(p)' /\ GoneOn(p, t)
      /\ \A u \in Tickets : live'[p][u].volume > 0 \/ known'[p][u].status # "none"
                              => live[p][u].volume > 0 \/ known[p][u].status # "none"
  BY <1>3, Continues
<1>5. StoreType'
  BY <1>2 DEF StoreType
<1>6. TypeOK'
  BY <1>4, <1>5, TypeSum
<1>7. \A q \in Pollers : PollKnown(q)'
  BY <1>4, OthersKnown
<1>8. \A u \in Tickets : u # t => \A kind : Sent(kind, u)' = Sent(kind, u)
  BY <1>2 DEF Sent
<1>9. ASSUME NEW u \in Tickets
       PROVE  TicketKnown(u)'
  <2>1. TicketKnown(u)
    OBVIOUS
  <2>2. \A q \in Pollers : live'[q][u].volume > 0 \/ known'[q][u].status # "none" => broker[u].volume # -1
    <3>1. ASSUME NEW q \in Pollers \ {p}
          PROVE  live'[q][u].volume > 0 \/ known'[q][u].status # "none" => broker[u].volume # -1
      BY <1>4, <2>1 DEF OthersStay, Alike, TicketKnown
    <3>2. live'[p][u].volume > 0 \/ known'[p][u].status # "none" => broker[u].volume # -1
      BY <1>4, <2>1 DEF TicketKnown
    <3> QED
      BY <3>1, <3>2
  <2>3. trade'[u].status # "none" \/ u \in old => broker[u].volume # -1
    BY <1>2, <2>1 DEF TicketKnown
  <2>4. Sent("OPEN", u)' # {} => trade'[u].status # "none"
    <3>1. CASE u # t
      BY <1>2, <1>8, <2>1, <3>1 DEF TicketKnown
    <3>2. CASE u = t /\ sent' = sent
      BY <1>2, <2>1, <3>2 DEF TicketKnown, Sent
    <3> QED
      BY <1>2, <3>1, <3>2
  <2> QED
    BY <2>2, <2>3, <2>4 DEF TicketKnown
<1>10. ASSUME ~overlap
       PROVE  /\ trade'[t] # trade[t] => trade'[t].status # "none"
              /\ trade'[t].status = "none" => trade[t].status = "none" /\ sent' = sent
              /\ trade'[t].status = "CLOSED" => trade[t].status = "CLOSED" \/ c.id.kind = "CLOSE"
              /\ IsOpen(trade'[t]) => IsOpen(trade[t]) \/ (trade[t].status = "none" /\ c.id.kind = "OPEN")
              /\ c.id.kind = "OPEN" => ~IsOpen(trade[t]) /\ live[p][t].volume > 0
              /\ c.id.kind = "CLOSE" => IsOpen(trade[t]) /\ live[p][t].volume = 0
              /\ c.id.kind \in {"PARTIAL_CLOSE", "MODIFY"} => IsOpen(trade[t]) /\ live[p][t].volume > 0
              /\ trade'[t] # trade[t] /\ c.id.kind = "CLOSE" => trade'[t].status = "CLOSED"
              /\ c.id.kind = "PARTIAL_CLOSE" =>
                   c.id.detail[1] = trade[t].volume /\ c.id.detail[2] < trade[t].volume /\ c.id.detail[2] \in Lots
              /\ trade'[t] # trade[t] /\ c.id.kind = "PARTIAL_CLOSE" => trade'[t].volume = c.id.detail[2]
              /\ trade'[t] # trade[t] /\ c.id.kind = "MODIFY" => trade'[t].volume = trade[t].volume
              /\ sent' # sent => trade'[t] # trade[t] \/ c.id.kind \notin {"CLOSE", "PARTIAL_CLOSE"}
  BY <1>1, <1>10, StoresOne
<1>11. sent' \subseteq sent \cup {c.id}
  BY <1>2
<1>12. ASSUME ~overlap'
       PROVE  /\ OnePoll' /\ \A u \in Tickets : Partials(u)'
              /\ \A q \in Pollers \ {p} : pc'[q] = "idle"
  <2>1. OnePoll /\ ~overlap /\ \A u \in Tickets : Partials(u)
    BY <1>12
  <2>2. \A q \in Pollers \ {p} : pc'[q] = "idle"
    BY <1>3, <1>4, <2>1, OthersIdle
  <2>3. ASSUME pc'[p] \in Publishing, NEW u \in todo'[p]
        PROVE  known'[p][u] = trade'[u]
    <3>1. todo'[p] = todo[p] \ {t} /\ known'[p] = known[p]
      BY <1>4, <2>3 DEF GoneOn, Publishing
    <3>2. u \in todo[p] /\ u \in Tickets \ {t}
      BY <3>1 DEF PollType
    <3>3. known[p][u] = trade[u]
      BY <1>3, <2>1, <3>2 DEF OnePoll
    <3> QED
      BY <1>2, <3>1, <3>2, <3>3
  <2>4. OnePoll'
    BY <2>2, <2>3 DEF OnePoll, Publishing
  <2>5. Partials(t)'
    <3>1. Partials(t)
      BY <1>2, <2>1
    <3>2. \A i \in Sent("PARTIAL_CLOSE", t)' : i \in Sent("PARTIAL_CLOSE", t) \/ (i = c.id /\ c.id.kind = "PARTIAL_CLOSE")
      BY <1>11 DEF Sent
    <3>3. trade[t].volume \in Int /\ trade'[t].volume \in Int
      BY <1>2 DEF StoreType, TradeType, Lots
    <3>4. \A i \in Sent("PARTIAL_CLOSE", t) : i.detail[1] \in Int /\ i.detail[2] \in Int
      <4>1. \A i \in Sent("PARTIAL_CLOSE", t) : i \in Ids
        BY DEF Sent, StoreType
      <4>2. Lots \subseteq Int /\ Stops \subseteq Int
        BY WatchAssumption DEF Lots
      <4> QED
        BY <4>1, <4>2 DEF Ids
    <3>5. /\ IsOpen(trade[t]) => \A j \in Sent("PARTIAL_CLOSE", t) : j.detail[2] >= trade[t].volume
          /\ \A i, j \in Sent("PARTIAL_CLOSE", t) : i # j => i.detail[2] >= j.detail[1] \/ j.detail[2] >= i.detail[1]
          /\ trade[t].status = "none" => Sent("PARTIAL_CLOSE", t) = {}
      BY <3>1 DEF Partials
    <3>6. (trade[t].status = "none" => Sent("PARTIAL_CLOSE", t) = {}) => (trade'[t].status = "none" => Sent("PARTIAL_CLOSE", t)' = {})
      BY <1>10, <2>1 DEF Sent
    <3>7. CASE c.id.kind = "PARTIAL_CLOSE" /\ sent' # sent
      <4>1. /\ c.id.detail[1] = trade[t].volume /\ c.id.detail[2] < trade[t].volume /\ c.id.detail[2] \in Int
            /\ IsOpen(trade[t]) /\ trade'[t].volume = c.id.detail[2]
        BY <1>10, <2>1, <3>7 DEF Lots
      <4>2. \A j \in Sent("PARTIAL_CLOSE", t)' : j.detail[2] >= trade'[t].volume
        <5>1. ASSUME NEW j \in Sent("PARTIAL_CLOSE", t)
              PROVE  j.detail[2] >= trade'[t].volume
          <6>1. j.detail[2] >= trade[t].volume /\ j.detail[2] \in Int
            BY <3>4, <3>5, <4>1
          <6> QED
            BY <3>3, <4>1, <6>1
        <5>2. c.id.detail[2] >= trade'[t].volume
          BY <3>3, <4>1
        <5> QED
          BY <3>2, <5>1, <5>2
      <4>3. \A i, j \in Sent("PARTIAL_CLOSE", t)' : i # j => i.detail[2] >= j.detail[1] \/ j.detail[2] >= i.detail[1]
        <5>1. \A j \in Sent("PARTIAL_CLOSE", t) : j.detail[2] >= c.id.detail[1]
          BY <3>5, <4>1
        <5> QED
          BY <3>2, <3>5, <5>1
      <4> QED
        BY <3>5, <3>6, <4>2, <4>3 DEF Partials
    <3>8. CASE c.id.kind # "PARTIAL_CLOSE" \/ sent' = sent
      <4>1. Sent("PARTIAL_CLOSE", t)' \subseteq Sent("PARTIAL_CLOSE", t)
        BY <1>11, <3>8 DEF Sent
      <4>2. ASSUME IsOpen(trade'[t])
            PROVE  \A j \in Sent("PARTIAL_CLOSE", t) : j.detail[2] >= trade'[t].volume
        <5>1. IsOpen(trade[t]) \/ Sent("PARTIAL_CLOSE", t) = {}
          BY <1>10, <2>1, <3>5, <4>2
        <5>2. CASE IsOpen(trade[t])
          <6>1. trade'[t].volume <= trade[t].volume
            <7>1. CASE trade'[t] = trade[t]
              BY <3>3, <7>1
            <7>2. CASE trade'[t] # trade[t]
              <8>1. c.id.kind \in {"PARTIAL_CLOSE", "MODIFY"}
                BY <1>2, <1>10, <2>1, <4>2, <5>2, <7>2 DEF IsOpen
              <8>2. c.id.kind = "MODIFY" => trade'[t].volume = trade[t].volume
                BY <1>10, <2>1, <7>2
              <8>3. c.id.kind = "PARTIAL_CLOSE" => trade'[t].volume < trade[t].volume
                BY <1>10, <2>1, <7>2
              <8> QED
                BY <3>3, <8>1, <8>2, <8>3
            <7> QED
              BY <7>1, <7>2
          <6>2. ASSUME NEW j \in Sent("PARTIAL_CLOSE", t)
                PROVE  j.detail[2] >= trade'[t].volume
            <7>1. j.detail[2] >= trade[t].volume /\ j.detail[2] \in Int
              BY <3>4, <3>5, <5>2
            <7> QED
              BY <3>3, <6>1, <7>1
          <6> QED
            BY <6>2
        <5> QED
          BY <5>1, <5>2
      <4>3. \A i, j \in Sent("PARTIAL_CLOSE", t)' : i # j => i.detail[2] >= j.detail[1] \/ j.detail[2] >= i.detail[1]
        BY <3>5, <4>1
      <4>4. IsOpen(trade'[t]) => \A j \in Sent("PARTIAL_CLOSE", t)' : j.detail[2] >= trade'[t].volume
        BY <4>1, <4>2
      <4> QED
        BY <3>5, <3>6, <4>3, <4>4 DEF Partials
    <3> QED
      BY <3>7, <3>8
  <2>6. ASSUME NEW u \in Tickets \ {t}
        PROVE  Partials(u)'
    <3>1. Partials(u) /\ trade'[u] = trade[u] /\ Sent("PARTIAL_CLOSE", u)' = Sent("PARTIAL_CLOSE", u)
      BY <1>2, <1>8, <2>1
    <3> QED
      BY <3>1 DEF Partials
  <2> QED
    BY <2>2, <2>4, <2>5, <2>6
<1>13. ASSUME Orderly'
       PROVE  (\A q \in Pollers : PollRight(q)') /\ \A u \in Tickets : TicketRight(u)'
  <2>1. Orderly /\ ~overlap /\ ~overlap'
    BY <1>13 DEF Orderly
  <2>2. PollRight(p) /\ TicketRight(t) /\ TicketKnown(t)
    BY <1>2, <2>1
  <2>3. /\ at[p].link = link /\ link # NoAccount /\ at[p].started = started
        /\ \A u \in Tickets :
             /\ live[p][u].volume > 0 => Holder[u] = link
             /\ trade[u].status = "CLOSED" => live[p][u].volume = 0
             /\ IsOpen(trade[u]) /\ live[p][u].volume = 0 => broker[u].volume = 0
             /\ u \in old /\ trade[u].status = "none" => live[p][u].volume = 0
    BY <2>2 DEF PollRight, Reading
  <2>4. ASSUME NEW u \in Tickets
        PROVE  /\ live[p][u].volume > 0 => Holder[u] = link
               /\ trade'[u].status = "CLOSED" => live[p][u].volume = 0
               /\ IsOpen(trade'[u]) /\ live[p][u].volume = 0 => broker[u].volume = 0
               /\ u \in old /\ trade'[u].status = "none" => live[p][u].volume = 0
    <3>1. CASE u # t
      BY <1>2, <2>3, <3>1
    <3>2. CASE u = t
      <4>1. /\ trade'[t].status = "none" => trade[t].status = "none"
            /\ trade'[t].status = "CLOSED" => trade[t].status = "CLOSED" \/ c.id.kind = "CLOSE"
            /\ IsOpen(trade'[t]) => IsOpen(trade[t]) \/ c.id.kind = "OPEN"
            /\ c.id.kind = "OPEN" => live[p][t].volume > 0
            /\ c.id.kind = "CLOSE" => live[p][t].volume = 0
        BY <1>10, <2>1
      <4>2. live[p][t].volume > 0 => live[p][t].volume # 0
        OBVIOUS
      <4> QED
        BY <1>2, <2>3, <3>2, <4>1, <4>2
    <3> QED
      BY <3>1, <3>2
  <2>5. PollRight(p)'
    <3>1. CASE pc'[p] = "idle"
      BY <3>1 DEF PollRight, Reading
    <3>2. CASE pc'[p] = "publish" /\ at'[p] = at[p] /\ live'[p] = live[p]
      BY <2>3, <2>4, <3>2 DEF PollRight, Reading
    <3> QED
      BY <1>4, <3>1, <3>2 DEF GoneOn
  <2>6. ASSUME NEW q \in Pollers \ {p}
        PROVE  PollRight(q)'
    <3>1. pc'[q] = "idle"
      BY <1>12, <2>1
    <3> QED
      BY <3>1 DEF PollRight, Reading
  <2>7. TicketRight(t)'
    <3>1. /\ IsOpen(trade[t]) => link \in {Holder[t], NoAccount}
          /\ trade[t].status = "CLOSED" \/ Sent("CLOSE", t) # {} => broker[t].volume = 0
          /\ \A i, j \in Sent("OPEN", t) : i = j
          /\ t \in old => /\ Sent("OPEN", t) = {}
                          /\ link = Holder[t] /\ started /\ trade[t].status = "none" => broker[t].volume = 0
          /\ Sent("OPEN", t) # {} => trade[t].status # "none"
      BY <2>2 DEF TicketRight, TicketKnown
    <3>2. /\ live[p][t].volume > 0 => Holder[t] = link
          /\ trade[t].status = "CLOSED" => live[p][t].volume = 0
          /\ IsOpen(trade[t]) /\ live[p][t].volume = 0 => broker[t].volume = 0
          /\ t \in old /\ trade[t].status = "none" => live[p][t].volume = 0
          /\ live[p][t].volume > 0 => live[p][t].volume # 0
      BY <1>2, <2>3
    <3>3. trade[t].status \in {"none", "OPEN", "PARTIALLY_CLOSED", "CLOSED"}
      BY <1>2 DEF StoreType, TradeType
    <3>4. c.id.kind = "OPEN" => trade[t].status = "none" /\ t \notin old /\ Holder[t] = link
      BY <1>10, <2>1, <3>2, <3>3 DEF IsOpen
    <3>5. c.id.kind = "CLOSE" => broker[t].volume = 0
      BY <1>10, <2>1, <3>2
    <3>6. IsOpen(trade'[t]) => link \in {Holder[t], NoAccount}
      BY <1>10, <2>1, <3>1, <3>4
    <3>7. trade'[t].status = "CLOSED" => broker[t].volume = 0
      BY <1>10, <2>1, <3>1, <3>5
    <3>8. \A kind : \A i \in Sent(kind, t)' : i \in Sent(kind, t) \/ (i = c.id /\ c.id.kind = kind)
      BY <1>11 DEF Sent
    <3>9. Sent("CLOSE", t)' # {} => broker[t].volume = 0
      BY <3>1, <3>5, <3>8
    <3>10. \A i, j \in Sent("OPEN", t)' : i = j
      BY <3>1, <3>4, <3>8
    <3>11. t \in old => Sent("OPEN", t)' = {}
      BY <3>1, <3>4, <3>8
    <3>12. t \in old /\ link = Holder[t] /\ started /\ trade'[t].status = "none" => broker[t].volume = 0
      BY <1>10, <2>1, <3>1
    <3> QED
      BY <3>6, <3>7, <3>9, <3>10, <3>11, <3>12 DEF TicketRight
  <2>8. ASSUME NEW u \in Tickets \ {t}
        PROVE  TicketRight(u)'
    <3>1. TicketRight(u) /\ trade'[u] = trade[u]
      BY <1>2, <2>1
    <3>2. Sent("OPEN", u)' = Sent("OPEN", u) /\ Sent("CLOSE", u)' = Sent("CLOSE", u)
      BY <1>8
    <3> QED
      BY <3>1, <3>2 DEF TicketRight
  <2> QED
    BY <2>5, <2>6, <2>7, <2>8
<1> QED
  BY <1>6, <1>7, <1>9, <1>12, <1>13 DEF WatchInvariant

LEMMA StoreEventKeeps == ASSUME WatchInvariant, NEW p \in Pollers, StoreEvent(p) PROVE WatchInvariant'
<1> USE Parts
<1>1. /\ UNCHANGED <<link, started, active, broker, nonces, old, overlap, raced, moved, changes, disturbances>>
      /\ pc[p] = "store"
  BY DEF StoreEvent, strategy, bounds
<1>2. PICK t \in chosen[p] :
        LET c == ChangeOf(p, t)
            queued == c.id \notin events /\ at[p].active
        IN /\ trade' = [trade EXCEPT ![t] = Upserted(@, c)]
           /\ events' = events \cup {c.id}
           /\ sent' = IF queued THEN sent \cup {c.id} ELSE sent
           /\ told' = IF queued /\ c.id.kind \in {"OPEN", "MODIFY"}
                      THEN [told EXCEPT ![t] = c.stops] ELSE told
           /\ excused' = IF ~queued \/ (c.id.kind = "PARTIAL_CLOSE" /\ c.stops # known[p][t].stops)
                         THEN excused \cup {t} ELSE excused
           /\ Continue(p, t)
  BY DEF StoreEvent
<1>3. Stored(p, t) /\ Continue(p, t)
  BY <1>2 DEF Stored
<1>4. PICK c : c = ChangeOf(p, t)
  OBVIOUS
<1>5. t \in Tickets /\ c.stops \in Stops
  BY <1>1, <1>3, <1>4, Stores
<1>6. told' = told \/ told' = [told EXCEPT ![t] = c.stops]
  BY <1>2, <1>4
<1>7. told' \in [Tickets -> Stops]
  BY <1>5, <1>6 DEF StoreType
<1>8. excused' = excused \/ excused' = excused \cup {t}
  BY <1>2
<1>9. RestType'
  BY <1>1, <1>5, <1>8 DEF RestType
<1> QED
  BY <1>1, <1>3, <1>7, <1>9, StoredKeeps

LEMMA PublishFailsKeeps == ASSUME WatchInvariant, NEW p \in Pollers, PublishFails(p) PROVE WatchInvariant'
<1> USE Parts
<1>1. /\ UNCHANGED <<link, started, active, broker, nonces, sent, told, old, overlap, raced, moved, changes>>
      /\ pc[p] = "store" /\ disturbances' = disturbances + 1
  BY DEF PublishFails, strategy
<1>2. PICK t \in chosen[p] :
        LET c == ChangeOf(p, t)
        IN /\ \/ UNCHANGED <<trade, events>>
              \/ trade' = [trade EXCEPT ![t] = Upserted(@, c)] /\ UNCHANGED events
              \/ /\ at[p].active
                 /\ trade' = [trade EXCEPT ![t] = Upserted(@, c)]
                 /\ events' = events \cup {c.id}
           /\ excused' = excused \cup {t}
           /\ Continue(p, t)
  BY DEF PublishFails
<1>3. Stored(p, t) /\ Continue(p, t)
  BY <1>1, <1>2 DEF Stored
<1>4. t \in Tickets
  BY <1>1, <1>3, Stores
<1>5. RestType' /\ told' \in [Tickets -> Stops]
  BY <1>1, <1>2, <1>4 DEF RestType, StoreType
<1> QED
  BY <1>1, <1>3, <1>5, StoredKeeps

-----------------------------------------------------------------------------
(* The invariant holds, and with it what a poll is trusted for.            *)

LEMMA WatchBegins == Init => WatchInvariant
<1> SUFFICES ASSUME Init PROVE WatchInvariant
  OBVIOUS
<1>1. /\ 0 \in Stops /\ MaxLots \in Nat \ {0} /\ NoAccount \notin Accounts
      /\ NoStrategy \in StrategyType /\ NoPosition \in Position /\ NoTrade \in TradeType
      /\ NoPosition.volume = 0 /\ NoTrade.status = "none"
  BY WatchAssumption DEF NoStrategy, StrategyType, NoPosition, Position, NoTrade, TradeType, Lots
<1>2. {Unopened, [volume |-> MaxLots, stops |-> 0]} \subseteq Position
  BY <1>1 DEF Unopened, Position
<1>3. PollType
  BY <1>1 DEF Init, PollType, PC
<1>4. StoreType /\ RestType
  BY <1>1, <1>2 DEF Init, StoreType, RestType
<1>5. TypeOK
  BY <1>3, <1>4, TypeParts
<1>6. \A p \in Pollers : PollKnown(p)
  BY <1>1 DEF Init, PollKnown, Publishing
<1>7. \A k, t : Sent(k, t) = {}
  BY DEF Init, Sent
<1>8. \A t \in Tickets : TicketKnown(t)
  BY <1>1, <1>2, <1>7 DEF Init, TicketKnown, Live, Unopened
<1>9. OnePoll /\ \A t \in Tickets : Partials(t)
  BY <1>1, <1>7 DEF Init, OnePoll, Partials, Publishing, IsOpen
<1>10. (\A p \in Pollers : PollRight(p)) /\ \A t \in Tickets : TicketRight(t)
  BY <1>1, <1>7 DEF Init, PollRight, TicketRight, Reading, IsOpen
<1> QED
  BY <1>5, <1>6, <1>8, <1>9, <1>10 DEF WatchInvariant

LEMMA WatchGoesOn == WatchInvariant /\ [Next]_vars => WatchInvariant'
<1> SUFFICES ASSUME WatchInvariant, [Next]_vars PROVE WatchInvariant'
  OBVIOUS
<1>1. CASE \E t \in Tickets : MasterTrades(t)
  BY <1>1, MasterTradesKeeps
<1>2. CASE \E a \in Accounts \cup {NoAccount} : SetStrategyMasterAccount(a)
  BY <1>2, SetMasterKeeps
<1>3. CASE SetStrategyStatus
  BY <1>3, SetStatusKeeps
<1>4. CASE \E id \in nonces : NonceExpires(id)
  BY <1>4, NonceExpiresKeeps
<1>5. ASSUME NEW p \in Pollers, PollStep(p) \/ PublishFails(p) \/ PollFails(p)
      PROVE  WatchInvariant'
  <2>1. CASE ListStrategies(p)
    BY <2>1, ListKeeps
  <2>2. CASE LoadStrategy(p)
    BY <2>2, LoadKeeps
  <2>3. CASE ReadPositions(p)
    BY <2>3, ReadPositionsKeeps
  <2>4. CASE RecordBaseline(p)
    BY <2>4, RecordBaselineKeeps
  <2>5. CASE MarkStarted(p)
    BY <2>5, MarkStartedKeeps
  <2>6. CASE ReadKnown(p)
    BY <2>6, ReadKnownKeeps
  <2>7. CASE ClaimNonce(p)
    BY <2>7, ClaimNonceKeeps
  <2>8. CASE StoreEvent(p)
    BY <2>8, StoreEventKeeps
  <2>9. CASE PublishFails(p)
    BY <2>9, PublishFailsKeeps
  <2>10. CASE PollFails(p)
    BY <2>10, PollFailsKeeps
  <2> QED
    BY <1>5, <2>1, <2>2, <2>3, <2>4, <2>5, <2>6, <2>7, <2>8, <2>9, <2>10 DEF PollStep
<1>6. CASE UNCHANGED vars
  <2>1. UNCHANGED <<link, started, active, broker, trade, nonces, events, sent, told, poll, old, excused, overlap, raced,
                    moved, changes, disturbances>>
    BY <1>6 DEF vars, strategy, store, history, bounds
  <2>2. RestType' /\ StoreType'
    BY <2>1, SameRest
  <2> QED
    BY <2>1, <2>2, ElsewhereKeeps
<1> QED
  BY <1>1, <1>2, <1>3, <1>4, <1>5, <1>6 DEF Next

\* However many polls overlap and however often the link, the status and the nonces
\* change (pollMasterAccount, eventIdFor): in an orderly history the open of a position is
\* published once, and while polls do not overlap no lot is closed twice.
THEOREM ChangesSeenOnce == Spec => []SeenOnce
<1>1. WatchInvariant => SeenOnce
  BY WatchKept
<1> QED
  BY WatchBegins, WatchGoesOn, <1>1, PTL DEF Spec

\* In an orderly history no position older than its link is copied, and no close is
\* published of a position still open (recordBaseline, pollMasterAccount).
THEOREM ToldWhatHappened == Spec => []OnlyWhatHappened
<1>1. WatchInvariant => OnlyWhatHappened
  BY WatchKept
<1> QED
  BY WatchBegins, WatchGoesOn, <1>1, PTL DEF Spec

-----------------------------------------------------------------------------
(* LotRules: the calculator.                                               *)

\* A volume as the calculator has it: a number of hundredths over a positive number.
IsVolume(x) == x = <<x[1], x[2]>> /\ x[1] \in Nat /\ x[2] \in Nat /\ x[2] > 0

LEMMA WholeIsVolume ==
  ASSUME NEW n \in Nat
  PROVE  IsVolume(Whole(n))
BY DEF IsVolume, Whole

LEMMA LesserIsVolume ==
  ASSUME NEW x, NEW y, IsVolume(x), IsVolume(y)
  PROVE  IsVolume(Lesser(x, y)) /\ IsVolume(Greater(x, y))
BY DEF Lesser, Greater

\* What the mode computes is a volume.
LEMMA RawIsVolume ==
  ASSUME NEW s, IsSizing(s), Missing(s) = "nothing"
  PROVE  IsVolume(Raw(s))
<1>1. CASE s.mode = "FIXED"
  BY <1>1, WholeIsVolume DEF Raw, IsSizing, Positive
<1>2. CASE s.mode = "MULTIPLIER"
  <2>1. Raw(s) = <<s.volume * s.multiplier, 100>>
    BY <1>2 DEF Raw
  <2>2. s.volume * s.multiplier \in Nat
    BY DEF IsSizing, Positive
  <2> QED
    BY <2>1, <2>2 DEF IsVolume
<1>3. CASE s.mode = "BALANCE_RATIO"
  <2>1. Raw(s) = <<s.volume * s.memberBalance * s.balanceRatio, 100 * s.masterBalance>>
    BY <1>3 DEF Raw
  <2>2. s.masterBalance \in Nat /\ s.masterBalance # 0
    BY <1>3 DEF Missing, IsSizing, Positive
  <2>3. s.volume * s.memberBalance \in Nat
    BY DEF IsSizing, Positive
  <2>4. s.volume * s.memberBalance * s.balanceRatio \in Nat
    BY <2>3 DEF IsSizing, Positive
  <2>5. 100 * s.masterBalance \in Nat /\ 100 * s.masterBalance > 0
    BY <2>2
  <2> QED
    BY <2>1, <2>4, <2>5 DEF IsVolume
<1>4. CASE s.mode = "RISK_PERCENT"
  <2>1. Raw(s) = <<s.memberEquity * s.riskPercent, 100 * s.lossPerLot>>
    BY <1>4 DEF Raw
  <2>2. s.lossPerLot \in Nat /\ s.lossPerLot # 0
    BY <1>4 DEF Missing, IsSizing, Positive
  <2>3. s.memberEquity * s.riskPercent \in Nat
    BY DEF IsSizing, Positive
  <2>4. 100 * s.lossPerLot \in Nat /\ 100 * s.lossPerLot > 0
    BY <2>2
  <2> QED
    BY <2>1, <2>3, <2>4 DEF IsVolume
<1> QED
  BY <1>1, <1>2, <1>3, <1>4 DEF IsSizing, Positive, Modes

LEMMA BoundedIsVolume ==
  ASSUME NEW s, IsSizing(s), Missing(s) = "nothing"
  PROVE  IsVolume(Bounded(s))
<1>1. IsVolume(Whole(s.minLot)) /\ IsVolume(Whole(s.maxLot)) /\ IsVolume(Whole(s.brokerMaxLot))
  BY WholeIsVolume DEF IsSizing, Positive
<1>2. IsVolume(Raw(s))
  BY RawIsVolume
<1> QED
  BY <1>1, <1>2, LesserIsVolume DEF Bounded

\* Down to the step: a multiple of it, and no more than there was.
LEMMA RoundedDown ==
  ASSUME NEW x, IsVolume(x), NEW step \in Nat \ {0}
  PROVE  /\ RoundToStep(x, step) \in Nat
         /\ RoundToStep(x, step) % step = 0
         /\ RoundToStep(x, step) * x[2] <= x[1]
<1> DEFINE d == x[2] * step
           q == x[1] \div d
<1>1. d \in Nat /\ d > 0
  BY DEF IsVolume
<1>2. q \in Nat /\ q * d <= x[1]
  <2> HIDE DEF d
  <2> QED
    BY <1>1 DEF IsVolume
<1> HIDE DEF q
<1>3. RoundToStep(x, step) = q * step
  BY DEF RoundToStep, q
<1>4. q * step \in Nat /\ (q * step) % step = 0
  BY <1>2
<1>5. (q * step) * x[2] = q * d
  BY <1>2 DEF IsVolume
<1> QED
  BY <1>2, <1>3, <1>4, <1>5

\* The size is a whole number of hundredths.
LEMMA SizeIsNat ==
  ASSUME NEW s, IsSizing(s)
  PROVE  CalculateLot(s).volume \in Nat
<1>1. CASE Missing(s) # "nothing" \/ Raw(s)[1] = 0
  BY <1>1 DEF CalculateLot, Refuse
<1>2. CASE Missing(s) = "nothing" /\ Raw(s)[1] # 0
  <2>1. RoundToStep(Bounded(s), s.step) \in Nat
    BY <1>2, BoundedIsVolume, RoundedDown DEF IsSizing, Positive
  <2>2. s.brokerMinLot \in Nat
    BY DEF IsSizing, Positive
  <2> QED
    BY <1>2, <2>1, <2>2 DEF CalculateLot, Refuse, Accept
<1> QED
  BY <1>1, <1>2

\* The bounds put on a volume: the broker's and the member's maximum are whole, and the
\* smaller of the two is not exceeded.
LEMMA BoundedBelowMaximum ==
  ASSUME NEW s, IsSizing(s), Missing(s) = "nothing"
  PROVE  LET b == Bounded(s) IN b[1] <= s.maxLot * b[2] /\ b[1] <= s.brokerMaxLot * b[2]
<1> DEFINE c == Lesser(Whole(s.maxLot), Whole(s.brokerMaxLot))
           g == Greater(Raw(s), Whole(s.minLot))
           b == Bounded(s)
<1>1. s.maxLot \in Nat /\ s.brokerMaxLot \in Nat /\ s.minLot \in Nat
  BY DEF IsSizing, Positive
<1>2. PICK k \in Nat : c = <<k, 1>> /\ k <= s.maxLot /\ k <= s.brokerMaxLot
  BY <1>1 DEF Lesser, Leq, Whole
<1>3. IsVolume(g) /\ IsVolume(b)
  BY <1>1, RawIsVolume, WholeIsVolume, LesserIsVolume, BoundedIsVolume
<1>4. b = Lesser(g, c)
  BY DEF Bounded
<1> HIDE DEF b, c, g
<1>5. b[1] <= k * b[2]
  BY <1>2, <1>3, <1>4 DEF Lesser, Leq, IsVolume
<1>6. b[1] \in Nat /\ b[2] \in Nat
  BY <1>3 DEF IsVolume
<1>7. k * b[2] <= s.maxLot * b[2] /\ k * b[2] <= s.brokerMaxLot * b[2]
  BY <1>1, <1>2, <1>6
<1>8. b[1] <= s.maxLot * b[2] /\ b[1] <= s.brokerMaxLot * b[2]
  <2> DEFINE m == s.maxLot * b[2]
             n == s.brokerMaxLot * b[2]
             h == k * b[2]
  <2>1. m \in Int /\ n \in Int /\ h \in Int
    BY <1>1, <1>6
  <2>2. b[1] <= h /\ h <= m /\ h <= n
    BY <1>5, <1>7
  <2> HIDE DEF m, n, h
  <2>3. b[1] <= m /\ b[1] <= n
    BY <1>6, <2>1, <2>2
  <2> QED
    BY <2>3 DEF m, n
<1> QED
  BY <1>8 DEF b

\* What is not above a multiple of a positive number, is not above it times anything larger.
LEMMA Cancel ==
  ASSUME NEW a \in Nat, NEW b \in Nat, NEW d \in Nat \ {0}, a * d <= b * d
  PROVE  a <= b
<1>1. CASE a <= b
  BY <1>1
<1>2. CASE a >= b + 1
  <2>1. a * d >= (b + 1) * d
    BY <1>2
  <2>2. (b + 1) * d = b * d + d
    OBVIOUS
  <2> QED
    BY <2>1, <2>2
<1> QED
  BY <1>1, <1>2

\* A size that was not raised to the broker's minimum.
Unraised(s) ==
  /\ CalculateLot(s).volume = RoundToStep(Bounded(s), s.step)
  /\ CalculateLot(s).volume >= s.brokerMinLot
  /\ Leq(Whole(s.brokerMinLot), Bounded(s))

LEMMA OkIsOneOfTwo ==
  ASSUME NEW s, IsSizing(s), CalculateLot(s).ok
  PROVE  /\ Missing(s) = "nothing" /\ Raw(s)[1] # 0
         /\ Unraised(s) \/ (s.rounding /\ CalculateLot(s).volume = s.brokerMinLot)
BY DEF CalculateLot, Unraised, Refuse, Accept

\* SizeIsTradable of any sizing.
LEMMA TradableSize ==
  ASSUME NEW s, IsSizing(s), CalculateLot(s).ok
  PROVE  LET v == CalculateLot(s).volume
         IN  /\ s.brokerMinLot <= v
             /\ v % s.step = 0 \/ v = s.brokerMinLot
             /\ v <= s.brokerMaxLot \/ s.brokerMaxLot < s.brokerMinLot
             /\ v <= s.maxLot \/ s.rounding
<1> DEFINE v == CalculateLot(s).volume
           b == Bounded(s)
<1>1. s.maxLot \in Nat /\ s.brokerMaxLot \in Nat /\ s.brokerMinLot \in Nat /\ s.step \in Nat \ {0}
  BY DEF IsSizing, Positive
<1>2. Missing(s) = "nothing" /\ (Unraised(s) \/ (s.rounding /\ v = s.brokerMinLot))
  BY OkIsOneOfTwo
<1>3. CASE s.rounding /\ v = s.brokerMinLot
  BY <1>1, <1>3
<1>4. CASE Unraised(s)
  <2>1. IsVolume(b)
    BY <1>2, BoundedIsVolume
  <2>2. v = RoundToStep(b, s.step) /\ v >= s.brokerMinLot
    BY <1>4 DEF Unraised
  <2>3. v \in Nat /\ v % s.step = 0 /\ v * b[2] <= b[1]
    BY <1>1, <2>1, <2>2, RoundedDown
  <2>4. b[1] <= s.maxLot * b[2] /\ b[1] <= s.brokerMaxLot * b[2]
    BY <1>2, BoundedBelowMaximum
  <2>5. b[1] \in Nat /\ b[2] \in Nat \ {0}
    BY <2>1 DEF IsVolume
  <2> HIDE DEF v, b
  <2>6. v * b[2] \in Int /\ s.maxLot * b[2] \in Int /\ s.brokerMaxLot * b[2] \in Int
    BY <1>1, <2>3, <2>5
  <2>7. v * b[2] <= s.maxLot * b[2] /\ v * b[2] <= s.brokerMaxLot * b[2]
    BY <2>3, <2>4, <2>5, <2>6
  <2>8. v <= s.maxLot /\ v <= s.brokerMaxLot
    BY <1>1, <2>3, <2>5, <2>7, Cancel
  <2> QED
    BY <2>2, <2>3, <2>8 DEF v
<1> QED
  BY <1>2, <1>3, <1>4

\* NeverSizedUp of any sizing.
LEMMA SizedDown ==
  ASSUME NEW s, IsSizing(s), CalculateLot(s).ok
  PROVE  LET v == CalculateLot(s).volume
         IN  v * Raw(s)[2] <= Raw(s)[1] \/ v <= s.minLot \/ s.rounding
<1> DEFINE v == CalculateLot(s).volume
           b == Bounded(s)
           r == Raw(s)
           c == Lesser(Whole(s.maxLot), Whole(s.brokerMaxLot))
<1>1. s.maxLot \in Nat /\ s.brokerMaxLot \in Nat /\ s.minLot \in Nat /\ s.step \in Nat \ {0}
  BY DEF IsSizing, Positive
<1>2. Missing(s) = "nothing" /\ (Unraised(s) \/ s.rounding)
  BY OkIsOneOfTwo
<1>3. ASSUME Unraised(s)
      PROVE  v * r[2] <= r[1] \/ v <= s.minLot
  <2>1. IsVolume(b) /\ IsVolume(r)
    BY <1>2, BoundedIsVolume, RawIsVolume
  <2>2. v = RoundToStep(b, s.step)
    BY <1>3 DEF Unraised
  <2>3. v \in Nat /\ v * b[2] <= b[1]
    BY <1>1, <2>1, <2>2, RoundedDown
  <2>4. PICK k \in Nat : c = <<k, 1>>
    BY <1>1 DEF Lesser, Whole
  <2>5. b = Lesser(Greater(r, <<s.minLot, 1>>), <<k, 1>>)
    BY <2>4 DEF Bounded, Whole
  <2> HIDE DEF v, b, r, c
  <2>6. r[1] \in Nat /\ r[2] \in Nat
    BY <2>1 DEF IsVolume
  <2>7. CASE b = r
    BY <2>3, <2>7
  <2>8. CASE b = <<s.minLot, 1>>
    BY <1>1, <2>3, <2>8
  <2>9. CASE b = <<k, 1>> /\ ~Leq(Greater(r, <<s.minLot, 1>>), <<k, 1>>)
    <3>1. v <= k
      BY <2>3, <2>4, <2>9
    <3>2. CASE Leq(r, <<s.minLot, 1>>)
      <4>1. ~(s.minLot * 1 <= k * 1)
        BY <2>9, <3>2 DEF Greater, Leq
      <4> QED
        BY <1>1, <2>3, <3>1, <4>1
    <3>3. CASE ~Leq(r, <<s.minLot, 1>>)
      <4>1. ~(r[1] * 1 <= k * r[2])
        BY <2>9, <3>3 DEF Greater, Leq
      <4>2. v * r[2] <= k * r[2]
        BY <2>3, <2>6, <3>1
      <4>3. v * r[2] \in Int /\ k * r[2] \in Int
        BY <2>3, <2>6
      <4> QED
        BY <2>6, <4>1, <4>2, <4>3
    <3> QED
      BY <3>2, <3>3
  <2> QED
    BY <2>5, <2>7, <2>8, <2>9 DEF Lesser, Greater
<1> QED
  BY <1>2, <1>3

-----------------------------------------------------------------------------
(* A larger trade of the master's is sized no smaller.                     *)

\* The order of volumes is transitive and total.
LEMMA LeqIsTransitive ==
  ASSUME NEW x, NEW y, NEW z, IsVolume(x), IsVolume(y), IsVolume(z), Leq(x, y), Leq(y, z)
  PROVE  Leq(x, z)
<1> DEFINE a == x[1]  b == x[2]  c == y[1]  d == y[2]  e == z[1]  f == z[2]
<1>1. a \in Nat /\ b \in Nat /\ c \in Nat /\ d \in Nat \ {0} /\ e \in Nat /\ f \in Nat
  BY DEF IsVolume
<1>2. a * d <= c * b /\ c * f <= e * d
  BY DEF Leq
<1> HIDE DEF a, b, c, d, e, f
<1>3. (a * d) * f <= (c * b) * f
  BY <1>1, <1>2
<1>4. (c * f) * b <= (e * d) * b
  BY <1>1, <1>2
<1>5. (a * d) * f = (a * f) * d /\ (c * b) * f = (c * f) * b /\ (e * d) * b = (e * b) * d
  BY <1>1
<1>6. a * f \in Nat /\ e * b \in Nat
  BY <1>1
<1>7. (a * f) * d <= (e * b) * d
  <2> DEFINE i == (a * f) * d  j == (c * f) * b  k == (e * b) * d
  <2>1. i \in Int /\ j \in Int /\ k \in Int
    BY <1>1
  <2>2. i <= j /\ j <= k
    BY <1>3, <1>4, <1>5
  <2> HIDE DEF i, j, k
  <2>3. i <= k
    BY <2>1, <2>2
  <2> QED
    BY <2>3 DEF i, k
<1>8. a * f <= e * b
  BY <1>1, <1>6, <1>7, Cancel
<1> QED
  BY <1>8 DEF Leq, a, b, e, f

LEMMA LeqIsTotal ==
  ASSUME NEW x, NEW y, IsVolume(x), IsVolume(y)
  PROVE  Leq(x, y) \/ Leq(y, x)
<1>1. x[1] * y[2] \in Int /\ y[1] * x[2] \in Int
  BY DEF IsVolume
<1> QED
  BY <1>1 DEF Leq

\* Bounds keep the order.
LEMMA BoundsAreMonotone ==
  ASSUME NEW x, NEW y, NEW z, IsVolume(x), IsVolume(y), IsVolume(z), Leq(x, y)
  PROVE  Leq(Lesser(x, z), Lesser(y, z)) /\ Leq(Greater(x, z), Greater(y, z))
<1>1. Leq(x, z) \/ Leq(z, x)
  BY LeqIsTotal
<1>2. Leq(y, z) \/ Leq(z, y)
  BY LeqIsTotal
<1>3. Leq(z, z)
  BY LeqIsTotal
<1>4. Leq(y, z) => Leq(x, z)
  BY LeqIsTransitive
<1>5. Leq(z, x) => Leq(z, y)
  BY LeqIsTransitive
<1> QED
  BY <1>1, <1>2, <1>3, <1>4, <1>5 DEF Lesser, Greater

\* And so does rounding down.
LEMMA RoundingIsMonotone ==
  ASSUME NEW x, NEW y, IsVolume(x), IsVolume(y), Leq(x, y), NEW step \in Nat \ {0}
  PROVE  RoundToStep(x, step) <= RoundToStep(y, step)
<1> DEFINE a == x[1]  b == x[2]  c == y[1]  d == y[2]
           m == b * step  n == d * step
           p == a \div m  q == c \div n
<1>1. a \in Nat /\ b \in Nat \ {0} /\ c \in Nat /\ d \in Nat \ {0} /\ a * d <= c * b
  BY DEF IsVolume, Leq
<1> HIDE DEF a, b, c, d
<1>2. m \in Nat \ {0} /\ n \in Nat \ {0}
  BY <1>1
<1> HIDE DEF m, n
<1>3. p \in Nat /\ q \in Nat /\ p * m <= a /\ c < (q + 1) * n
  BY <1>1, <1>2
<1> HIDE DEF p, q
<1>4. p <= q
  <2> SUFFICES ASSUME p >= q + 1
               PROVE  FALSE
    BY <1>3
  <2>1. (q + 1) * n <= p * n
    BY <1>2, <1>3
  <2>2. c < p * n
    <3>1. (q + 1) * n \in Int /\ p * n \in Int
      BY <1>2, <1>3
    <3> QED
      BY <1>1, <1>3, <2>1, <3>1
  <2>3. c * b < (p * n) * b
    <3>1. p * n \in Nat
      BY <1>2, <1>3
    <3> HIDE DEF n
    <3> QED
      BY <1>1, <2>2, <3>1
  <2>4. (p * m) * d <= a * d
    <3>1. p * m \in Nat
      BY <1>2, <1>3
    <3> QED
      BY <1>1, <1>3, <3>1
  <2>5. (p * n) * b = (p * m) * d
    BY <1>1, <1>3 DEF m, n
  <2>6. (p * m) * d \in Int /\ a * d \in Int /\ c * b \in Int
    BY <1>1, <1>2, <1>3
  <2> QED
    BY <1>1, <2>3, <2>4, <2>5, <2>6
<1>5. RoundToStep(x, step) = p * step /\ RoundToStep(y, step) = q * step
  BY DEF RoundToStep, a, b, c, d, m, n, p, q
<1>6. p * step <= q * step
  BY <1>3, <1>4
<1> QED
  BY <1>5, <1>6

\* The same sizing for a trade of volume v: only the volume differs.
LEMMA SmallerTrade ==
  ASSUME NEW s, IsSizing(s), NEW v \in 1..s.volume, NEW t, t = [s EXCEPT !.volume = v]
  PROVE  /\ IsSizing(t) /\ Missing(t) = Missing(s) /\ t.volume = v /\ t.mode = s.mode
         /\ t.fixedLot = s.fixedLot /\ t.multiplier = s.multiplier /\ t.balanceRatio = s.balanceRatio
         /\ t.riskPercent = s.riskPercent /\ t.memberBalance = s.memberBalance /\ t.memberEquity = s.memberEquity
         /\ t.masterBalance = s.masterBalance /\ t.lossPerLot = s.lossPerLot
         /\ t.minLot = s.minLot /\ t.maxLot = s.maxLot /\ t.brokerMinLot = s.brokerMinLot
         /\ t.brokerMaxLot = s.brokerMaxLot /\ t.step = s.step /\ t.rounding = s.rounding
<1>1. v \in Nat \ {0} /\ s.volume \in Nat
  BY DEF IsSizing, Positive
<1>2. /\ t.volume = v /\ t.mode = s.mode
      /\ t.fixedLot = s.fixedLot /\ t.multiplier = s.multiplier /\ t.balanceRatio = s.balanceRatio
      /\ t.riskPercent = s.riskPercent /\ t.memberBalance = s.memberBalance /\ t.memberEquity = s.memberEquity
      /\ t.masterBalance = s.masterBalance /\ t.lossPerLot = s.lossPerLot
      /\ t.minLot = s.minLot /\ t.maxLot = s.maxLot /\ t.brokerMinLot = s.brokerMinLot
      /\ t.brokerMaxLot = s.brokerMaxLot /\ t.step = s.step /\ t.rounding = s.rounding
  BY DEF IsSizing
<1>3. IsSizing(t)
  BY <1>1, <1>2 DEF IsSizing, Positive
<1> QED
  BY <1>2, <1>3 DEF Missing

\* What the mode computes of a larger trade is no smaller.
LEMMA RawIsMonotone ==
  ASSUME NEW s, IsSizing(s), Missing(s) = "nothing", NEW v \in 1..s.volume, NEW t, t = [s EXCEPT !.volume = v]
  PROVE  Leq(Raw(t), Raw(s))
<1>1. /\ t.volume = v /\ t.mode = s.mode /\ v <= s.volume
      /\ t.fixedLot = s.fixedLot /\ t.multiplier = s.multiplier /\ t.balanceRatio = s.balanceRatio
      /\ t.riskPercent = s.riskPercent /\ t.memberBalance = s.memberBalance /\ t.memberEquity = s.memberEquity
      /\ t.masterBalance = s.masterBalance /\ t.lossPerLot = s.lossPerLot
  BY SmallerTrade
<1>2. /\ s.volume \in Nat /\ v \in Nat /\ s.multiplier \in Nat /\ s.memberBalance \in Nat /\ s.balanceRatio \in Nat
      /\ s.masterBalance \in Nat /\ s.memberEquity \in Nat /\ s.riskPercent \in Nat /\ s.lossPerLot \in Nat
      /\ s.fixedLot \in Nat
  BY DEF IsSizing, Positive
<1>r. IsVolume(Raw(s)) /\ Leq(Raw(s), Raw(s))
  BY RawIsVolume, LeqIsTotal
<1>3. CASE s.mode = "FIXED"
  <2>1. Raw(t) = Whole(s.fixedLot) /\ Raw(s) = Whole(s.fixedLot)
    BY <1>1, <1>3 DEF Raw
  <2> QED
    BY <1>r, <2>1
<1>4. CASE s.mode = "RISK_PERCENT"
  <2>1. Raw(t) = <<s.memberEquity * s.riskPercent, 100 * s.lossPerLot>>
        /\ Raw(s) = <<s.memberEquity * s.riskPercent, 100 * s.lossPerLot>>
    BY <1>1, <1>4 DEF Raw
  <2> QED
    BY <1>r, <2>1
<1>5. CASE s.mode = "MULTIPLIER"
  <2>1. Raw(t) = <<v * s.multiplier, 100>> /\ Raw(s) = <<s.volume * s.multiplier, 100>>
    BY <1>1, <1>5 DEF Raw
  <2>2. v * s.multiplier <= s.volume * s.multiplier
    BY <1>1, <1>2
  <2>3. v * s.multiplier \in Nat /\ s.volume * s.multiplier \in Nat
    BY <1>2
  <2> QED
    BY <2>1, <2>2, <2>3 DEF Leq
<1>6. CASE s.mode = "BALANCE_RATIO"
  <2> DEFINE i == v * s.memberBalance * s.balanceRatio
             j == s.volume * s.memberBalance * s.balanceRatio
             d == 100 * s.masterBalance
  <2>1. Raw(t) = <<i, d>> /\ Raw(s) = <<j, d>>
    BY <1>1, <1>6 DEF Raw
  <2>2. v * s.memberBalance \in Nat /\ s.volume * s.memberBalance \in Nat
        /\ v * s.memberBalance <= s.volume * s.memberBalance
    BY <1>1, <1>2
  <2>3. i \in Nat /\ j \in Nat /\ i <= j /\ d \in Nat
    BY <1>2, <2>2
  <2> HIDE DEF i, j, d
  <2>4. i * d <= j * d
    BY <2>3
  <2> QED
    BY <2>1, <2>4 DEF Leq
<1> QED
  BY <1>3, <1>4, <1>5, <1>6 DEF IsSizing, Modes

\* SizeIsMonotone of any sizing.
LEMMA MonotoneSize ==
  ASSUME NEW s, IsSizing(s), NEW v \in 1..s.volume, NEW t, t = [s EXCEPT !.volume = v], CalculateLot(t).ok
  PROVE  CalculateLot(s).ok /\ CalculateLot(t).volume <= CalculateLot(s).volume
<1>1. /\ IsSizing(t) /\ Missing(t) = Missing(s)
      /\ t.minLot = s.minLot /\ t.maxLot = s.maxLot /\ t.brokerMinLot = s.brokerMinLot
      /\ t.brokerMaxLot = s.brokerMaxLot /\ t.step = s.step /\ t.rounding = s.rounding
  BY SmallerTrade
<1>2. /\ Missing(t) = "nothing" /\ Raw(t)[1] # 0
      /\ Unraised(t) \/ (t.rounding /\ CalculateLot(t).volume = t.brokerMinLot)
  BY <1>1, OkIsOneOfTwo
<1>3. /\ s.minLot \in Nat /\ s.maxLot \in Nat /\ s.brokerMinLot \in Nat /\ s.brokerMaxLot \in Nat
      /\ s.step \in Nat \ {0}
  BY DEF IsSizing, Positive
<1>4. Missing(s) = "nothing" /\ IsVolume(Raw(s)) /\ IsVolume(Raw(t)) /\ Leq(Raw(t), Raw(s))
  BY <1>1, <1>2, RawIsVolume, RawIsMonotone
<1>5. Raw(s)[1] # 0
  <2> DEFINE a == Raw(t)[1]  b == Raw(t)[2]  c == Raw(s)[1]  d == Raw(s)[2]
  <2>1. a \in Nat \ {0} /\ b \in Nat /\ c \in Nat /\ d \in Nat \ {0} /\ a * d <= c * b
    BY <1>2, <1>4 DEF IsVolume, Leq
  <2> HIDE DEF a, b, c, d
  <2>2. a * d > 0
    BY <2>1
  <2>3. c # 0
    BY <2>1, <2>2
  <2> QED
    BY <2>3 DEF c
<1>6. IsVolume(Bounded(s)) /\ IsVolume(Bounded(t)) /\ Leq(Bounded(t), Bounded(s))
  <2> DEFINE low == Whole(s.minLot)
             c == Lesser(Whole(s.maxLot), Whole(s.brokerMaxLot))
  <2>1. IsVolume(low) /\ IsVolume(c)
    BY <1>3, WholeIsVolume, LesserIsVolume
  <2>2. Bounded(s) = Lesser(Greater(Raw(s), low), c) /\ Bounded(t) = Lesser(Greater(Raw(t), low), c)
    BY <1>1 DEF Bounded
  <2> HIDE DEF low, c
  <2>3. IsVolume(Greater(Raw(s), low)) /\ IsVolume(Greater(Raw(t), low))
    BY <1>4, <2>1, LesserIsVolume
  <2>4. Leq(Greater(Raw(t), low), Greater(Raw(s), low))
    BY <1>4, <2>1, BoundsAreMonotone
  <2>5. Leq(Bounded(t), Bounded(s))
    BY <2>1, <2>2, <2>3, <2>4, BoundsAreMonotone
  <2> QED
    BY <2>1, <2>2, <2>3, <2>5, LesserIsVolume
<1> DEFINE m == RoundToStep(Bounded(t), s.step)
           n == RoundToStep(Bounded(s), s.step)
<1>7. m \in Nat /\ n \in Nat /\ m <= n
  BY <1>3, <1>6, RoundedDown, RoundingIsMonotone
<1> HIDE DEF m, n
<1>8. CASE Unraised(t)
  <2>1. CalculateLot(t).volume = m /\ m >= s.brokerMinLot /\ Leq(Whole(s.brokerMinLot), Bounded(t))
    BY <1>1, <1>8 DEF Unraised, m
  <2>2. Leq(Whole(s.brokerMinLot), Bounded(s))
    BY <1>3, <1>6, <2>1, WholeIsVolume, LeqIsTransitive
  <2>3. n >= s.brokerMinLot
    BY <1>3, <1>7, <2>1
  <2>4. CalculateLot(s) = Accept(n)
    BY <1>4, <1>5, <2>2, <2>3 DEF CalculateLot, n
  <2> QED
    BY <1>7, <2>1, <2>4 DEF Accept
<1>9. CASE s.rounding /\ CalculateLot(t).volume = s.brokerMinLot
  <2>1. CalculateLot(s) = Accept(s.brokerMinLot) \/ (CalculateLot(s) = Accept(n) /\ n >= s.brokerMinLot)
    BY <1>4, <1>5, <1>9 DEF CalculateLot, n
  <2> QED
    BY <1>3, <1>7, <1>9, <2>1 DEF Accept
<1> QED
  BY <1>1, <1>2, <1>8, <1>9

-----------------------------------------------------------------------------
(* Partial closes.                                                         *)

\* A partial close takes at least a hundredth, no more than there is, and the master's
\* share to within a hundredth.
LEMMA CloseVolumeIsShare ==
  ASSUME NEW m \in Nat \ {0}, NEW o \in Nat, NEW c \in Nat \ {0}, c < o,
         NEW u \in ToHundredths(<<m * c, o>>), NEW v, v = AtLeastOne(u)
  PROVE  v \in Nat /\ 1 <= v /\ v <= m /\ v * o <= m * c + o /\ m * c <= v * o + o
<1> DEFINE x == m * c
           d == x \div o
<1>1. x \in Nat /\ o \in Nat \ {0} /\ x < m * o /\ m * o \in Nat
  OBVIOUS
<1>2. u \in {d, d + 1}
  BY DEF ToHundredths
<1> HIDE DEF x
<1>3. d \in Nat /\ d * o <= x /\ x < (d + 1) * o
  BY <1>1
<1> HIDE DEF d
<1>4. (d + 1) * o = d * o + o /\ d * o \in Nat
  BY <1>1, <1>3
<1>5. d + 1 <= m
  <2> SUFFICES ASSUME m <= d
               PROVE  FALSE
    BY <1>3
  <2>1. m * o <= d * o
    BY <1>1, <1>3
  <2> QED
    BY <1>1, <1>3, <1>4, <2>1
<1>6. CASE u = 0
  <2>1. v = 1 /\ d = 0
    BY <1>2, <1>3, <1>6 DEF AtLeastOne
  <2>2. x < o
    BY <1>1, <1>3, <2>1
  <2> QED
    BY <1>1, <2>1, <2>2 DEF x
<1>7. CASE u # 0
  <2>1. v = u /\ u \in Nat /\ 1 <= u
    BY <1>2, <1>3, <1>7 DEF AtLeastOne
  <2>2. u * o = d * o \/ u * o = d * o + o
    BY <1>2, <1>4
  <2>3. u * o <= x + o /\ x <= u * o + o
    BY <1>1, <1>3, <1>4, <2>2
  <2> QED
    BY <1>2, <1>3, <1>5, <2>1, <2>3 DEF x
<1> QED
  BY <1>6, <1>7

\* Cancel, among integers.
LEMMA CancelInt ==
  ASSUME NEW a \in Int, NEW b \in Int, NEW d \in Nat \ {0}, a * d <= b * d
  PROVE  a <= b
<1> SUFFICES ASSUME a >= b + 1
             PROVE  FALSE
  OBVIOUS
<1>1. a * d >= (b + 1) * d
  OBVIOUS
<1>2. (b + 1) * d = b * d + d /\ b * d \in Int
  OBVIOUS
<1> QED
  BY <1>1, <1>2

\* What a partial close leaves is off the master's share by a hundredth more at most: l
\* and s were opened, m and o are held, v and c are closed, k closes went before.
LEMMA DriftGrowsByOne ==
  ASSUME NEW m \in Nat, NEW o \in Nat \ {0}, NEW l \in Nat, NEW s \in Nat, NEW v \in Nat, NEW c \in Nat, NEW k \in Nat,
         c < o, v * o <= m * c + o, m * c <= v * o + o,
         -(k * s) <= m * s - l * o, m * s - l * o <= k * s
  PROVE  /\ -((k + 1) * s) <= (m - v) * s - l * (o - c)
         /\ (m - v) * s - l * (o - c) <= (k + 1) * s
<1> DEFINE D == m * s - l * o
           E == (m - v) * s - l * (o - c)
           f == m * c - v * o
           r == o - c
<1>1. D \in Int /\ E \in Int /\ f \in Int /\ r \in Nat /\ r <= o /\ k * s \in Nat /\ -o <= f /\ f <= o
      /\ -(k * s) <= D /\ D <= k * s
  OBVIOUS
<1>2. E * o = f * s + D * r
  <2>1. D * r = m * s * o - m * s * c - l * o * o + l * o * c
    OBVIOUS
  <2>2. f * s = m * c * s - v * o * s
    OBVIOUS
  <2>3. E * o = m * s * o - v * s * o - l * o * o + l * c * o
    OBVIOUS
  <2>4. m * s * c = m * c * s /\ v * o * s = v * s * o /\ l * o * c = l * c * o
    OBVIOUS
  <2> QED
    BY <2>1, <2>2, <2>3, <2>4
<1> DEFINE t == k * s
<1> HIDE DEF D, E, f, r, t
<1>3. f * s <= o * s /\ -(o * s) <= f * s
  BY <1>1
<1>4. D * r <= t * r /\ -(t * r) <= D * r /\ t * r <= t * o
  <2>1. t \in Nat /\ -t <= D /\ D <= t
    BY <1>1 DEF t
  <2> QED
    BY <1>1, <2>1
<1>5. (t + s) * o = t * o + o * s /\ t \in Nat
  BY <1>1 DEF t
<1>6. E * o <= (t + s) * o /\ (-(t + s)) * o <= E * o
  <2>1. f * s \in Int /\ D * r \in Int /\ t * r \in Int /\ t * o \in Int /\ o * s \in Int /\ E * o \in Int
    BY <1>1, <1>5
  <2>2. (-(t + s)) * o = -((t + s) * o)
    BY <1>5
  <2> QED
    BY <1>2, <1>3, <1>4, <1>5, <2>1, <2>2
<1>7. E <= t + s /\ -(t + s) <= E
  BY <1>1, <1>5, <1>6, CancelInt
<1>8. (k + 1) * s = t + s
  BY DEF t
<1> QED
  BY <1>7, <1>8 DEF E

-----------------------------------------------------------------------------
(* The life of a copied position.                                          *)

\* Before it is opened nothing is held; what is held was admitted, in the symbol that was
\* resolved, and is what the mapping says.
Admitted ==
  /\ LotType
  /\ symbol # "none" => symbol \in MemberSymbols(case.order)
  /\ phase = "new" => closes = 0 /\ master = case.sizing.volume
  /\ phase # "open" => position = 0
  /\ phase = "open" => /\ symbol # "none" /\ Lot.ok /\ Decision.allowed
                       /\ mapping.volume = position /\ master > 0
                       /\ closes = 0 => position = Lot.volume

LEMMA CaseIsSizing ==
  ASSUME LotType
  PROVE  IsSizing(case.sizing) /\ IsOrder(case.order) /\ IsRisk(case.risk) /\ Lot.volume \in Nat
BY CasesAssumption, SizeIsNat DEF LotType, Lot

LEMMA SymbolsAreKnown ==
  ASSUME NEW o, IsOrder(o)
  PROVE  MemberSymbols(o) \subseteq Symbols
BY DEF IsOrder, MemberSymbols, OrElse, Enabled, Symbols

LEMMA AdmittedInit == LotInit => Admitted
<1> SUFFICES ASSUME LotInit
             PROVE  Admitted
  OBVIOUS
<1>1. IsSizing(case.sizing)
  BY CasesAssumption DEF LotInit
<1>2. case.sizing.volume \in Nat
  BY <1>1 DEF IsSizing, Positive
<1>3. MaxCloses \in Nat
  BY CasesAssumption
<1>4. paused \in BOOLEAN /\ refused \in BOOLEAN
  BY Zenon DEF LotInit
<1>5. mapping \in MappingType
  BY DEF LotInit, MappingType
<1>6. closes \in 0..MaxCloses
  BY <1>3 DEF LotInit
<1>7. LotType
  BY <1>2, <1>4, <1>5, <1>6 DEF LotInit, LotType
<1> QED
  BY <1>7 DEF LotInit, Admitted

\* What a partial close that is executed does to volume and mapping.
LEMMA PartialCloseStep ==
  ASSUME Admitted, NEW closed \in CloseSizes, PartialClose(closed), position' # position \/ mapping' # mapping
  PROVE  \E v \in Nat :
           /\ 1 <= v /\ v <= position /\ v * master <= position * closed + master
           /\ position * closed <= v * master + master
           /\ position' = position - v
           /\ mapping' = [status |-> "PARTIALLY_CLOSED", volume |-> position - v]
<1>1. closed \in Nat \ {0} /\ master \in Nat /\ position \in Nat /\ closed < master /\ mapping.volume = position
  BY CasesAssumption DEF Admitted, LotType, PartialClose
<1>2. position > 0 /\ \E v \in CloseVolumes(closed, master) :
        /\ position' = IF v < position THEN position - v ELSE 0
        /\ mapping' = [status |-> "PARTIALLY_CLOSED", volume |-> mapping.volume - v]
  BY DEF PartialClose
<1>3. PICK v \in CloseVolumes(closed, master) :
        /\ position' = IF v < position THEN position - v ELSE 0
        /\ mapping' = [status |-> "PARTIALLY_CLOSED", volume |-> mapping.volume - v]
  BY <1>2
<1>4. PICK u \in ToHundredths(<<position * closed, master>>) : v = AtLeastOne(u)
  BY <1>1, <1>3 DEF CloseVolumes
<1>5. v \in Nat /\ 1 <= v /\ v <= position /\ v * master <= position * closed + master
      /\ position * closed <= v * master + master
  BY <1>1, <1>2, <1>4, CloseVolumeIsShare
<1>6. position' = position - v
  BY <1>1, <1>3, <1>5
<1> QED
  BY <1>1, <1>3, <1>5, <1>6

LEMMA AdmittedNext ==
  ASSUME Admitted, [LotNext]_lotVars
  PROVE  Admitted'
<1> USE DEF LotType, MappingType
<1>a. Lot.volume \in Nat /\ case.sizing.volume \in Nat \ {0} /\ MemberSymbols(case.order) \subseteq Symbols
  BY CaseIsSizing, SymbolsAreKnown DEF Admitted, IsSizing, Positive
<1>1. CASE ResolveSymbol
  <2>1. UNCHANGED <<case, phase, paused, master, position, mapping, closes, refused>>
        /\ phase = "new" /\ symbol' \in MemberSymbols(case.order) /\ symbol' \in Symbols
    BY <1>1, <1>a DEF ResolveSymbol
  <2> QED
    BY <2>1 DEF Admitted
<1>2. CASE SkipTrade
  <2>1. UNCHANGED <<case, symbol, master, position, mapping, closes, refused>>
        /\ phase = "new" /\ phase' = "skipped" /\ paused' \in BOOLEAN
    BY <1>2 DEF SkipTrade
  <2> QED
    BY <2>1 DEF Admitted
<1>3. CASE OpenTrade
  <2>1. UNCHANGED <<case, symbol, paused, master, closes, refused>> /\ phase = "new" /\ symbol # "none"
        /\ Lot.ok /\ Decision.allowed
    BY <1>3 DEF OpenTrade
  <2>2. Lot' = Lot /\ Decision' = Decision
    BY <2>1 DEF Lot, Decision
  <2>3. CASE phase' = "open" /\ position' = Lot.volume /\ mapping' = [status |-> "OPEN", volume |-> Lot.volume]
    BY <1>a, <2>1, <2>2, <2>3 DEF Admitted
  <2>4. CASE phase' = "rejected" /\ UNCHANGED <<position, mapping>>
    BY <2>1, <2>4 DEF Admitted
  <2> QED
    BY <1>3, <2>3, <2>4 DEF OpenTrade
<1>4. ASSUME NEW closed \in CloseSizes, PartialClose(closed)
      PROVE  Admitted'
  <2>1. UNCHANGED <<case, phase, symbol, paused>> /\ phase = "open" /\ closes < MaxCloses /\ closes' = closes + 1
        /\ master' = master - closed /\ closed < master /\ refused' \in BOOLEAN
    BY <1>4 DEF PartialClose, Admitted
  <2>2. Lot' = Lot /\ Decision' = Decision
    BY <2>1 DEF Lot, Decision
  <2>3. closed \in Nat \ {0} /\ MaxCloses \in Nat
    BY CasesAssumption
  <2>4. master' \in Nat /\ master' > 0 /\ closes' \in 0..MaxCloses /\ closes' # 0
    BY <2>1, <2>3 DEF Admitted
  <2>5. position' \in Nat /\ mapping' \in MappingType /\ mapping'.volume = position'
    <3>1. CASE UNCHANGED <<position, mapping>>
      BY <2>1, <3>1 DEF Admitted
    <3>2. CASE position' # position \/ mapping' # mapping
      <4>1. PICK v \in Nat : v <= position /\ position' = position - v
                              /\ mapping' = [status |-> "PARTIALLY_CLOSED", volume |-> position - v]
        BY <1>4, <3>2, PartialCloseStep
      <4>2. position \in Nat
        BY DEF Admitted
      <4> QED
        BY <4>1, <4>2
    <3> QED
      BY <3>1, <3>2
  <2> QED
    BY <2>1, <2>2, <2>4, <2>5 DEF Admitted
<1>5. CASE Close
  <2>1. UNCHANGED <<case, symbol, paused, closes, refused>> /\ phase' = "closed" /\ master' = 0 /\ position' = 0
        /\ mapping' \in MappingType
    BY <1>5 DEF Close, Admitted
  <2> QED
    BY <2>1 DEF Admitted
<1>6. CASE UNCHANGED lotVars
  <2>1. Lot' = Lot /\ Decision' = Decision
    BY <1>6 DEF lotVars, Lot, Decision
  <2> QED
    BY <1>6, <2>1 DEF lotVars, Admitted
<1> QED
  BY <1>1, <1>2, <1>3, <1>4, <1>5, <1>6 DEF LotNext

LEMMA AlwaysAdmitted == LotSpec => []Admitted
BY AdmittedInit, AdmittedNext, PTL DEF LotSpec

-----------------------------------------------------------------------------

\* Whatever the modes, bounds and steps: a size calculateLot returns can be ordered, exceeds
\* nothing the member allowed, and follows the master's.
THEOREM SizesAreTradable == LotSpec => []OrdersAreTradable
<1>1. ASSUME Admitted
      PROVE  OrdersAreTradable
  <2> DEFINE s == case.sizing
  <2>1. IsSizing(s) /\ Lot = CalculateLot(s) /\ LotType
    BY <1>1, CaseIsSizing DEF Admitted, Lot
  <2>2. SizeIsTradable
    BY <2>1, TradableSize DEF SizeIsTradable
  <2>3. NeverSizedUp
    <3> SUFFICES ASSUME Lot.ok
                 PROVE  Leq(Whole(Lot.volume), Raw(s)) \/ Lot.volume <= s.minLot \/ s.rounding
      BY DEF NeverSizedUp
    <3>1. Lot.volume * Raw(s)[2] <= Raw(s)[1] \/ Lot.volume <= s.minLot \/ s.rounding
      BY <2>1, SizedDown
    <3>2. IsVolume(Raw(s))
      BY <2>1, OkIsOneOfTwo, RawIsVolume
    <3>3. Raw(s)[1] * 1 = Raw(s)[1]
      BY <3>2 DEF IsVolume
    <3> QED
      BY <3>1, <3>3 DEF Leq, Whole
  <2>4. SizeIsMonotone
    BY <2>1, MonotoneSize DEF SizeIsMonotone
  <2> QED
    BY <2>1, <2>2, <2>3, <2>4 DEF OrdersAreTradable
<1> QED
  BY <1>1, AlwaysAdmitted, PTL

\* Whatever the limits: openForMember opens only what they and the member's choices admit
\* (evaluateRisk, resolveMemberSymbol).
THEOREM OpenedIsAllowed == LotSpec => []OpenedAsAllowed
<1>1. ASSUME Admitted
      PROVE  OpenedAsAllowed
  <2> DEFINE r == case.risk
             o == case.order
  <2>1. IsOrder(o) /\ IsRisk(r) /\ Lot.volume \in Nat /\ position \in Nat
    BY <1>1, CaseIsSizing DEF Admitted, LotType
  <2>2. ASSUME position > 0
        PROVE  /\ phase = "open" /\ symbol \in MemberSymbols(o)
               /\ ~RefusedTrade(o, r, symbol, Lot.volume) /\ ~AccountBreach(r)
               /\ closes = 0 => position = Lot.volume
    BY <1>1, <2>1, <2>2 DEF Admitted, Decision, EvaluateRisk
  <2>3. OpenedWithinLimits
    <3> SUFFICES ASSUME position > 0, closes = 0
                 PROVE  /\ r.maxTotalLot = 0 \/ r.openVolume + position <= r.maxTotalLot
                        /\ r.maxDailyLoss = 0 \/ r.equity > r.dailyStartEquity - r.maxDailyLoss
                        /\ r.maxDrawdownPct = 0 \/ r.equity * 100 > r.peakEquity * (100 - r.maxDrawdownPct) \/ r.peakEquity = 0
      BY DEF OpenedWithinLimits
    <3>1. /\ r.openVolume \in Nat /\ r.maxTotalLot \in Nat /\ r.maxDailyLoss \in Nat /\ r.equity \in Nat
          /\ r.dailyStartEquity \in Nat /\ r.maxDrawdownPct \in Nat /\ r.peakEquity \in Nat
      BY <2>1 DEF IsRisk
    <3>2. r.maxTotalLot = 0 \/ r.openVolume + position <= r.maxTotalLot
      BY <2>1, <2>2, <3>1 DEF RefusedTrade
    <3>3. r.maxDailyLoss = 0 \/ r.equity > r.dailyStartEquity - r.maxDailyLoss
      BY <2>2, <3>1 DEF AccountBreach
    <3>4. r.maxDrawdownPct = 0 \/ r.equity * 100 > r.peakEquity * (100 - r.maxDrawdownPct) \/ r.peakEquity = 0
      <4> SUFFICES ASSUME r.maxDrawdownPct > 0, r.peakEquity > 0
                   PROVE  r.equity * 100 > r.peakEquity * (100 - r.maxDrawdownPct)
        BY <3>1
      <4> DEFINE p == r.maxDrawdownPct * r.peakEquity
      <4>1. ~((r.peakEquity - r.equity) * 100 >= p)
        BY <2>2 DEF AccountBreach
      <4>2. r.peakEquity * (100 - r.maxDrawdownPct) = 100 * r.peakEquity - p /\ p \in Nat
        BY <3>1
      <4> HIDE DEF p
      <4> QED
        BY <3>1, <4>1, <4>2
    <3> QED
      BY <3>2, <3>3, <3>4
  <2>4. OpenedAsWanted
    <3> DEFINE own == {m \in o.mappings : m.enabled /\ m.scope = "account"}
    <3> SUFFICES ASSUME position > 0
                 PROVE  /\ o.direction = "BUY" => o.copyBuy
                        /\ o.direction = "SELL" => o.copySell
                        /\ o.isPending => o.copyPendingOrders
                        /\ o.allowedSymbols = {} \/ symbol \in o.allowedSymbols
                        /\ own # {} => \E m \in own : m.symbol = symbol
                        /\ symbol # "XAUUSD" => \E m \in o.mappings : m.enabled /\ m.symbol = symbol
      BY DEF OpenedAsWanted
    <3>1. ~Unwanted(o, symbol)
      BY <2>2 DEF RefusedTrade
    <3>2. /\ o.direction = "BUY" => o.copyBuy
          /\ o.direction = "SELL" => o.copySell
          /\ o.isPending => o.copyPendingOrders
          /\ o.allowedSymbols = {} \/ symbol \in o.allowedSymbols
      BY <3>1 DEF Unwanted
    <3>3. own # {} => \E m \in own : m.symbol = symbol
      BY <2>2 DEF MemberSymbols, OrElse, Enabled
    <3>4. symbol # "XAUUSD" => \E m \in o.mappings : m.enabled /\ m.symbol = symbol
      BY <2>2 DEF MemberSymbols, OrElse, Enabled
    <3> QED
      BY <3>2, <3>3, <3>4
  <2> QED
    BY <2>3, <2>4 DEF OpenedAsAllowed
<1> QED
  BY <1>1, AlwaysAdmitted, PTL

\* ShareIsKept by one step: the drift grows by a hundredth of a lot at most.
LEMMA ShareStep ==
  ASSUME Admitted, ShareIsKept, [LotNext]_lotVars
  PROVE  ShareIsKept'
<1> DEFINE s == case.sizing.volume
           l == Lot.volume
<1>1. s \in Nat \ {0} /\ l \in Nat
  BY CaseIsSizing DEF Admitted, IsSizing, Positive
<1> SUFFICES ASSUME phase' = "open", ~refused'
             PROVE  LET drift == mapping'.volume * s' - l' * master'
                    IN -(closes' * s') <= drift /\ drift <= closes' * s'
  BY DEF ShareIsKept
<1>2. CASE OpenTrade
  <2>1. s' = s /\ l' = l /\ master' = s /\ closes' = 0 /\ mapping'.volume = l
    BY <1>2 DEF OpenTrade, Admitted, Lot
  <2> HIDE DEF s, l
  <2> QED
    BY <1>1, <2>1
<1>3. ASSUME NEW closed \in CloseSizes, PartialClose(closed)
      PROVE  LET drift == mapping'.volume * s' - l' * master'
             IN -(closes' * s') <= drift /\ drift <= closes' * s'
  <2>1. s' = s /\ l' = l /\ master' = master - closed /\ closes' = closes + 1 /\ phase = "open" /\ closed < master
        /\ position > 0 /\ ~refused
    BY <1>3 DEF PartialClose, Lot
  <2>2. closed \in Nat \ {0} /\ master \in Nat \ {0} /\ position \in Nat /\ closes \in Nat
    BY <2>1, CasesAssumption DEF Admitted, LotType
  <2>3. -(closes * s) <= position * s - l * master /\ position * s - l * master <= closes * s
    BY <2>1 DEF Admitted, ShareIsKept
  <2>4. position' # position \/ mapping' # mapping
    <3>1. PICK v \in CloseVolumes(closed, master) : mapping' = [status |-> "PARTIALLY_CLOSED", volume |-> mapping.volume - v]
      BY <1>3 DEF PartialClose
    <3>2. PICK u \in ToHundredths(<<position * closed, master>>) : v = AtLeastOne(u)
      BY <2>1, <3>1 DEF CloseVolumes, Admitted
    <3>3. position \in Nat \ {0} /\ master \in Nat /\ closed \in Nat \ {0} /\ closed < master
      BY <2>1, <2>2
    <3>4. v \in Nat /\ 1 <= v
      BY <3>2, <3>3, CloseVolumeIsShare
    <3>5. mapping'.volume # mapping.volume
      BY <2>1, <2>2, <3>1, <3>4 DEF Admitted
    <3> QED
      BY <3>5
  <2>5. PICK v \in Nat : /\ v <= position /\ v * master <= position * closed + master
                         /\ position * closed <= v * master + master
                         /\ mapping' = [status |-> "PARTIALLY_CLOSED", volume |-> position - v]
    BY <1>3, <2>4, PartialCloseStep
  <2> HIDE DEF s, l
  <2>6. /\ -((closes + 1) * s) <= (position - v) * s - l * (master - closed)
        /\ (position - v) * s - l * (master - closed) <= (closes + 1) * s
    BY <1>1, <2>1, <2>2, <2>3, <2>5, DriftGrowsByOne
  <2>7. mapping'.volume = position - v
    BY <2>5
  <2> QED
    BY <2>1, <2>6, <2>7
<1>4. CASE UNCHANGED lotVars
  BY <1>4 DEF lotVars, ShareIsKept, Lot
<1> QED
  BY <1>2, <1>3, <1>4 DEF LotNext, ResolveSymbol, SkipTrade, Close, Admitted

\* Whatever volumes the master closes: after the partial closes a broker accepted
\* (adjustForMember) the member holds the master's share to within a hundredth of a lot for
\* each, and the mapping says what is held.
THEOREM PartialsAlwaysKeepShare == LotSpec => []PartialsKeepShare
<1>1. LotInit => ShareIsKept
  BY DEF LotInit, ShareIsKept
<1>2. Admitted => MappingIsTheVolume
  BY DEF Admitted, MappingIsTheVolume
<1>3. LotSpec => []ShareIsKept
  BY <1>1, AlwaysAdmitted, ShareStep, PTL DEF LotSpec
<1> QED
  BY <1>2, <1>3, AlwaysAdmitted, PTL DEF PartialsKeepShare
=============================================================================
