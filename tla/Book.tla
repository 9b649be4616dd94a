-------------------------------- MODULE Book --------------------------------
(***************************************************************************)
(* One trading account's positions and deals as its broker keeps them, the *)
(* copies the platform recorded of them, and the history page that joins   *)
(* the two.  Copied orders come one after another here (CopyEngine has     *)
(* their faults): what is open is what the broker does by itself, how late *)
(* it reports its deals, and which window a member asks for.               *)
(***************************************************************************)
EXTENDS Integers, Sequences, FiniteSets, FiniteSetsExt, Functions

CONSTANTS
  Copies,      \* position mappings of the account
  Venues,      \* brokers: the provider, the platform, whether positions are netted
  OrderVolume, \* volume of an order, in steps of which one is closed at a time
  Gains,       \* what closing a step of volume may earn
  Commission,  \* what opening a position costs where deals are kept
  MaxTickets,  \* bound: positions
  MaxDeals     \* bound: deals

ASSUME BookAssumption ==
  /\ Venues \subseteq [provider : {"mock", "metaapi"}, platform : {"MT4", "MT5"}, netting : BOOLEAN]
  /\ \A v \in Venues : v.netting => v.provider = "mock" /\ v.platform = "MT5"
  /\ OrderVolume \in Nat \ {0} /\ Gains \subseteq Int /\ Commission \in Nat
  /\ {MaxTickets, MaxDeals} \subseteq Nat

VARIABLES
  venue,
  position, \* open positions: ticket -> orderType and volume (0 once closed)
  deal,     \* the account's deals, oldest first: place in the sequence is the time
  reported, \* how many of them the broker's history holds yet
  copy,     \* position mappings
  early     \* history: copies whose result was read between two of its closing deals

bvars == <<venue, position, deal, reported, copy, early>>

Tickets == 1..MaxTickets
Sides == {"BUY", "SELL"}
Opposite(side) == IF side = "BUY" THEN "SELL" ELSE "BUY"
Issued == Len(position)
Now == Len(deal)

PositionType == [side : Sides, volume : Nat]
DealType ==
  [ticket : Tickets, entry : {"IN", "OUT"}, side : Sides, volume : Nat, money : Int]
CopyType ==
  [status : {"none", "OPEN", "PARTIALLY_CLOSED", "CLOSED"}, ticket : 0..MaxTickets, ticketHistory : SUBSET Tickets,
   side : Sides, known : BOOLEAN, profit : Int, closedAt : 0..MaxDeals]
NoCopy ==
  [status |-> "none", ticket |-> 0, ticketHistory |-> {}, side |-> "BUY", known |-> FALSE, profit |-> 0, closedAt |-> 0]

BookType ==
  /\ venue \in Venues
  /\ position \in Seq(PositionType) /\ Issued <= MaxTickets
  /\ deal \in Seq(DealType) /\ Now <= MaxDeals /\ reported \in 0..Now
  /\ copy \in [Copies -> CopyType]
  /\ early \subseteq Copies

BookInit ==
  /\ venue \in Venues
  /\ position = <<>> /\ deal = <<>> /\ reported = 0
  /\ copy = [m \in Copies |-> NoCopy]
  /\ early = {}

-----------------------------------------------------------------------------
(* The broker.                                                             *)

\* A simulated broker knows its deals at once, a real one in its own time.
Deals(new) ==
  /\ deal' = deal \o new
  /\ reported' = IF venue.provider = "mock" THEN Len(deal') ELSE reported

\* openPosition: on a netting account the order joins the position of its symbol that is
\* found first, if that is of its side.  Ticket and positions afterwards.
OpenPosition(side) ==
  LET open == {t \in 1..Issued : position[t].volume > 0}
      joins == venue.netting /\ open # {} /\ position[Min(open)].side = side
  IN [ticket |-> IF joins THEN Min(open) ELSE Issued + 1,
      position |-> IF joins THEN [position EXCEPT ![Min(open)].volume = @ + OrderVolume]
                   ELSE Append(position, [side |-> side, volume |-> OrderVolume])]
InDeal(t, side) ==
  [ticket |-> t, entry |-> "IN", side |-> side, volume |-> OrderVolume,
   money |-> IF venue.provider = "mock" THEN 0 ELSE -Commission]

\* closePosition: what is left keeps its ticket on MT5 and has a new one on MT4.
Remainder(t, volume) == venue.platform = "MT4" /\ volume < position[t].volume
ClosePosition(t, volume) ==
  IF Remainder(t, volume)
  THEN Append([position EXCEPT ![t].volume = 0],
              [side |-> position[t].side, volume |-> position[t].volume - volume])
  ELSE [position EXCEPT ![t].volume = IF volume >= @ THEN 0 ELSE @ - volume]
OutDeal(t, volume, gain) ==
  [ticket |-> t, entry |-> "OUT", side |-> Opposite(position[t].side), volume |-> volume, money |-> gain * volume]

Room(positions, deals) == Issued + positions <= MaxTickets /\ Now + deals <= MaxDeals

Exits(t, n) == {i \in 1..n : deal[i].ticket = t /\ deal[i].entry = "OUT"}
OfTicket(t, n) == {i \in 1..n : deal[i].ticket = t}
Money(S) == SumFunctionOnSet([i \in S |-> deal[i].money], S)
Volume(S) == SumFunctionOnSet([i \in S |-> deal[i].volume], S)

\* Mutant: commission is left out of what a position earned.
GrossClosedPosition(t) ==
  LET exits == Exits(t, reported)
  IN IF exits = {} THEN [found |-> FALSE, profit |-> 0, at |-> Now]
     ELSE [found |-> TRUE, profit |-> Money(IF venue.provider = "mock" THEN {Max(exits)} ELSE exits), at |-> Max(exits)]

\* getClosedPosition: the simulation remembers the last close of a ticket, MetaApi adds up
\* the deals reported so far, commission and swap included.
GetClosedPosition(t) ==
  LET exits == Exits(t, reported)
  IN IF exits = {} THEN [found |-> FALSE, profit |-> 0, at |-> Now]
     ELSE [found |-> TRUE, at |-> Max(exits),
           profit |-> Money(IF venue.provider = "mock" THEN {Max(exits)} ELSE OfTicket(t, reported))]

-----------------------------------------------------------------------------
(* What happens to the account.                                            *)

\* A copied order is filled, and its mapping stored.
OpenCopy(m, side) ==
  /\ copy[m].status = "none" /\ Room(1, 1)
  /\ LET opened == OpenPosition(side)
     IN /\ position' = opened.position
        /\ Deals(<<InDeal(opened.ticket, side)>>)
        /\ copy' = [copy EXCEPT ![m] = [NoCopy EXCEPT !.status = "OPEN", !.ticket = opened.ticket, !.side = side]]
  /\ UNCHANGED <<venue, early>>

Live(m) == copy[m].status \in {"OPEN", "PARTIALLY_CLOSED"}

\* The result is read while the broker holds only some of the closing deals.
ReadEarly(t) == Exits(t, reported) \notin {{}, Exits(t, Now)}

Closed(c, result) ==
  [c EXCEPT !.status = "CLOSED", !.known = result.found, !.profit = result.profit, !.closedAt = result.at]

Reduced(c) ==
  [c EXCEPT !.status = "PARTIALLY_CLOSED",
            !.ticket = IF Remainder(c.ticket, 1) THEN Issued + 1 ELSE c.ticket,
            !.ticketHistory = IF Remainder(c.ticket, 1) THEN c.ticketHistory \cup {c.ticket} ELSE c.ticketHistory]

\* PARTIAL_CLOSE of the master: the mapping follows the remainder.
PartlyCloseCopy(m, gain) ==
  /\ Live(m) /\ position[copy[m].ticket].volume > 0 /\ Room(1, 1)
  /\ LET t == copy[m].ticket
     IN /\ position' = ClosePosition(t, 1)
        /\ Deals(<<OutDeal(t, 1, gain)>>)
        /\ copy' = [copy EXCEPT ![m] = Reduced(@)]
  /\ UNCHANGED <<venue, early>>

\* CLOSE of the master: the order is sent, and then the result is asked for.
CloseCopy(m, gain) ==
  /\ Live(m) /\ position[copy[m].ticket].volume > 0 /\ Room(0, 1)
  /\ UNCHANGED venue
  /\ \E t \in {copy[m].ticket} :
       /\ position' = ClosePosition(t, position[t].volume)
       /\ Deals(<<OutDeal(t, position[t].volume, gain)>>)
       /\ copy' = [copy EXCEPT ![m] = Closed(@, GetClosedPosition(t)')]
       /\ early' = early \cup (IF ReadEarly(t)' THEN {m} ELSE {})

\* At a real broker the member trades too, and stops and targets close positions.
OwnOpen(side) ==
  /\ venue.provider = "metaapi" /\ Room(1, 1)
  /\ position' = Append(position, [side |-> side, volume |-> OrderVolume])
  /\ Deals(<<InDeal(Issued + 1, side)>>)
  /\ UNCHANGED <<venue, copy, early>>
CloseOutside(t, gain) ==
  /\ venue.provider = "metaapi" /\ position[t].volume > 0 /\ Room(0, 1)
  /\ position' = ClosePosition(t, position[t].volume)
  /\ Deals(<<OutDeal(t, position[t].volume, gain)>>)
  /\ UNCHANGED <<venue, copy, early>>
Report ==
  /\ reported < Now /\ reported' = reported + 1
  /\ UNCHANGED <<venue, position, deal, copy, early>>

Vanished == {m \in Copies : Live(m) /\ position[copy[m].ticket].volume = 0}
Unknown == {m \in Copies : copy[m].status = "CLOSED" /\ ~copy[m].known}

\* reconcileAccount: copies the broker no longer holds are closed, and results not known
\* yet asked for once more.
Sweep ==
  /\ Vanished \cup {m \in Unknown : GetClosedPosition(copy[m].ticket).found} # {}
  /\ copy' = [m \in Copies |->
       LET result == GetClosedPosition(copy[m].ticket)
       IN CASE m \in Vanished -> Closed(copy[m], result)
            [] m \in Unknown /\ result.found -> [copy[m] EXCEPT !.known = TRUE, !.profit = result.profit]
            [] OTHER -> copy[m]]
  /\ early' = early \cup {m \in Vanished \cup Unknown : ReadEarly(copy[m].ticket)}
  /\ UNCHANGED <<venue, position, deal, reported>>

BookNext ==
  \/ \E m \in Copies, side \in Sides : OpenCopy(m, side)
  \/ \E m \in Copies, gain \in Gains : PartlyCloseCopy(m, gain) \/ CloseCopy(m, gain)
  \/ \E side \in Sides : OwnOpen(side)
  \/ \E t \in 1..Issued, gain \in Gains : CloseOutside(t, gain)
  \/ Report \/ Sweep

-----------------------------------------------------------------------------
(* The history page, for the deals since "from".                           *)

\* directionOf: a position is opened by a deal of its side and closed by one against it.
DirectionOf(entry, exit) == IF entry # {} THEN deal[Min(entry)].side ELSE Opposite(deal[exit].side)

\* getTradeHistory of MetaApi: the deals reported in the window, grouped into trades.
GroupedTrades(from) ==
  {LET window == {i \in OfTicket(t, reported) : i >= from}
       exits == Exits(t, reported) \cap window
   IN [ticket |-> t, side |-> DirectionOf(window \ exits, Max(exits)), volume |-> Volume(exits),
       profit |-> Money(window), closedAt |-> Max(exits)] :
     t \in {t \in 1..Issued : \E i \in Exits(t, reported) : i >= from}}

\* getTradeHistory of the simulation: the last close of each ticket.
RememberedTrades(from) ==
  {LET last == Max(Exits(t, Now))
   IN [ticket |-> t, side |-> position[t].side, volume |-> deal[last].volume,
       profit |-> deal[last].money, closedAt |-> last] :
     t \in {t \in 1..Issued : \E i \in Exits(t, Now) : i >= from}}

GetTradeHistory(from) == IF venue.provider = "mock" THEN RememberedTrades(from) ELSE GroupedTrades(from)

Mappings(from) == {m \in Copies : Live(m) \/ (copy[m].status = "CLOSED" /\ copy[m].closedAt >= from)}

\* strategyByTicket: a copy's tickets, those a partial close superseded included.
StrategyByTicket(from) == UNION {{copy[m].ticket} \cup copy[m].ticketHistory : m \in Mappings(from)}

\* getAccountTradeHistory: the broker's trades, where it can be reached, and the copies whose
\* ticket is not among them.
Rows0(from, reached) ==
  {[ticket |-> trade.ticket, side |-> trade.side, profit |-> trade.profit, closedAt |-> trade.closedAt,
    copied |-> trade.ticket \in StrategyByTicket(from), of |-> "broker"] :
     trade \in IF reached THEN GetTradeHistory(from) ELSE {}}
History(from, reached) ==
  Rows0(from, reached) \cup
  {[ticket |-> copy[m].ticket, side |-> copy[m].side, profit |-> copy[m].profit,
    closedAt |-> IF Live(m) THEN 0 ELSE copy[m].closedAt, copied |-> TRUE, of |-> m] :
     m \in {m \in Mappings(from) : \A row \in Rows0(from, reached) : row.ticket # copy[m].ticket}}

\* The page's totals count the rows that are closed.
TotalProfit(rows) == SumFunction([row \in {row \in rows : row.closedAt # 0} |-> row.profit])

-----------------------------------------------------------------------------
(* Properties.                                                             *)

Held(m) == {copy[m].ticket} \cup copy[m].ticketHistory
PartlyClosed(t) == position[t].volume > 0 /\ Exits(t, Now) # {}

\* Whatever window a member asks for, whether or not the broker answers and however late its
\* deals are: a ticket has one row, of the side the position was held, marked copied exactly
\* when it is or was a copy's; every copy still open is among them, as open, and nothing
\* closed in the window is missing once its deals are there.  Exceptions: copies merged into
\* one netted position share its ticket; an MT5 position closed in part shows as closed; a copy
\* recorded as closed by the first of two closing deals may not be marked for the second.
HistoryIsRight ==
  \A from \in 1..(Now + 1), reached \in BOOLEAN :
    LET rows == History(from, reached)
    IN /\ \A a, b \in rows : a.ticket = b.ticket => a = b \/ venue.netting
       /\ \A row \in rows : row.side = position[row.ticket].side
       /\ \A row \in rows : row.copied => \E m \in Copies : row.ticket \in Held(m)
       /\ \A row \in rows, m \in Copies \ early : row.ticket \in Held(m) => row.copied
       /\ \A m \in Copies : Live(m) =>
            \E row \in rows : row.ticket = copy[m].ticket /\ (row.closedAt = 0 \/ PartlyClosed(row.ticket)
                                                              \/ position[row.ticket].volume = 0)
       /\ reached /\ reported = Now =>
            \A t \in 1..Issued : (\E i \in Exits(t, Now) : i >= from) => \E row \in rows : row.ticket = t
       /\ reached /\ reported = Now /\ from = 1 /\ venue.provider = "metaapi" =>
            TotalProfit(rows) = Money({i \in 1..Now : Exits(deal[i].ticket, Now) # {}})

\* The profit recorded of a copy is what its last ticket moved the balance by, whether the
\* close or a later sweep read it.  Exceptions: its deals were read before the last of them
\* was reported, and are not read again; the simulation remembers one close of a ticket.
RecordedIsTheBrokers ==
  \A m \in Copies :
    copy[m].status = "CLOSED" /\ copy[m].known /\ m \notin early
      => \/ copy[m].profit = Money(OfTicket(copy[m].ticket, Now))
         \/ venue.provider = "mock" /\ Cardinality(Exits(copy[m].ticket, Now)) > 1
=============================================================================
