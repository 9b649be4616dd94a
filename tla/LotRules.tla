------------------------------ MODULE LotRules ------------------------------
(***************************************************************************)
(* The size of a copied trade: what calculateLot makes of the master's     *)
(* volume, what evaluateRisk admits, and what the member's position is     *)
(* after each partial close of the master's.                               *)
(*                                                                         *)
(* Volumes are hundredths of a lot.  A computed volume is a pair, the      *)
(* numerator and denominator of a number of hundredths, so that nothing is *)
(* rounded but where the code rounds.                                      *)
(***************************************************************************)
EXTENDS Integers, FiniteSets

CONSTANTS
  Cases,      \* sizing, order and risk state of one copy: see the three predicates below
  CloseSizes, \* volumes the master closes at a time
  MaxCloses   \* bound: partial closes of the position

Modes == {"FIXED", "MULTIPLIER", "BALANCE_RATIO", "RISK_PERCENT"}

\* The arguments of calculateLot.  fixedLot to riskPercent are hundredths; the
\* broker's bounds are those of account and symbol together; masterBalance and
\* lossPerLot (the stop's distance times the contract size) are 0 when absent.
Positive == Nat \ {0}
IsSizing(s) ==
  /\ s \in [mode : Modes, rounding : BOOLEAN, volume : Positive, step : Positive,
            fixedLot : Positive, multiplier : Positive, balanceRatio : Positive, riskPercent : Positive,
            minLot : Positive, maxLot : Positive, brokerMinLot : Positive, brokerMaxLot : Positive,
            memberBalance : Nat, memberEquity : Nat, masterBalance : Nat, lossPerLot : Nat]
  /\ s.minLot <= s.maxLot

Symbols == {"XAUUSD", "XAUUSD.m", "GOLD"}
Scopes == {"account", "strategy", "global"}

\* The master's order in XAUUSD, what the member copies, and the symbol mappings that
\* name the member's account, its strategy or neither.
IsOrder(o) ==
  /\ o.direction \in {"BUY", "SELL"} /\ o.isPending \in BOOLEAN
  /\ {o.copyBuy, o.copySell, o.copyPendingOrders} \subseteq BOOLEAN
  /\ o.allowedSymbols \subseteq Symbols
  /\ o.mappings \subseteq [scope : Scopes, enabled : BOOLEAN, symbol : Symbols]

\* The arguments of evaluateRisk; 0 disables a limit.
IsRisk(r) ==
  /\ {r.breached, r.stopCopyOnBreach} \subseteq BOOLEAN
  /\ {r.openTrades, r.openVolume, r.equity, r.peakEquity, r.dailyStartEquity} \subseteq Nat
  /\ {r.maxOpenTrades, r.maxLotPerTrade, r.maxTotalLot} \subseteq Nat
  /\ {r.maxDailyLoss, r.maxDailyLossPct, r.maxDrawdownPct} \subseteq Nat

ASSUME CasesAssumption ==
  /\ \A c \in Cases : IsSizing(c.sizing) /\ IsOrder(c.order) /\ IsRisk(c.risk)
  /\ CloseSizes \subseteq Nat \ {0}
  /\ MaxCloses \in Nat

VARIABLES
  case,      \* the trade being copied
  phase,     \* "new", "skipped", "rejected", "open" or "closed"
  symbol,    \* the member's symbol, once resolved
  paused,    \* the copy paused its subscription for a breach
  master,    \* the master's open volume
  position,  \* the member's open volume at the broker
  mapping,   \* PositionMapping: status and volume
  closes,    \* partial closes so far
  refused    \* history: the broker refused one of them

lotVars == <<case, phase, symbol, paused, master, position, mapping, closes, refused>>

-----------------------------------------------------------------------------
(* calculateLot.                                                           *)

Leq(x, y) == x[1] * y[2] <= y[1] * x[2]
Lesser(x, y) == IF Leq(x, y) THEN x ELSE y
Greater(x, y) == IF Leq(x, y) THEN y ELSE x
Whole(n) == <<n, 1>>

\* roundToStep: down to a multiple of the broker's step.
RoundToStep(x, step) == (x[1] \div (x[2] * step)) * step

\* What stands in the way of sizing a trade, if anything.
Missing(s) ==
  CASE s.mode = "BALANCE_RATIO" /\ s.masterBalance = 0 -> "MISSING_MASTER_BALANCE"
    [] s.mode = "RISK_PERCENT" /\ s.lossPerLot = 0 -> "MISSING_STOP"
    [] OTHER -> "nothing"

\* The volume before any bound, once nothing is missing.
Raw(s) ==
  CASE s.mode = "FIXED" -> Whole(s.fixedLot)
    [] s.mode = "MULTIPLIER" -> <<s.volume * s.multiplier, 100>>
    [] s.mode = "BALANCE_RATIO" -> <<s.volume * s.memberBalance * s.balanceRatio, 100 * s.masterBalance>>
    [] s.mode = "RISK_PERCENT" -> <<s.memberEquity * s.riskPercent, 100 * s.lossPerLot>>

\* Mutant: the broker's maximum is not a bound.
BoundedByMember(s) == Lesser(Greater(Raw(s), Whole(s.minLot)), Whole(s.maxLot))

\* Clamped to the member's own bounds, and below the broker's maximum.
Bounded(s) ==
  LET ceiling == Lesser(Whole(s.maxLot), Whole(s.brokerMaxLot))
  IN Lesser(Greater(Raw(s), Whole(s.minLot)), ceiling)

Refuse(code) == [ok |-> FALSE, code |-> code, volume |-> 0]
Accept(v) == [ok |-> TRUE, code |-> "none", volume |-> v]

\* calculateLot: bounded, then down to the broker's step; below the broker's
\* minimum the trade is refused, or raised to the minimum where the member allows.
CalculateLot(s) ==
  IF Missing(s) # "nothing" THEN Refuse(Missing(s))
  ELSE IF Raw(s)[1] = 0 THEN Refuse("INVALID_VOLUME")
  ELSE LET volume == RoundToStep(Bounded(s), s.step)
       IN IF Leq(Whole(s.brokerMinLot), Bounded(s)) /\ volume >= s.brokerMinLot
          THEN Accept(volume)
          ELSE IF s.rounding THEN Accept(s.brokerMinLot) ELSE Refuse("BELOW_BROKER_MINIMUM")

-----------------------------------------------------------------------------
(* resolveMemberSymbol and evaluateRisk.                                   *)

Enabled(o, scope) == {m.symbol : m \in {n \in o.mappings : n.enabled /\ n.scope = scope}}

OrElse(S, T) == IF S # {} THEN S ELSE T

\* resolveMemberSymbol: the most specific scope with an enabled mapping decides; of
\* two in one scope the query's order, which is not given.
MemberSymbols(o) ==
  OrElse(Enabled(o, "account"), OrElse(Enabled(o, "strategy"), OrElse(Enabled(o, "global"), {"XAUUSD"})))

\* The kind of order, its direction or its symbol is not one the member copies.
Unwanted(o, memberSymbol) ==
  \/ o.isPending /\ ~o.copyPendingOrders
  \/ IF o.direction = "BUY" THEN ~o.copyBuy ELSE ~o.copySell
  \/ o.allowedSymbols # {} /\ memberSymbol \notin o.allowedSymbols

\* The trade itself is refused; copying goes on.
RefusedTrade(o, r, memberSymbol, volume) ==
  \/ r.breached
  \/ Unwanted(o, memberSymbol)
  \/ r.openTrades >= r.maxOpenTrades
  \/ r.maxLotPerTrade > 0 /\ volume > r.maxLotPerTrade
  \/ r.maxTotalLot > 0 /\ r.openVolume + volume > r.maxTotalLot

\* Mutant: the limit itself is still admitted.
AccountBreachAbove(r) ==
  LET loss == r.dailyStartEquity - r.equity
  IN \/ r.maxDailyLoss > 0 /\ loss > r.maxDailyLoss
     \/ r.maxDailyLossPct > 0 /\ r.dailyStartEquity > 0 /\ loss * 100 > r.maxDailyLossPct * r.dailyStartEquity
     \/ r.maxDrawdownPct > 0 /\ r.peakEquity > 0
          /\ (r.peakEquity - r.equity) * 100 > r.maxDrawdownPct * r.peakEquity

\* The account has reached a limit on its loss.
AccountBreach(r) ==
  LET loss == r.dailyStartEquity - r.equity
  IN \/ r.maxDailyLoss > 0 /\ loss >= r.maxDailyLoss
     \/ r.maxDailyLossPct > 0 /\ r.dailyStartEquity > 0 /\ loss * 100 >= r.maxDailyLossPct * r.dailyStartEquity
     \/ r.maxDrawdownPct > 0 /\ r.peakEquity > 0
          /\ (r.peakEquity - r.equity) * 100 >= r.maxDrawdownPct * r.peakEquity

\* evaluateRisk: the trade's own limits come first, and hide a breach.
EvaluateRisk(o, r, memberSymbol, volume) ==
  IF RefusedTrade(o, r, memberSymbol, volume) THEN [allowed |-> FALSE, shouldPause |-> FALSE]
  ELSE IF AccountBreach(r) THEN [allowed |-> FALSE, shouldPause |-> TRUE]
  ELSE [allowed |-> TRUE, shouldPause |-> FALSE]

-----------------------------------------------------------------------------
(* The life of one copied position.                                        *)

MappingType == [status : {"none", "OPEN", "PARTIALLY_CLOSED", "CLOSED"}, volume : Nat]

LotType ==
  /\ case \in Cases
  /\ phase \in {"new", "skipped", "rejected", "open", "closed"}
  /\ symbol \in Symbols \cup {"none"}
  /\ paused \in BOOLEAN /\ refused \in BOOLEAN
  /\ master \in Nat /\ position \in Nat /\ closes \in 0..MaxCloses
  /\ mapping \in MappingType

LotInit ==
  /\ case \in Cases
  /\ phase = "new" /\ symbol = "none" /\ paused = FALSE
  /\ master = case.sizing.volume
  /\ position = 0
  /\ mapping = [status |-> "none", volume |-> 0]
  /\ closes = 0 /\ refused = FALSE

Lot == CalculateLot(case.sizing)
Decision == EvaluateRisk(case.order, case.risk, symbol, Lot.volume)

\* copyToMember: the symbol is resolved first.
ResolveSymbol ==
  /\ phase = "new" /\ symbol = "none"
  /\ symbol' \in MemberSymbols(case.order)
  /\ UNCHANGED <<case, phase, paused, master, position, mapping, closes, refused>>

\* openForMember up to the skip: no size, or a risk decision against the trade.
SkipTrade ==
  /\ phase = "new" /\ symbol # "none"
  /\ ~Lot.ok \/ ~Decision.allowed
  /\ phase' = "skipped"
  /\ paused' = (Lot.ok /\ Decision.shouldPause /\ case.risk.stopCopyOnBreach)
  /\ UNCHANGED <<case, symbol, master, position, mapping, closes, refused>>

\* openForMember: the order is filled and recorded, or the broker rejects it.
OpenTrade ==
  /\ phase = "new" /\ symbol # "none" /\ Lot.ok /\ Decision.allowed
  /\ \/ /\ phase' = "open"
        /\ position' = Lot.volume
        /\ mapping' = [status |-> "OPEN", volume |-> Lot.volume]
     \/ phase' = "rejected" /\ UNCHANGED <<position, mapping>>
  /\ UNCHANGED <<case, symbol, paused, master, closes, refused>>

\* toFixed(2): the nearest hundredth; at the half the binary number decides.
ToHundredths(x) ==
  LET down == x[1] \div x[2]
      rest == 2 * (x[1] % x[2])
  IN {v \in {down, down + 1} : (v = down => rest <= x[2]) /\ (v = down + 1 => rest >= x[2])}

AtLeastOne(v) == IF v < 1 THEN 1 ELSE v

\* Mutant: the member closes as many lots as the master.
CloseSameLots(closed, open) == {AtLeastOne(closed)}

\* The fraction of the member's position the master's partial close stands for.
CloseVolumes(closed, open) ==
  {AtLeastOne(v) : v \in ToHundredths(<<mapping.volume * closed, open>>)}

\* storeEvent's fraction and adjustForMember: a partial close of the master's
\* position, executed or refused by the member's broker.
PartialClose(closed) ==
  /\ phase = "open" /\ closes < MaxCloses /\ closed < master
  /\ master' = master - closed /\ closes' = closes + 1
  /\ \/ /\ position > 0
        /\ \E v \in CloseVolumes(closed, master) :
             /\ position' = IF v < position THEN position - v ELSE 0
             /\ mapping' = [status |-> "PARTIALLY_CLOSED", volume |-> mapping.volume - v]
        /\ UNCHANGED refused
     \/ refused' = TRUE /\ UNCHANGED <<position, mapping>>
  /\ UNCHANGED <<case, phase, symbol, paused>>

\* adjustForMember: the master closes what is left; a position already gone is not
\* found, and its mapping is left as it is.
Close ==
  /\ phase = "open"
  /\ phase' = "closed" /\ master' = 0 /\ position' = 0
  /\ mapping' = IF position > 0 THEN [mapping EXCEPT !.status = "CLOSED"] ELSE mapping
  /\ UNCHANGED <<case, symbol, paused, closes, refused>>

LotNext ==
  \/ ResolveSymbol
  \/ SkipTrade
  \/ OpenTrade
  \/ \E v \in CloseSizes : PartialClose(v)
  \/ Close

LotSpec == LotInit /\ [][LotNext]_lotVars

-----------------------------------------------------------------------------
(* Properties.                                                             *)

\* A size the calculator admits lies between the broker's bounds, on the broker's
\* step or at its minimum, and within the member's maximum; the member's maximum
\* gives way only to the minimum-lot rounding the member asked for.
SizeIsTradable ==
  LET s == case.sizing
  IN Lot.ok =>
       /\ s.brokerMinLot <= Lot.volume
       /\ Lot.volume % s.step = 0 \/ Lot.volume = s.brokerMinLot
       /\ Lot.volume <= s.brokerMaxLot \/ s.brokerMaxLot < s.brokerMinLot
       /\ Lot.volume <= s.maxLot \/ s.rounding

\* The size never exceeds what the mode computed, but where the member's own minimum
\* or the rounding they asked for raises it: for RISK_PERCENT, the loss at the stop
\* stays within the percentage.
NeverSizedUp ==
  LET s == case.sizing
  IN Lot.ok => Leq(Whole(Lot.volume), Raw(s)) \/ Lot.volume <= s.minLot \/ s.rounding

\* A larger trade of the master's is not copied smaller, nor refused when a smaller
\* one is taken.
SizeIsMonotone ==
  LET s == case.sizing
  IN \A v \in 1..s.volume :
       LET smaller == CalculateLot([s EXCEPT !.volume = v])
       IN smaller.ok => Lot.ok /\ smaller.volume <= Lot.volume

\* A trade is opened only on an account whose loss is below every limit the member
\* set, and leaves its exposure below them too.
OpenedWithinLimits ==
  LET r == case.risk
  IN position > 0 /\ closes = 0 =>
       /\ r.maxTotalLot = 0 \/ r.openVolume + position <= r.maxTotalLot
       /\ r.maxDailyLoss = 0 \/ r.equity > r.dailyStartEquity - r.maxDailyLoss
       /\ r.maxDrawdownPct = 0 \/ r.equity * 100 > r.peakEquity * (100 - r.maxDrawdownPct) \/ r.peakEquity = 0

\* A trade is opened only in a direction the member copies and in a symbol they allow,
\* and under the name their own mapping gives it when they have one.
OpenedAsWanted ==
  LET o == case.order
      own == {m \in o.mappings : m.enabled /\ m.scope = "account"}
  IN position > 0 =>
       /\ o.direction = "BUY" => o.copyBuy
       /\ o.direction = "SELL" => o.copySell
       /\ o.isPending => o.copyPendingOrders
       /\ o.allowedSymbols = {} \/ symbol \in o.allowedSymbols
       /\ own # {} => \E m \in own : m.symbol = symbol
       /\ symbol # "XAUUSD" => \E m \in o.mappings : m.enabled /\ m.symbol = symbol

\* After any partial closes the broker accepted, the member holds the share of the
\* position the master still holds, to within a hundredth of a lot for each close.
ShareIsKept ==
  LET lot == Lot.volume  drift == mapping.volume * case.sizing.volume - lot * master
      tolerance == closes * case.sizing.volume
  IN phase = "open" /\ ~refused => -tolerance <= drift /\ drift <= tolerance

\* The volume a mapping records is the one the broker holds, until the mapping is
\* closed.
MappingIsTheVolume == mapping.status # "CLOSED" /\ phase = "open" => mapping.volume = position

\* The sizes calculateLot returns can be ordered, exceed nothing the member allowed, and
\* follow the master's.
OrdersAreTradable == LotType /\ SizeIsTradable /\ NeverSizedUp /\ SizeIsMonotone

\* openForMember opens only what the member's limits and choices admit (evaluateRisk,
\* resolveMemberSymbol).
OpenedAsAllowed == OpenedWithinLimits /\ OpenedAsWanted

\* After partial closes (adjustForMember) the member, the mapping and the master agree.
PartialsKeepShare == ShareIsKept /\ MappingIsTheVolume
=============================================================================
