----------------------------- MODULE Statistics -----------------------------
(***************************************************************************)
(* The figures the marketplace shows for a strategy, from the profits of   *)
(* its closed trades in the order they closed.  Profits are in hundredths; *)
(* percentages come out in hundredths of a percent, rounded half up, which *)
(* is what toFixed(2) leaves of the quotient.                              *)
(***************************************************************************)
EXTENDS Integers, SequencesExt

CONSTANTS Profits, MaxTrades   \* bounds of the sequences compared

ASSUME FiguresAssumption == Profits \subseteq Int /\ MaxTrades \in Nat

Notional == 10000

Percent(part, whole) == (2 * 10000 * part + whole) \div (2 * whole)

\* The loop of recomputeStrategyStats.
AfterTrade(curve, profit) ==
  LET equity == curve.equity + profit
      peak   == Max({curve.peak, equity})
  IN  [equity |-> equity, peak |-> peak, fall |-> Max({curve.fall, Percent(peak - equity, peak)})]

Curve(profits) == FoldLeft(AfterTrade, [equity |-> Notional, peak |-> Notional, fall |-> 0], profits)

TotalReturn(profits) == Curve(profits).equity - Notional
MaxDrawdown(profits) == Curve(profits).fall

WinRate(profits) ==
  IF profits = << >> THEN 0 ELSE Percent(Cardinality({i \in DOMAIN profits : profits[i] > 0}), Len(profits))

-----------------------------------------------------------------------------
Histories == BoundedSeq(Profits, MaxTrades)

\* Equity after the first n trades.
Equity(profits) ==
  LET equity[n \in 0..Len(profits)] == IF n = 0 THEN Notional ELSE equity[n - 1] + profits[n] IN equity

\* Falls from the high of the first j trades to the equity after them.
Falls(equity) ==
  {f \in (DOMAIN equity) \X (DOMAIN equity) :
     f[1] <= f[2] /\ \A k \in 0..f[2] : equity[k] <= equity[f[1]]}

\* The worst of them, in percent of the high.
WorstFall(profits) ==
  LET equity == Equity(profits)
  IN  Max({Percent(equity[f[1]] - equity[f[2]], equity[f[1]]) : f \in Falls(equity)})

\* The drawdown is the worst fall from a high, and not more.
DrawdownIsRight == \A profits \in Histories : MaxDrawdown(profits) = WorstFall(profits)

\* A loss never comes without a drawdown as large, while the notional capital lasts;
\* wins only mean neither.
LossHasDrawdown ==
  \A profits \in Histories :
    /\ TotalReturn(profits) < 0 /\ TotalReturn(profits) >= -Notional => MaxDrawdown(profits) >= -TotalReturn(profits)
    /\ profits # << >> /\ WinRate(profits) = 10000 => MaxDrawdown(profits) = 0 /\ TotalReturn(profits) > 0
=============================================================================
