----------------------------- MODULE MCLotRules -----------------------------
(* Instances of LotRules: every sizing, every order and every risk state,  *)
(* each with one plain case of the other two.                              *)
EXTENDS LotRules

Sizings ==
  {s \in [mode : Modes, rounding : BOOLEAN, volume : {3, 10, 25}, fixedLot : {5}, multiplier : {50, 130},
          balanceRatio : {100}, riskPercent : {200}, minLot : {1, 4}, maxLot : {3, 40},
          brokerMinLot : {1, 10}, brokerMaxLot : {20}, step : {1, 10},
          memberBalance : {500}, memberEquity : {600}, masterBalance : {0, 900}, lossPerLot : {0, 7, 500}] :
     s.minLot <= s.maxLot}

Plain ==
  [mode |-> "MULTIPLIER", rounding |-> FALSE, volume |-> 10, fixedLot |-> 5, multiplier |-> 100,
   balanceRatio |-> 100, riskPercent |-> 100, minLot |-> 1, maxLot |-> 40, brokerMinLot |-> 1,
   brokerMaxLot |-> 100, step |-> 1, memberBalance |-> 500, memberEquity |-> 500, masterBalance |-> 0,
   lossPerLot |-> 0]

Orders ==
  [direction : {"BUY", "SELL"}, isPending : BOOLEAN, copyBuy : BOOLEAN, copySell : BOOLEAN,
   copyPendingOrders : BOOLEAN, allowedSymbols : {{}, {"XAUUSD"}},
   mappings : SUBSET [scope : {"account", "strategy", "global"}, enabled : {TRUE}, symbol : {"GOLD"}]
              \cup {{[scope |-> "account", enabled |-> FALSE, symbol |-> "GOLD"],
                     [scope |-> "account", enabled |-> TRUE, symbol |-> "XAUUSD"],
                     [scope |-> "global", enabled |-> TRUE, symbol |-> "XAUUSD.m"]}}]

BuyGold ==
  [direction |-> "BUY", isPending |-> FALSE, copyBuy |-> TRUE, copySell |-> TRUE, copyPendingOrders |-> FALSE,
   allowedSymbols |-> {}, mappings |-> {}]

Quiet ==
  [breached |-> FALSE, stopCopyOnBreach |-> TRUE, openTrades |-> 0, openVolume |-> 0,
   equity |-> 100, peakEquity |-> 100, dailyStartEquity |-> 100, maxOpenTrades |-> 2, maxLotPerTrade |-> 0,
   maxTotalLot |-> 0, maxDailyLoss |-> 0, maxDailyLossPct |-> 0, maxDrawdownPct |-> 0]

Risks ==
  [breached : BOOLEAN, stopCopyOnBreach : BOOLEAN, openTrades : {1, 2}, openVolume : {15},
   equity : {80, 90, 95}, peakEquity : {0, 100, 120}, dailyStartEquity : {0, 100}, maxOpenTrades : {2},
   maxLotPerTrade : {0, 9}, maxTotalLot : {0, 24, 25}, maxDailyLoss : {0, 10}, maxDailyLossPct : {0, 5},
   maxDrawdownPct : {0, 25}]

AllCases ==
  [sizing : Sizings, order : {BuyGold}, risk : {Quiet}]
    \cup [sizing : {Plain}, order : Orders, risk : {Quiet}]
    \cup [sizing : {Plain}, order : {BuyGold}, risk : Risks]
=============================================================================
