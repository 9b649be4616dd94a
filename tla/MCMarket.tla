------------------------------ MODULE MCMarket ------------------------------
(* Instances of Market for TLC. *)
EXTENDS Market

\* The seed's plans, cut to two: the free one allows one strategy.
TwoPlans == [tier \in {"FREE", "PRO"} |-> IF tier = "FREE" THEN 1 ELSE 2]

\* Gains and losses that cross the notional capital, and one that leaves it.
SomeProfits == {-9000, -2500, 0, 3333, 15000}
=============================================================================
