------------------------------ MODULE MCAccess ------------------------------
(* Instances of the console for TLC. *)
EXTENDS Console, TLC

TabSymmetry == Permutations(Tabs)

\* A broker with one server on MT4, taken at once, and two on MT5.
MCDirectory == [MT4 |-> [alpha |-> {"one"}], MT5 |-> [alpha |-> {"one", "two"}]]
=============================================================================
