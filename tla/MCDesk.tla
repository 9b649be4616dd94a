------------------------------- MODULE MCDesk -------------------------------
(* Instances for the account desk.                                         *)
EXTENDS Desk, TLC

\* The simulation on every kind of account, and a real broker on both platforms.
MCVenues ==
  [provider : {"mock"}, platform : {"MT4"}, netting : {FALSE}]
    \cup [provider : {"mock"}, platform : {"MT5"}, netting : BOOLEAN]
    \cup [provider : {"metaapi"}, platform : {"MT4", "MT5"}, netting : {FALSE}]
MCGains == {3}
=============================================================================
