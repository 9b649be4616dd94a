---------------------------- MODULE MCCopyEngine ----------------------------
(* Instances of CopyEngine for TLC: the logs of master events it is run on. *)
EXTENDS CopyEngine, TLC

\* One position opened, its stop moved, and closed in two steps.
LongLifeKind == <<"OPEN", "MODIFY", "PARTIAL_CLOSE", "CLOSE">>
LongLifeTicket == [e \in 1..4 |-> 1]

\* One position opened and closed.
RoundTripKind == <<"OPEN", "CLOSE">>
RoundTripTicket == [e \in 1..2 |-> 1]

WorkerSymmetry == Permutations(Workers)
=============================================================================
