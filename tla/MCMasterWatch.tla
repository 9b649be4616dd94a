--------------------------- MODULE MCMasterWatch ---------------------------
(* Instances of MasterWatch: one position, on the first of two accounts.   *)
EXTENDS MasterWatch

CONSTANTS a1, a2, p1, t1

OnFirst == [t \in Tickets |-> a1]
=============================================================================
