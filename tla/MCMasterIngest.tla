--------------------------- MODULE MCMasterIngest ---------------------------
(* Instances of MasterIngest for TLC. *)
EXTENDS MasterIngest, TLC

\* A position opened and partly closed twice.
PartsKind == <<"OPEN", "PARTIAL_CLOSE", "PARTIAL_CLOSE">>
PartsTicket == <<1, 1, 1>>
PartsVolume == <<100, 40, 30>>
PartsOpen == <<0, 100, 60>>

RequestSymmetry == Permutations(Requests)
=============================================================================
