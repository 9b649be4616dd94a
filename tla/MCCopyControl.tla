---------------------------- MODULE MCCopyControl ----------------------------
(* Instances of CopyControl for TLC. *)
EXTENDS CopyControl, TLC

CONSTANTS a1, a2, s1, s2

\* An account that follows both strategies and one that follows the first.
ThreeSubs == {<<a1, s1>>, <<a1, s2>>, <<a2, s1>>}

RequestSymmetry == Permutations(Requests)
=============================================================================
