---------------------------- MODULE MCCompaction ----------------------------
(* Compaction with the values of its configurations.                       *)
EXTENDS Compaction

CONSTANTS k1, k2

OneRequest == {k1}
TwoRequests == {k1, k2}

(* The requests are interchangeable; used with safety properties only.     *)
RequestSymmetry == Permutations(TwoRequests)
=============================================================================
