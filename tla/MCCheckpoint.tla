----------------------------- MODULE MCCheckpoint -----------------------------
(* Model values for Checkpoint: messages are interchangeable.              *)
EXTENDS Checkpoint, TLC

CONSTANTS g1, g2, m1, m2

Symmetry == Permutations({g1, g2}) \cup Permutations({m1, m2})
=============================================================================
