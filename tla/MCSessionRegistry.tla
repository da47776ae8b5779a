-------------------------- MODULE MCSessionRegistry --------------------------
(* Instances of SessionRegistry for TLC.                                   *)
EXTENDS SessionRegistry, TLC

(* The sessions other than the detached one are interchangeable.           *)
Symmetry == Permutations(Sessions \ {Detached})
=============================================================================
