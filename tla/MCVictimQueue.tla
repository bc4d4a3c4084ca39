--------------------------- MODULE MCVictimQueue ---------------------------
(* Instances of VictimQueue for TLC. *)
EXTENDS VictimQueue, TLC

Symmetry == Permutations(Lines)
============================================================================
