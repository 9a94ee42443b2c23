---------------------------- MODULE MCHdcChannel ----------------------------
(* Instances of HdcChannel for TLC. *)
EXTENDS HdcChannel, TLC

CONSTANTS c1, c2, s1, s2
Symmetry == Permutations(Channels) \cup Permutations(Sessions)
=============================================================================
