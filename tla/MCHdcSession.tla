---------------------------- MODULE MCHdcSession ----------------------------
(* Instances of HdcSession for TLC. *)
EXTENDS HdcSession, TLC

CONSTANTS s1, s2
Symmetry == Permutations(Sessions)
=============================================================================
