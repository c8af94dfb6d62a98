---------------------------- MODULE MCVitalsLink ----------------------------
(* Small instances of VitalsLink for TLC. *)
EXTENDS VitalsLink, TLC

RequestsUpTo1 == 1 .. 1
RequestsUpTo2 == 1 .. 2
ConnSymmetry == Permutations(Conns)
=============================================================================
