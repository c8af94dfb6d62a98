-------------------------- MODULE MCCollectorNode --------------------------
(* A small instance of CollectorNode for TLC. *)
EXTENDS CollectorNode, TLC

Symmetry == Permutations(Requests)
TwoDirs == 1 .. 2
OneName == <<"coretemp">>
=============================================================================
