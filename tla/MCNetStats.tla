----------------------------- MODULE MCNetStats -----------------------------
(* A small instance of NetStats for TLC. *)
EXTENDS NetStats, TLC

Symmetry == Permutations(Pids) \cup Permutations(Socks)
=============================================================================
