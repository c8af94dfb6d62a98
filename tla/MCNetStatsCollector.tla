------------------------ MODULE MCNetStatsCollector ------------------------
(* A small instance of NetStatsCollector for TLC. *)
EXTENDS NetStatsCollector, TLC

Symmetry == Permutations(Pids) \cup Permutations(Socks) \cup Permutations(Protocols)
            \cup Permutations(Directions)
=============================================================================
