------------------------ MODULE MCProcessCollector ------------------------
(* Instances of ProcessCollector. *)
EXTENDS ProcessCollector

TwoPids   == 1 .. 2
ThreePids == 1 .. 3
=============================================================================
