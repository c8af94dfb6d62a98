-------------------------- MODULE MCRateCalculator --------------------------
(* A small instance of RateCalculator for TLC. *)
EXTENDS RateCalculator, TLC

KeySymmetry == Permutations(Keys)
=============================================================================
