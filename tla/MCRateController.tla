-------------------------- MODULE MCRateController --------------------------
(* Small instances of RateController. *)
EXTENDS RateController, TLC

ThreadSymmetry == Permutations(Threads)
=============================================================================
