----------------------------- MODULE MCTransfer -----------------------------
(* Small instances of Transfer. *)
EXTENDS Transfer, TLC

\* Neither the transfers nor the artifacts of one age can be told apart.
Symmetry == Permutations(Runs) \cup Permutations((Artifacts \ Old) \ Late)
=============================================================================
