-------------------------- MODULE MCProviderWorker --------------------------
(***************************************************************************)
(* Values of the provider worker's constants for TLC.                      *)
(***************************************************************************)
EXTENDS ProviderWorker, TLC

CONSTANTS o1, o2, a1, a2, a3

Symmetry == Permutations(Operations) \cup Permutations(Attempts)
=============================================================================
