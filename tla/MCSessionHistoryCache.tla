------------------------ MODULE MCSessionHistoryCache ------------------------
(***************************************************************************)
(* Values of the session-history cache's constants for TLC.                *)
(***************************************************************************)
EXTENDS SessionHistoryCache, TLC

CONSTANTS r1, r2

Symmetry == Permutations(Reads)
=============================================================================
