---------------------------- MODULE MCTokenManager ----------------------------
(***************************************************************************)
(* Instances of TokenManager for TLC.                                      *)
(***************************************************************************)
EXTENDS TokenManager, TLC

CONSTANTS startup, recovery, read, login, refresh, probe, other
=============================================================================
