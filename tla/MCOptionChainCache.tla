-------------------------- MODULE MCOptionChainCache --------------------------
(***************************************************************************)
(* Values of the option-chain cache's constants for TLC.                   *)
(***************************************************************************)
EXTENDS OptionChainCache, TLC

CONSTANTS r1, r2, r3, spx, vix, rut

\* All fresh, and stale in part or as a whole one tick later; stale in part;
\* larger than the cache; one-sided; too many contracts.
Ladder(calls, puts) == [calls |-> calls, puts |-> puts]
MCPayloads ==
  { Ladder(<<0>>, <<1>>), Ladder(<<1>>, <<1>>), Ladder(<<0>>, <<Unknown, 2>>),
    Ladder(<<0, 0, 0>>, <<0, 0>>), Ladder(<<0>>, <<>>), Ladder(<<0, 0, 0>>, <<0, 0, 0>>) }

Symmetry == Permutations(Requests) \cup Permutations(Keys)
=============================================================================
