------------------------------ MODULE OptionChain ------------------------------
(***************************************************************************)
(* What the gateway makes of the contracts of one expiration: a complete   *)
(* chain with a mark on every stale contract and marks on the whole, and,  *)
(* when a cached chain is served, the same marks as of that moment.        *)
(*                                                                         *)
(* A contract is the age of its quote when Schwab's answer is received, in *)
(* ticks, or Unknown.  A payload has sequences of calls and of puts.       *)
(***************************************************************************)
EXTENDS Integers, Sequences

CONSTANTS
  Unknown,       \* the age of a contract without a timestamp
  StaleAfter,    \* stale_after_seconds
  MaxContracts   \* MAX_OPTION_CHAIN_CONTRACTS_V1

ASSUME UnknownIsNoAge == Unknown \notin Int /\ StaleAfter \in Nat

Ages(p) == p.calls \o p.puts

\* Anything else is malformed: a chain is never truncated, nor one-sided.
Complete(p) == p.calls # <<>> /\ p.puts # <<>> /\ Len(Ages(p)) <= MaxContracts

\* _freshness, some time after the answer was received.
Stale(age, elapsed) == age = Unknown \/ age + elapsed > StaleAfter

Contract(age) == [age |-> age, stale |-> Stale(age, 0)]

AllStale(cs) == \A i \in DOMAIN cs : cs[i].stale
SomeStale(cs) == ~AllStale(cs) /\ \E i \in DOMAIN cs : cs[i].stale

\* stale, partly, untimed: the chain's stale, stale_contracts_present and
\* missing_contract_event_timestamp.
Normalized(ages) ==
  LET cs == [i \in DOMAIN ages |-> Contract(ages[i])]
  IN  [ contracts |-> cs,
        stale     |-> AllStale(cs),
        partly    |-> SomeStale(cs),
        untimed   |-> \E i \in DOMAIN cs : cs[i].age = Unknown ]

Rejudged(contract, elapsed) ==
  [contract EXCEPT !.stale = Stale(contract.age, elapsed)]

AsFetched(chain, elapsed) == chain       \* mutant: the marks of the fetch are served
Reevaluated(chain, elapsed) ==
  LET cs == [i \in DOMAIN chain.contracts |-> Rejudged(chain.contracts[i], elapsed)]
  IN  [chain EXCEPT !.contracts = cs, !.stale = AllStale(cs), !.partly = SomeStale(cs)]
=============================================================================
