--------------------------- MODULE OptionChainCache ---------------------------
(***************************************************************************)
(* DirectSchwabOptionChainUpstream and the request handler in front of it: *)
(* a bounded cache with a time to live, one provider fetch per chain that  *)
(* duplicates join, and callers that may leave while the fetch goes on.    *)
(*                                                                         *)
(* One action is one uninterrupted stretch of the event loop.  A fetch is  *)
(* a task of its own: it ends in one step (FetchEnds), its done callbacks  *)
(* run in a later one (FinishFetch) and the coroutines that await it wake  *)
(* in later ones still (WaiterResumes).  A task is named after the request *)
(* whose call created it.  Waiting times are not counted: a timer may fire *)
(* at any step; only the age of a cached chain is.  A failure is told from *)
(* a value, not from another failure: a provider that fails is one whose   *)
(* answer is incomplete.  The size of a chain is its number of contracts.  *)
(***************************************************************************)
EXTENDS LruCache, OptionChain, FiniteSets

CONSTANTS
  Requests,      \* requests for a chain
  Keys,          \* (symbol, expiration) pairs
  NoRequest,     \* no task
  NoKey,         \* no chain
  TTL,           \* cache_ttl_seconds, in ticks
  MaxEntries,    \* cache_max_entries
  MaxBytes,      \* cache_max_bytes
  MaxInflight,   \* max_inflight
  SlotCapacity,  \* how many operations the scheduler runs at once
  Payloads       \* what Schwab may return for a chain

ASSUME NothingIsNone == NoRequest \notin Requests /\ NoKey \notin Keys
ASSUME PayloadsAreTimed ==
  Payloads \subseteq [calls : Seq(Int \cup {Unknown}), puts : Seq(Int \cup {Unknown})]
ASSUME BoundsArePositive ==
  /\ {TTL, MaxEntries, MaxBytes, MaxInflight, SlotCapacity} \subseteq Nat \ {0}

VARIABLES
  cache,        \* _cache
  cacheBytes,   \* _cache_bytes
  inflight,     \* _inflight: key -> the task registered for it
  fetch,        \* the task each request's call created
  request       \* the handler of each request, and what it awaits

vars == <<cache, cacheBytes, inflight, fetch, request>>

Outcomes == {"value", "failed"}
Answers == Outcomes \cup {"gone"}
Waiting == {"joined", "called"}

Chains == {Normalized(Ages(p)) : p \in {p \in Payloads : Complete(p)}}
EntryRecord == [key : Keys, bytes : 1 .. MaxBytes, age : 0 .. TTL, chain : Chains]
FetchRecord == [state : {"none", "running", "done"}, key : Keys \cup {NoKey}, outcome : Outcomes]

\* inSlot: get_option_chain runs as an operation of the scheduler, whatever
\* its caller was told.  awaits and woken are the shielded future.
RequestRecord ==
  [ caller : {"absent"} \cup Waiting \cup Answers,
    key    : Keys \cup {NoKey},
    inSlot : BOOLEAN,
    awaits : Requests \cup {NoRequest},
    woken  : {"pending"} \cup Outcomes ]

NoFetch == [state |-> "none", key |-> NoKey, outcome |-> "value"]

Waits(caller, k, inSlot, o) ==
  [caller |-> caller, key |-> k, inSlot |-> inSlot, awaits |-> o, woken |-> "pending"]
Answered(answer) == Waits(answer, NoKey, FALSE, NoRequest)

TypeOK ==
  /\ cache \in Seq(EntryRecord)
  /\ cacheBytes \in Nat
  /\ inflight \in [Keys -> Requests \cup {NoRequest}]
  /\ fetch \in [Requests -> FetchRecord]
  /\ request \in [Requests -> RequestRecord]

Init ==
  /\ cache = <<>>
  /\ cacheBytes = 0
  /\ inflight = [k \in Keys |-> NoRequest]
  /\ fetch = [r \in Requests |-> NoFetch]
  /\ request = [r \in Requests |-> Answered("absent")]
-----------------------------------------------------------------------------
(* The cache.                                                              *)

Unpruned(c) == c                            \* mutant: nothing expires
Expired(c) == {e \in Range(c) : e.age >= TTL}
Pruned(c) == Sublist(c, Range(c) \ Expired(c))

OverprunedBytes(c, bytes) == bytes - Weight(c)   \* mutant: the survivors' bytes go too
PrunedBytes(c, bytes) == bytes - Weight(Sublist(c, Expired(c)))

Hit(k) == k \in CachedKeys(Pruned(cache))

\* What a hit is served.
Served(e) == Reevaluated(e.chain, e.age)

\* cached_option_chain: every call prunes all the keys, then looks up its own.
LookUp(k) ==
  /\ cache' = IF Hit(k) THEN Touched(Pruned(cache), k) ELSE Pruned(cache)
  /\ cacheBytes' = PrunedBytes(cache, cacheBytes)

\* The tail of _fetch_option_chain: a chain larger than the whole cache is
\* returned without being kept.
Store(k, chain) ==
  LET bytes == Len(chain.contracts) IN
  IF bytes > MaxBytes THEN UNCHANGED <<cache, cacheBytes>>
  ELSE LET entry   == [key |-> k, bytes |-> bytes, age |-> 0, chain |-> chain]
           stored  == Append(Without(cache, k), entry)
           charged == cacheBytes - BytesOf(cache, k) + bytes
           n       == Evictions(stored, charged, MaxEntries, MaxBytes)
       IN  /\ cache' = Kept(stored, n)
           /\ cacheBytes' = charged - Weight(SubSeq(stored, 1, n))
-----------------------------------------------------------------------------
(* Requests.  A name is used again once its call, its operation and the    *)
(* task it created are all over.                                           *)

Idle(r) ==
  /\ request[r].caller \notin Waiting
  /\ ~request[r].inSlot
  /\ fetch[r].state = "none"

InSlot == {r \in Requests : request[r].inSlot}
NeverJoins(k) == FALSE                      \* mutant: no coalescing
Joinable(k) == inflight[k] # NoRequest

\* What the operation of r leaves behind when it ends: its caller may be gone.
OperationOver(r, answer) ==
  Answered(IF request[r].caller = "called" THEN answer ELSE request[r].caller)

\* Awaiting the shield of a task that is already done does not suspend.
Awaited(r, k, inSlot, o) ==
  IF fetch[o].state = "done"
  THEN IF inSlot THEN OperationOver(r, fetch[o].outcome)
       ELSE Answered(fetch[o].outcome)
  ELSE Waits(IF inSlot THEN request[r].caller ELSE "joined", k, inSlot, o)

\* option_chain: _serve_option_chain_without_worker, and when it returns None
\* the call to the scheduler.
Arrive(r, k) ==
  /\ Idle(r)
  /\ LookUp(k)
  /\ request' = [request EXCEPT ![r] =
       IF Hit(k) THEN Answered("value")
       ELSE IF Joinable(k) THEN Awaited(r, k, FALSE, inflight[k])
       ELSE Waits("called", k, FALSE, NoRequest)]
  /\ UNCHANGED <<inflight, fetch>>

MissInSlot(k) == FALSE                      \* mutant: no second look
HitInSlot(k) == Hit(k)
HasRoom == Cardinality({k \in Keys : inflight[k] # NoRequest}) < MaxInflight

\* The scheduler dispatches the operation, get_option_chain: the cache and the
\* fetches in flight are looked at again.
GetOptionChain(r) ==
  /\ request[r].caller = "called"
  /\ ~request[r].inSlot
  /\ Cardinality(InSlot) < SlotCapacity
  /\ LET k == request[r].key IN
     /\ LookUp(k)
     /\ \/ /\ HitInSlot(k)
           /\ request' = [request EXCEPT ![r] = OperationOver(r, "value")]
           /\ UNCHANGED <<inflight, fetch>>
        \/ /\ ~HitInSlot(k)
           /\ Joinable(k)
           /\ request' = [request EXCEPT ![r] = Awaited(r, k, TRUE, inflight[k])]
           /\ UNCHANGED <<inflight, fetch>>
        \/ /\ ~HitInSlot(k)
           /\ ~Joinable(k)
           /\ ~HasRoom
           /\ request' = [request EXCEPT ![r] = OperationOver(r, "failed")]
           /\ UNCHANGED <<inflight, fetch>>
        \/ /\ ~HitInSlot(k)
           /\ ~Joinable(k)
           /\ HasRoom
           /\ fetch[r].state = "none"
           /\ fetch' = [fetch EXCEPT ![r].state = "running", ![r].key = k]
           /\ inflight' = [inflight EXCEPT ![k] = r]
           /\ request' = [request EXCEPT ![r] = Waits("called", k, TRUE, r)]
-----------------------------------------------------------------------------
(* The task of a fetch.                                                    *)

\* The provider answers, or fails: _fetch_option_chain runs to its end.
Outcome(p) == IF Complete(p) THEN "value" ELSE "failed"

FetchEnds(o, p) ==
  /\ fetch[o].state = "running"
  /\ fetch' = [fetch EXCEPT ![o].state = "done", ![o].outcome = Outcome(p)]
  /\ IF Complete(p) THEN Store(fetch[o].key, Normalized(Ages(p)))
     ELSE UNCHANGED <<cache, cacheBytes>>
  /\ UNCHANGED <<inflight, request>>

PlacesWithout(o) == [k \in Keys |-> IF inflight[k] = o THEN NoRequest ELSE inflight[k]]

\* The done callbacks, in the order they were added: _finish_fetch, then the
\* shields.
FinishFetch(o) ==
  /\ fetch[o].state = "done"
  /\ fetch' = [fetch EXCEPT ![o] = NoFetch]
  /\ inflight' = PlacesWithout(o)
  /\ request' = [r \in Requests |->
       IF request[r].awaits = o
       THEN [request[r] EXCEPT !.awaits = NoRequest, !.woken = fetch[o].outcome]
       ELSE request[r]]
  /\ UNCHANGED <<cache, cacheBytes>>

\* The coroutine that awaited the fetch wakes, and its caller is answered.
WaiterResumes(r) ==
  /\ request[r].woken # "pending"
  /\ request' = [request EXCEPT ![r] =
       IF request[r].inSlot THEN OperationOver(r, request[r].woken)
       ELSE Answered(request[r].woken)]
  /\ UNCHANGED <<cache, cacheBytes, inflight, fetch>>
-----------------------------------------------------------------------------
(* Callers that stop waiting.  The fetch goes on: its shield is cancelled, *)
(* or its operation is drained in the slot.                                *)

\* asyncio.timeout around the joined fetch.
JoinTimeout(r) ==
  /\ request[r].caller = "joined"
  /\ request' = [request EXCEPT ![r] = Answered("failed")]
  /\ UNCHANGED <<cache, cacheBytes, inflight, fetch>>

\* The scheduler's queue timer, or its execution timer.
CallTimeout(r) ==
  /\ request[r].caller = "called"
  /\ request' = [request EXCEPT ![r] =
       IF request[r].inSlot THEN [@ EXCEPT !.caller = "failed"] ELSE Answered("failed")]
  /\ UNCHANGED <<cache, cacheBytes, inflight, fetch>>

\* The client disconnects.
Disconnect(r) ==
  /\ request[r].caller \in Waiting
  /\ request' = [request EXCEPT ![r] =
       IF request[r].inSlot THEN [@ EXCEPT !.caller = "gone"]
       ELSE Answered("gone")]
  /\ UNCHANGED <<cache, cacheBytes, inflight, fetch>>

\* _monotonic_clock() advances.  An age counts up to the time to live.
Tick ==
  /\ cache' = [i \in DOMAIN cache |->
                 [cache[i] EXCEPT !.age = IF @ < TTL THEN @ + 1 ELSE @]]
  /\ UNCHANGED <<cacheBytes, inflight, fetch, request>>

Next ==
  \/ \E r \in Requests :
       \/ \E k \in Keys : Arrive(r, k)
       \/ GetOptionChain(r)
       \/ \E p \in Payloads : FetchEnds(r, p)
       \/ FinishFetch(r)
       \/ WaiterResumes(r)
       \/ JoinTimeout(r)
       \/ CallTimeout(r)
       \/ Disconnect(r)
  \/ Tick

Spec == Init /\ [][Next]_vars
-----------------------------------------------------------------------------
(* Properties.                                                             *)

\* The byte counter, kept by hand through stores, replacements, expiries and
\* evictions, is the weight of what is cached; both bounds hold between any
\* two steps; no chain is cached twice.
CacheWithinBounds ==
  /\ cacheBytes = Weight(cache)
  /\ cacheBytes <= MaxBytes
  /\ Len(cache) <= MaxEntries
  /\ \A i, j \in DOMAIN cache : cache[i].key = cache[j].key => i = j

\* "coalesce": however callers time out, leave and come back, at most one
\* fetch runs per chain and at most MaxInflight in all, each at its place in
\* the table, and whoever awaits one asked for its chain.
OneFetchPerChain ==
  /\ \A o \in Requests : fetch[o].state # "none" => inflight[fetch[o].key] = o
  /\ \A k \in Keys : inflight[k] # NoRequest =>
       fetch[inflight[k]].state # "none" /\ fetch[inflight[k]].key = k
  /\ Cardinality({k \in Keys : inflight[k] # NoRequest}) <= MaxInflight
  /\ \A r \in Requests : request[r].awaits # NoRequest =>
       fetch[request[r].awaits].state # "none" /\ fetch[request[r].awaits].key = request[r].key

\* A chain is fetched only when it is not cached, and nothing else stores it
\* meanwhile: no call to Schwab is spent on a chain that could be served, and
\* a fetch never replaces a live entry.
FetchedChainIsNotCached ==
  \A o \in Requests : fetch[o].state = "running" => fetch[o].key \notin CachedKeys(cache)

\* The two calls that may answer r for k without waiting.
Asks(r, k) == Arrive(r, k) \/ (request[r].key = k /\ GetOptionChain(r))

\* The marks that a consumer reads to leave stale contracts out.
Marks(chain) ==
  <<[i \in DOMAIN chain.contracts |-> chain.contracts[i].stale],
    chain.stale, chain.partly, chain.untimed>>

\* The contracts of an entry, as a fetch would find them that ended now.
Aged(e) ==
  [i \in DOMAIN e.chain.contracts |->
     LET age == e.chain.contracts[i].age IN IF age = Unknown THEN age ELSE age + e.age]

\* "an unexpired cached chain with recomputed freshness": a caller that is
\* given a value without awaiting a fetch, before the queue or after it, gets a
\* chain that is younger than the time to live and marked as if it had just been
\* fetched, or the result of a fetch that is just done.
HitsAreCurrent ==
  [][\A r \in Requests, k \in Keys :
       Asks(r, k) /\ request'[r].caller = "value" =>
         \/ \E i \in DOMAIN cache :
              /\ cache[i].key = k /\ cache[i].age < TTL
              /\ Marks(Served(cache[i])) = Marks(Normalized(Aged(cache[i])))
         \/ \E o \in Requests : fetch[o].state = "done" /\ fetch[o].key = k]_vars
=============================================================================
