------------------------ MODULE OptionChainCacheProofs ------------------------
(***************************************************************************)
(* Theorems about OptionChainCache, for any number of requests and chains: *)
(* fetches of a chain are coalesced, whatever the cache holds; the cache   *)
(* stays within its bounds, holds no chain that is being fetched, and      *)
(* answers with nothing older than the TTL.                                *)
(***************************************************************************)
EXTENDS OptionChainCache, SequenceLemmas, FiniteSetTheorems

Places == {k \in Keys : inflight[k] # NoRequest}

TableTypes ==
  /\ inflight \in [Keys -> Requests \cup {NoRequest}]
  /\ fetch \in [Requests -> FetchRecord]
  /\ request \in [Requests -> RequestRecord]

\* Who waits for the scheduler, and every fetch, has a chain.
ChainsAreNamed ==
  /\ \A r \in Requests : request[r].caller = "called" => request[r].key \in Keys
  /\ \A o \in Requests : fetch[o].state # "none" => fetch[o].key \in Keys

TableInv == TableTypes /\ OneFetchPerChain /\ ChainsAreNamed /\ IsFiniteSet(Places)

\* The answer to a request has its type and awaits nothing.
LEMMA AnswersAwaitNothing ==
  ASSUME NEW answer \in {"absent"} \cup Waiting \cup Answers
  PROVE  /\ Answered(answer) \in RequestRecord
         /\ Answered(answer).awaits = NoRequest
         /\ Answered(answer).caller = answer
BY DEF Answered, Waits, RequestRecord

\* What _finish_operation leaves of a request is a request that awaits nothing.
LEMMA OverAwaitsNothing ==
  ASSUME TableTypes, NEW r \in Requests, NEW how \in Outcomes
  PROVE  /\ OperationOver(r, how) \in RequestRecord
         /\ OperationOver(r, how).awaits = NoRequest
         /\ OperationOver(r, how).caller # "called"
<1> DEFINE answer == IF request[r].caller = "called" THEN how ELSE request[r].caller
<1>1. request[r].caller \in {"absent"} \cup Waiting \cup Answers
  BY DEF TableTypes, RequestRecord
<1>2. answer \in {"absent"} \cup Waiting \cup Answers /\ answer # "called"
  BY <1>1 DEF Answers, Outcomes
<1>3. OperationOver(r, how) = Answered(answer)
  BY DEF OperationOver
<1> HIDE DEF answer
<1> QED
  BY <1>2, <1>3, AnswersAwaitNothing

\* Whoever joins a registered fetch awaits one that is of his chain.
LEMMA JoinersAskForTheChain ==
  ASSUME TableInv, NEW r \in Requests, NEW k \in Keys, NEW inSlot \in BOOLEAN,
         inflight[k] # NoRequest
  PROVE  LET q == Awaited(r, k, inSlot, inflight[k])
         IN  /\ q \in RequestRecord
             /\ q.awaits # NoRequest => q.awaits = inflight[k] /\ q.key = k
             /\ q.caller = "called" => q.key = k
<1> DEFINE o == inflight[k]
<1>1. o \in Requests /\ fetch[o] \in FetchRecord /\ fetch[o].outcome \in Outcomes
  BY DEF TableInv, TableTypes, FetchRecord
<1>2. CASE fetch[o].state = "done"
  BY <1>1, <1>2, OverAwaitsNothing, AnswersAwaitNothing DEF Awaited, TableInv, Answers, Outcomes
<1>3. CASE fetch[o].state # "done"
  <2>1. request[r].caller \in {"absent"} \cup Waiting \cup Answers
    BY DEF TableInv, TableTypes, RequestRecord
  <2> QED
    BY <1>1, <1>3, <2>1 DEF Awaited, Waits, RequestRecord, Waiting
<1> QED
  BY <1>2, <1>3

\* What a step that moves one handler has to show.
LEMMA HandlerSteps ==
  ASSUME TableInv, NEW r \in Requests, NEW q \in RequestRecord,
         q.awaits # NoRequest => fetch[q.awaits].state # "none" /\ fetch[q.awaits].key = q.key,
         q.caller = "called" => q.key \in Keys,
         request' = [request EXCEPT ![r] = q], UNCHANGED <<inflight, fetch>>
  PROVE  TableInv'
<1>1. TableTypes'
  BY DEF TableInv, TableTypes
<1>2. OneFetchPerChain'
  BY DEF TableInv, TableTypes, OneFetchPerChain
<1>3. IsFiniteSet(Places)' /\ ChainsAreNamed'
  BY DEF TableInv, TableTypes, Places, ChainsAreNamed
<1> QED
  BY <1>1, <1>2, <1>3 DEF TableInv
-----------------------------------------------------------------------------
\* A new fetch takes a free place, and there is one.
LEMMA FetchBegins ==
  ASSUME TableInv, NEW r \in Requests, NEW k \in Keys,
         inflight[k] = NoRequest, HasRoom, fetch[r].state = "none",
         fetch' = [fetch EXCEPT ![r].state = "running", ![r].key = k],
         inflight' = [inflight EXCEPT ![k] = r],
         request' = [request EXCEPT ![r] = Waits("called", k, TRUE, r)]
  PROVE  TableInv'
<1> USE NothingIsNone DEF TableInv, TableTypes
<1>1. TableTypes'
  <2>1. [fetch[r] EXCEPT !.state = "running", !.key = k] \in FetchRecord
    BY DEF FetchRecord
  <2>2. Waits("called", k, TRUE, r) \in RequestRecord
    BY DEF Waits, RequestRecord, Waiting
  <2> QED
    BY <2>1, <2>2
<1>2. /\ fetch'[r].state = "running" /\ fetch'[r].key = k
      /\ \A o \in Requests \ {r} : fetch'[o] = fetch[o]
  BY DEF FetchRecord
<1>3. Places' = Places \cup {k} /\ k \notin Places
  BY DEF Places
<1>4. IsFiniteSet(Places') /\ Cardinality(Places') = Cardinality(Places) + 1
  BY <1>3, FS_AddElement
<1>5. Cardinality(Places') <= MaxInflight
  <2>1. Cardinality(Places) \in Nat
    BY FS_CardinalityType
  <2> QED
    BY <1>4, <2>1, BoundsArePositive DEF HasRoom, Places
<1>6. \A o \in Requests : fetch'[o].state # "none" => inflight'[fetch'[o].key] = o
  <2> SUFFICES ASSUME NEW o \in Requests, fetch'[o].state # "none"
               PROVE  inflight'[fetch'[o].key] = o
    OBVIOUS
  <2>1. CASE o = r
    BY <1>2, <2>1
  <2>2. CASE o # r
    BY <1>2, <2>2 DEF OneFetchPerChain
  <2> QED
    BY <2>1, <2>2
<1>7. \A j \in Keys : inflight'[j] # NoRequest =>
        fetch'[inflight'[j]].state # "none" /\ fetch'[inflight'[j]].key = j
  <2> SUFFICES ASSUME NEW j \in Keys, inflight'[j] # NoRequest
               PROVE  fetch'[inflight'[j]].state # "none" /\ fetch'[inflight'[j]].key = j
    OBVIOUS
  <2>1. CASE j = k
    BY <1>2, <2>1
  <2>2. CASE j # k
    <3>1. inflight'[j] = inflight[j] /\ inflight[j] \in Requests
      BY <2>2
    <3>2. fetch[inflight[j]].state # "none" /\ fetch[inflight[j]].key = j
      BY <3>1 DEF OneFetchPerChain
    <3> QED
      BY <1>2, <3>1, <3>2
  <2> QED
    BY <2>1, <2>2
<1>8. \A q \in Requests : request'[q].awaits # NoRequest =>
        fetch'[request'[q].awaits].state # "none"
        /\ fetch'[request'[q].awaits].key = request'[q].key
  <2> SUFFICES ASSUME NEW q \in Requests, request'[q].awaits # NoRequest
               PROVE  /\ fetch'[request'[q].awaits].state # "none"
                      /\ fetch'[request'[q].awaits].key = request'[q].key
    OBVIOUS
  <2>1. CASE q = r
    BY <1>2, <2>1 DEF Waits
  <2>2. CASE q # r
    <3>1. request'[q] = request[q] /\ request[q].awaits \in Requests
      BY <2>2 DEF RequestRecord
    <3>2. /\ fetch[request[q].awaits].state # "none"
          /\ fetch[request[q].awaits].key = request[q].key
      BY <3>1 DEF OneFetchPerChain
    <3> QED
      BY <1>2, <3>1, <3>2
  <2> QED
    BY <2>1, <2>2
<1>9. ChainsAreNamed'
  BY <1>2 DEF ChainsAreNamed, Waits
<1> QED
  BY <1>1, <1>4, <1>5, <1>6, <1>7, <1>8, <1>9 DEF OneFetchPerChain, Places

\* A fetch that ends stays at its place until its callbacks run.
LEMMA FetchEndsKeepsItsPlace ==
  ASSUME TableInv, NEW o \in Requests, NEW how \in Outcomes, fetch[o].state = "running",
         fetch' = [fetch EXCEPT ![o].state = "done", ![o].outcome = how],
         UNCHANGED <<inflight, request>>
  PROVE  TableInv'
<1>1. fetch[o] \in FetchRecord
  BY DEF TableInv, TableTypes
<1>2. /\ fetch'[o] \in FetchRecord /\ fetch'[o].state = "done" /\ fetch'[o].key = fetch[o].key
      /\ \A q \in Requests \ {o} : fetch'[q] = fetch[q]
  BY <1>1 DEF TableInv, TableTypes, FetchRecord
<1>3. TableTypes'
  BY <1>2 DEF TableInv, TableTypes
<1>4. \A q \in Requests : fetch'[q].key = fetch[q].key
                          /\ (fetch'[q].state = "none" <=> fetch[q].state = "none")
  BY <1>2
<1>5. OneFetchPerChain'
  BY <1>4 DEF TableInv, TableTypes, OneFetchPerChain, RequestRecord
<1>6. ChainsAreNamed'
  BY <1>4 DEF TableInv, ChainsAreNamed
<1> QED
  BY <1>3, <1>5, <1>6 DEF TableInv, Places

\* The callbacks of a fetch give its place back and let its waiters go.
LEMMA FetchFinishes ==
  ASSUME TableInv, NEW o \in Requests, FinishFetch(o)
  PROVE  TableInv'
<1> USE NothingIsNone DEF TableInv, TableTypes
<1>1. /\ fetch[o].state = "done" /\ fetch[o].outcome \in Outcomes
      /\ fetch' = [fetch EXCEPT ![o] = NoFetch]
      /\ inflight' = [k \in Keys |-> IF inflight[k] = o THEN NoRequest ELSE inflight[k]]
      /\ request' = [r \in Requests |->
           IF request[r].awaits = o
           THEN [request[r] EXCEPT !.awaits = NoRequest, !.woken = fetch[o].outcome]
           ELSE request[r]]
  BY DEF FinishFetch, PlacesWithout, FetchRecord
<1>2. NoFetch \in FetchRecord /\ NoFetch.state = "none"
  BY DEF NoFetch, FetchRecord, Outcomes
<1>3. \A r \in Requests :
        /\ request'[r] \in RequestRecord
        /\ request'[r].awaits # NoRequest => request'[r] = request[r] /\ request[r].awaits # o
  BY <1>1 DEF RequestRecord
<1>4. TableTypes'
  BY <1>1, <1>2, <1>3
<1>5. \A q \in Requests : fetch'[q].state # "none" => q # o /\ fetch'[q] = fetch[q]
  BY <1>1, <1>2
<1>6. \A k \in Keys : inflight'[k] # NoRequest => inflight[k] # o /\ inflight'[k] = inflight[k]
  BY <1>1
<1>7. Places' \subseteq Places
  BY <1>6 DEF Places
<1>8. IsFiniteSet(Places') /\ Cardinality(Places') <= Cardinality(Places)
  BY <1>7, FS_Subset
<1>9. Cardinality(Places') <= MaxInflight
  <2>1. Cardinality(Places) \in Nat /\ Cardinality(Places') \in Nat
    BY <1>8, FS_CardinalityType
  <2> QED
    BY <1>8, <2>1, BoundsArePositive DEF OneFetchPerChain, Places
<1>10. \A q \in Requests : fetch'[q].state # "none" => inflight'[fetch'[q].key] = q
  <2> SUFFICES ASSUME NEW q \in Requests, fetch'[q].state # "none"
               PROVE  inflight'[fetch'[q].key] = q
    OBVIOUS
  <2>1. q # o /\ fetch'[q] = fetch[q] /\ inflight[fetch[q].key] = q
    BY <1>5 DEF OneFetchPerChain
  <2>2. fetch[q].key \in Keys
    BY <1>5 DEF ChainsAreNamed
  <2> QED
    BY <1>1, <2>1, <2>2
<1>11. \A k \in Keys : inflight'[k] # NoRequest =>
         fetch'[inflight'[k]].state # "none" /\ fetch'[inflight'[k]].key = k
  <2> SUFFICES ASSUME NEW k \in Keys, inflight'[k] # NoRequest
               PROVE  fetch'[inflight'[k]].state # "none" /\ fetch'[inflight'[k]].key = k
    OBVIOUS
  <2>1. inflight'[k] = inflight[k] /\ inflight[k] # o /\ inflight[k] \in Requests
    BY <1>6
  <2>2. fetch[inflight[k]].state # "none" /\ fetch[inflight[k]].key = k
    BY <2>1 DEF OneFetchPerChain
  <2>3. fetch'[inflight[k]] = fetch[inflight[k]]
    BY <1>1, <2>1
  <2> QED
    BY <2>1, <2>2, <2>3
<1>12. \A r \in Requests : request'[r].awaits # NoRequest =>
         fetch'[request'[r].awaits].state # "none"
         /\ fetch'[request'[r].awaits].key = request'[r].key
  BY <1>1, <1>3 DEF OneFetchPerChain, RequestRecord
<1>13. ChainsAreNamed'
  <2>1. \A r \in Requests : request'[r].caller = request[r].caller /\ request'[r].key = request[r].key
    BY <1>1 DEF RequestRecord
  <2> QED
    BY <1>5, <2>1 DEF ChainsAreNamed
<1> QED
  BY <1>4, <1>8, <1>9, <1>10, <1>11, <1>12, <1>13 DEF OneFetchPerChain, Places
-----------------------------------------------------------------------------
\* A step of the cache alone is none for the table.
LEMMA TableStutters ==
  ASSUME TableInv, UNCHANGED <<inflight, fetch, request>>
  PROVE  TableInv'
BY DEF TableInv, TableTypes, OneFetchPerChain, ChainsAreNamed, Places

\* At the start nobody fetches, and nobody waits.
LEMMA TableInit == Init => TableInv
<1> SUFFICES ASSUME Init PROVE TableInv
  OBVIOUS
<1>1. TableTypes
  <2>1. NoFetch \in FetchRecord
    BY DEF NoFetch, FetchRecord, Outcomes
  <2> QED
    BY <2>1, AnswersAwaitNothing DEF Init, TableTypes
<1>2. Places = {}
  BY DEF Init, Places
<1>3. IsFiniteSet(Places) /\ Cardinality(Places) = 0
  BY <1>2, FS_EmptySet
<1>4. OneFetchPerChain
  BY <1>3, AnswersAwaitNothing, BoundsArePositive DEF Init, OneFetchPerChain, Places, NoFetch
<1>5. ChainsAreNamed
  BY AnswersAwaitNothing DEF Init, ChainsAreNamed, NoFetch
<1> QED
  BY <1>1, <1>3, <1>4, <1>5 DEF TableInv

\* option_chain, up to its first await.
LEMMA ArriveSteps ==
  ASSUME TableInv, NEW r \in Requests, NEW k \in Keys, Arrive(r, k)
  PROVE  TableInv'
<1>1. CASE Hit(k)
  <2>1. request' = [request EXCEPT ![r] = Answered("value")] /\ UNCHANGED <<inflight, fetch>>
    BY <1>1 DEF Arrive
  <2>2. Answered("value") \in RequestRecord /\ Answered("value").awaits = NoRequest
        /\ Answered("value").caller # "called"
    BY AnswersAwaitNothing DEF Answers, Outcomes
  <2> QED
    BY <2>1, <2>2, HandlerSteps
<1>2. CASE ~Hit(k) /\ Joinable(k)
  <2> DEFINE q == Awaited(r, k, FALSE, inflight[k])
  <2>1. request' = [request EXCEPT ![r] = q] /\ UNCHANGED <<inflight, fetch>>
    BY <1>2 DEF Arrive
  <2>2. /\ inflight[k] # NoRequest
        /\ fetch[inflight[k]].state # "none" /\ fetch[inflight[k]].key = k
    BY <1>2 DEF Joinable, TableInv, OneFetchPerChain
  <2>3. /\ q \in RequestRecord
        /\ q.awaits # NoRequest => q.awaits = inflight[k] /\ q.key = k
        /\ q.caller = "called" => q.key = k
    BY <2>2, JoinersAskForTheChain
  <2> HIDE DEF q
  <2> QED
    BY <2>1, <2>2, <2>3, HandlerSteps
<1>3. CASE ~Hit(k) /\ ~Joinable(k)
  <2> DEFINE q == Waits("called", k, FALSE, NoRequest)
  <2>1. request' = [request EXCEPT ![r] = q] /\ UNCHANGED <<inflight, fetch>>
    BY <1>3 DEF Arrive
  <2>2. q \in RequestRecord /\ q.awaits = NoRequest /\ q.key = k
    BY DEF Waits, RequestRecord, Waiting
  <2> HIDE DEF q
  <2> QED
    BY <2>1, <2>2, HandlerSteps
<1> QED
  BY <1>1, <1>2, <1>3

\* get_option_chain in the slot, up to its first await.
LEMMA GetOptionChainSteps ==
  ASSUME TableInv, NEW r \in Requests, GetOptionChain(r)
  PROVE  TableInv'
<1> DEFINE k == request[r].key
<1>1. k \in Keys /\ request[r].caller = "called"
  BY DEF GetOptionChain, TableInv, ChainsAreNamed
<1>2. ASSUME NEW how \in Outcomes, request' = [request EXCEPT ![r] = OperationOver(r, how)],
             UNCHANGED <<inflight, fetch>>
      PROVE  TableInv'
  <2>1. /\ OperationOver(r, how) \in RequestRecord
        /\ OperationOver(r, how).awaits = NoRequest
        /\ OperationOver(r, how).caller # "called"
    BY OverAwaitsNothing DEF TableInv
  <2> QED
    BY <1>2, <2>1, HandlerSteps
<1>3. CASE HitInSlot(k)
  BY <1>2, <1>3 DEF GetOptionChain, Outcomes
<1>4. CASE ~HitInSlot(k) /\ Joinable(k)
  <2> DEFINE q == Awaited(r, k, TRUE, inflight[k])
  <2>1. request' = [request EXCEPT ![r] = q] /\ UNCHANGED <<inflight, fetch>>
    BY <1>4 DEF GetOptionChain
  <2>2. /\ inflight[k] # NoRequest
        /\ fetch[inflight[k]].state # "none" /\ fetch[inflight[k]].key = k
    BY <1>1, <1>4 DEF Joinable, TableInv, OneFetchPerChain
  <2>3. /\ q \in RequestRecord
        /\ q.awaits # NoRequest => q.awaits = inflight[k] /\ q.key = k
        /\ q.caller = "called" => q.key = k
    BY <1>1, <2>2, JoinersAskForTheChain
  <2> HIDE DEF q
  <2> QED
    BY <1>1, <2>1, <2>2, <2>3, HandlerSteps
<1>5. CASE ~HitInSlot(k) /\ ~Joinable(k) /\ ~HasRoom
  BY <1>2, <1>5 DEF GetOptionChain, Outcomes
<1>6. CASE ~HitInSlot(k) /\ ~Joinable(k) /\ HasRoom
  <2>1. /\ inflight[k] = NoRequest /\ fetch[r].state = "none"
        /\ fetch' = [fetch EXCEPT ![r].state = "running", ![r].key = k]
        /\ inflight' = [inflight EXCEPT ![k] = r]
        /\ request' = [request EXCEPT ![r] = Waits("called", k, TRUE, r)]
    BY <1>6 DEF GetOptionChain, Joinable
  <2> HIDE DEF k
  <2> QED
    BY <1>1, <1>6, <2>1, FetchBegins
<1> QED
  BY <1>3, <1>4, <1>5, <1>6

\* A caller that stops waiting keeps what its operation awaits, or nothing.
LEMMA LeavingSteps ==
  ASSUME TableInv, NEW r \in Requests, JoinTimeout(r) \/ CallTimeout(r) \/ Disconnect(r)
  PROVE  TableInv'
<1>1. /\ UNCHANGED <<inflight, fetch>>
      /\ \E answer \in Answers :
           \/ request' = [request EXCEPT ![r] = Answered(answer)]
           \/ request' = [request EXCEPT ![r] = [request[r] EXCEPT !.caller = answer]]
  <2>1. CASE JoinTimeout(r)
    BY <2>1 DEF JoinTimeout, Answers, Outcomes
  <2>2. CASE CallTimeout(r)
    BY <2>2 DEF CallTimeout, Answers, Outcomes
  <2>3. CASE Disconnect(r)
    BY <2>3 DEF Disconnect, Answers, Outcomes
  <2> QED
    BY <2>1, <2>2, <2>3
<1>2. PICK answer \in Answers :
        \/ request' = [request EXCEPT ![r] = Answered(answer)]
        \/ request' = [request EXCEPT ![r] = [request[r] EXCEPT !.caller = answer]]
  BY <1>1
<1>3. answer # "called"
  BY DEF Answers, Outcomes
<1>4. CASE request' = [request EXCEPT ![r] = Answered(answer)]
  BY <1>1, <1>3, <1>4, AnswersAwaitNothing, HandlerSteps
<1>5. CASE request' = [request EXCEPT ![r] = [request[r] EXCEPT !.caller = answer]]
  <2> DEFINE q == [request[r] EXCEPT !.caller = answer]
  <2>1. q \in RequestRecord /\ q.awaits = request[r].awaits /\ q.key = request[r].key
        /\ q.caller = answer
    BY DEF TableInv, TableTypes, RequestRecord
  <2>2. q.awaits # NoRequest => fetch[q.awaits].state # "none" /\ fetch[q.awaits].key = q.key
    BY <2>1 DEF TableInv, OneFetchPerChain
  <2> HIDE DEF q
  <2>3. request' = [request EXCEPT ![r] = q]
    BY <1>5 DEF q
  <2> QED
    BY <1>1, <1>3, <2>1, <2>2, <2>3, HandlerSteps
<1> QED
  BY <1>2, <1>4, <1>5

\* The waiter of a fetch takes its result.
LEMMA ResumingSteps ==
  ASSUME TableInv, NEW r \in Requests, WaiterResumes(r)
  PROVE  TableInv'
<1> DEFINE q == IF request[r].inSlot THEN OperationOver(r, request[r].woken)
                ELSE Answered(request[r].woken)
<1>1. request' = [request EXCEPT ![r] = q] /\ UNCHANGED <<inflight, fetch>>
  BY DEF WaiterResumes
<1>2. request[r].woken \in Outcomes
  BY DEF WaiterResumes, TableInv, TableTypes, RequestRecord
<1>3. q \in RequestRecord /\ q.awaits = NoRequest /\ q.caller # "called"
  BY <1>2, OverAwaitsNothing, AnswersAwaitNothing DEF TableInv, Answers, Outcomes
<1> HIDE DEF q
<1> QED
  BY <1>1, <1>3, HandlerSteps

\* Every step keeps the places of the in-flight table.
LEMMA TableSteps ==
  ASSUME TableInv, Next
  PROVE  TableInv'
<1>1. CASE \E r \in Requests : \E k \in Keys : Arrive(r, k)
  BY <1>1, ArriveSteps
<1>2. CASE \E r \in Requests : GetOptionChain(r)
  BY <1>2, GetOptionChainSteps
<1>3. ASSUME NEW o \in Requests, NEW p \in Payloads, FetchEnds(o, p)
      PROVE  TableInv'
  <2>1. Outcome(p) \in Outcomes
    BY DEF Outcome, Outcomes
  <2> QED
    BY <1>3, <2>1, FetchEndsKeepsItsPlace DEF FetchEnds
<1>4. CASE \E o \in Requests : FinishFetch(o)
  BY <1>4, FetchFinishes
<1>5. CASE \E r \in Requests : WaiterResumes(r)
  BY <1>5, ResumingSteps
<1>6. CASE \E r \in Requests : JoinTimeout(r) \/ CallTimeout(r) \/ Disconnect(r)
  BY <1>6, LeavingSteps
<1>7. CASE Tick
  BY <1>7, TableStutters DEF Tick
<1> QED
  BY <1>1, <1>2, <1>3, <1>4, <1>5, <1>6, <1>7 DEF Next

\* "coalesce": at most one fetch per chain, at most MaxInflight in all, and who
\* awaits a fetch asked for its chain, for any number of requests and chains.
THEOREM ChainsAreCoalesced == Spec => []OneFetchPerChain
<1>1. TableInv /\ [Next]_vars => TableInv'
  BY TableSteps, TableStutters DEF vars
<1>2. TableInv => OneFetchPerChain
  BY DEF TableInv
<1> QED
  BY TableInit, <1>1, <1>2, PTL DEF Spec

-----------------------------------------------------------------------------
(* The cache.                                                              *)

\* What was normalized and can be kept is not empty.
LEMMA KeptChainsAreTyped ==
  ASSUME NEW p \in Payloads, Complete(p), Len(Normalized(Ages(p)).contracts) <= MaxBytes
  PROVE  /\ Normalized(Ages(p)) \in Chains
         /\ Len(Normalized(Ages(p)).contracts) \in 1 .. MaxBytes
<1> DEFINE ages == Ages(p)
<1>1. ages \in Seq(Int \cup {Unknown}) /\ Len(ages) \in Nat /\ Len(ages) # 0
  <2>1. p.calls \in Seq(Int \cup {Unknown}) /\ p.puts \in Seq(Int \cup {Unknown})
    BY PayloadsAreTimed
  <2>2. p.calls # <<>> /\ p.puts # <<>>
    BY DEF Complete
  <2>3. Len(p.calls) \in Nat \ {0} /\ Len(p.puts) \in Nat
    BY <2>1, <2>2, EmptySeq
  <2>4. ages \in Seq(Int \cup {Unknown}) /\ Len(ages) = Len(p.calls) + Len(p.puts)
    BY <2>1, ConcatProperties DEF Ages
  <2>5. \A m \in Nat \ {0}, n \in Nat : m + n \in Nat /\ m + n # 0
    OBVIOUS
  <2>6. Len(ages) \in Nat /\ Len(ages) # 0
    BY <2>3, <2>4, <2>5, Zenon
  <2> QED
    BY <2>4, <2>6
<1> HIDE DEF ages
<1> DEFINE cs == [i \in DOMAIN ages |-> Contract(ages[i])]
<1>2. Normalized(ages).contracts = cs
  BY DEF Normalized
<1>3. Len(cs) = Len(ages)
  BY <1>1
<1>4. Normalized(ages) \in Chains
  BY DEF Chains, ages
<1> QED
  BY <1>1, <1>2, <1>3, <1>4, BoundsArePositive DEF ages

\* An entry weighs a natural number of bytes.
LEMMA EntriesAreMeasured ==
  ASSUME NEW S \in SUBSET EntryRecord
  PROVE  Measured(S)
BY DEF Measured, EntryRecord

CacheInv(S) == cache \in Seq(S) /\ CacheWithinBounds

\* CacheWithinBounds in the words of the lemmas.
LEMMA BoundsOfTheCache ==
  /\ CacheWithinBounds <=> WithinBounds(cache, cacheBytes, MaxEntries, MaxBytes)
  /\ CacheWithinBounds' <=> WithinBounds(cache', cacheBytes', MaxEntries, MaxBytes)
BY DEF CacheWithinBounds, WithinBounds, DistinctKeys

\* What pruning leaves and what it drops.
LEMMA PruningKeepsTheBounds ==
  ASSUME NEW S \in SUBSET EntryRecord, CacheInv(S)
  PROVE  /\ Pruned(cache) \in Seq(S)
         /\ WithinBounds(Pruned(cache), PrunedBytes(cache, cacheBytes), MaxEntries, MaxBytes)
<1>1. /\ cache \in Seq(S) /\ WithinBounds(cache, cacheBytes, MaxEntries, MaxBytes)
      /\ MaxEntries \in Nat /\ MaxBytes \in Nat
  BY BoundsOfTheCache, BoundsArePositive DEF CacheInv
<1> DEFINE X == Range(cache) \ Expired(cache)
           Y == Expired(cache)
<1>2. \A i \in 1 .. Len(cache) : cache[i] \in X <=> cache[i] \notin Y
  <2>1. \A i \in 1 .. Len(cache) : cache[i] \in Range(cache)
    BY <1>1 DEF Range
  <2> QED
    BY <2>1
<1>3. Measured(S)
  BY EntriesAreMeasured
<1> HIDE DEF X, Y
<1> QED
  BY <1>1, <1>2, <1>3, DroppingKeepsTheBounds DEF Pruned, PrunedBytes, X, Y

\* cached_option_chain keeps the bounds and caches nothing.
LEMMA LookUpKeepsTheBounds ==
  ASSUME NEW S \in SUBSET EntryRecord, CacheInv(S), NEW k, LookUp(k)
  PROVE  CacheInv(S)'
<1>1. /\ Pruned(cache) \in Seq(S)
      /\ WithinBounds(Pruned(cache), PrunedBytes(cache, cacheBytes), MaxEntries, MaxBytes)
  BY PruningKeepsTheBounds
<1>2. Measured(S) /\ MaxEntries \in Nat /\ MaxBytes \in Nat
  BY EntriesAreMeasured, BoundsArePositive
<1> DEFINE c == Pruned(cache)
           bytes == PrunedBytes(cache, cacheBytes)
<1>3. cacheBytes' = bytes /\ cache' = IF k \in CachedKeys(c) THEN Touched(c, k) ELSE c
  BY DEF LookUp, Hit
<1> HIDE DEF c, bytes
<1>4. cache' \in Seq(S) /\ WithinBounds(cache', cacheBytes', MaxEntries, MaxBytes)
  <2>1. CASE k \in CachedKeys(c)
    BY <1>1, <1>2, <1>3, <2>1, TouchingKeepsTheBounds DEF c, bytes
  <2>2. CASE k \notin CachedKeys(c)
    BY <1>1, <1>3, <2>2 DEF c, bytes
  <2> QED
    BY <2>1, <2>2
<1> QED
  BY <1>4, BoundsOfTheCache DEF CacheInv

\* The tail of _fetch_option_chain keeps the bounds.
LEMMA StoreKeepsTheBounds ==
  ASSUME NEW S \in SUBSET EntryRecord, CacheInv(S), NEW k, NEW p \in Payloads, Complete(p),
         \A bytes \in 1 .. MaxBytes, chain \in Chains :
           [key |-> k, bytes |-> bytes, age |-> 0, chain |-> chain] \in S,
         Store(k, Normalized(Ages(p)))
  PROVE  CacheInv(S)'
<1> DEFINE chain == Normalized(Ages(p))
           size == Len(chain.contracts)
           entry == [key |-> k, bytes |-> size, age |-> 0, chain |-> chain]
<1>1. CASE size > MaxBytes
  BY <1>1 DEF Store, CacheInv, CacheWithinBounds
<1>2. CASE ~(size > MaxBytes)
  <2>1. size <= MaxBytes
    BY <1>2, BoundsArePositive
  <2>2. entry \in S
    BY <2>1, KeptChainsAreTyped
  <2>3. entry.key = k /\ entry.bytes = size
    OBVIOUS
  <2> DEFINE stored == Append(Without(cache, k), entry)
             charged == cacheBytes - BytesOf(cache, k) + size
             n == Evictions(stored, charged, MaxEntries, MaxBytes)
  <2>4. cache' = Kept(stored, n) /\ cacheBytes' = charged - Weight(SubSeq(stored, 1, n))
    BY <1>2 DEF Store
  <2>5. /\ cache \in Seq(S) /\ DistinctKeys(cache) /\ cacheBytes = Weight(cache)
        /\ Measured(S) /\ MaxEntries \in Nat /\ MaxBytes \in Nat
    BY BoundsOfTheCache, EntriesAreMeasured, BoundsArePositive DEF CacheInv, WithinBounds
  <2> HIDE DEF entry, size
  <2>6. /\ Kept(stored, n) \in Seq(S)
        /\ WithinBounds(Kept(stored, n), charged - Weight(SubSeq(stored, 1, n)), MaxEntries, MaxBytes)
    BY <2>2, <2>3, <2>5, StoringKeepsTheBounds
  <2> QED
    BY <2>4, <2>6, BoundsOfTheCache DEF CacheInv
<1> QED
  BY <1>1, <1>2

\* A clock tick makes the entries older and nothing else.
LEMMA TickKeepsTheBounds ==
  ASSUME NEW S \in SUBSET EntryRecord, CacheInv(S), Tick,
         \A e \in S, age \in 0 .. TTL : [e EXCEPT !.age = age] \in S
  PROVE  CacheInv(S)'
<1>1. /\ cache \in Seq(S) /\ WithinBounds(cache, cacheBytes, MaxEntries, MaxBytes)
      /\ Measured(S)
  BY BoundsOfTheCache, EntriesAreMeasured DEF CacheInv
<1> DEFINE Older(e) == [e EXCEPT !.age = IF @ < TTL THEN @ + 1 ELSE @]
<1>2. /\ cache' = [i \in 1 .. Len(cache) |-> Older(cache[i])]
      /\ cacheBytes' = cacheBytes
  BY <1>1 DEF Tick
<1>3. ASSUME NEW i \in 1 .. Len(cache)
      PROVE  /\ Older(cache[i]) \in S
             /\ Older(cache[i]).bytes = cache[i].bytes /\ Older(cache[i]).key = cache[i].key
  <2>1. cache[i] \in S /\ cache[i] \in EntryRecord
    BY <1>1
  <2>2. (IF cache[i].age < TTL THEN cache[i].age + 1 ELSE cache[i].age) \in 0 .. TTL
    BY <2>1, BoundsArePositive DEF EntryRecord
  <2>3. Older(cache[i]).bytes = cache[i].bytes /\ Older(cache[i]).key = cache[i].key
    BY <2>1 DEF EntryRecord
  <2> QED
    BY <2>1, <2>2, <2>3
<1> HIDE DEF Older
<1>4. Len(cache) \in Nat
  BY <1>1
<1>5. cache' \in Seq(S) /\ Len(cache') = Len(cache)
  BY <1>2, <1>3, <1>4
<1>6. \A i \in 1 .. Len(cache) : cache'[i].bytes = cache[i].bytes /\ cache'[i].key = cache[i].key
  BY <1>2, <1>3
<1> QED
  BY <1>1, <1>2, <1>5, <1>6, AgeingKeepsTheBounds, BoundsOfTheCache DEF CacheInv

\* A key that is not cached, in the words of the lemmas.
LEMMA NotCached ==
  ASSUME NEW k
  PROVE  /\ OtherKeys(EntryRecord, k) \in SUBSET EntryRecord
         /\ CacheInv(OtherKeys(EntryRecord, k)) <=> CacheInv(EntryRecord) /\ k \notin CachedKeys(cache)
         /\ CacheInv(OtherKeys(EntryRecord, k))' =>
              CacheInv(EntryRecord)' /\ k \notin CachedKeys(cache)'
<1> DEFINE S == OtherKeys(EntryRecord, k)
<1>1. S \in SUBSET EntryRecord
  BY DEF OtherKeys
<1>2. \A c \in Seq(S) : c \in Seq(EntryRecord)
  BY <1>1
<1> HIDE DEF S
<1>3. CacheInv(S) <=> CacheInv(EntryRecord) /\ k \notin CachedKeys(cache)
  BY <1>2, KeyIsNotCached DEF CacheInv, S
<1>4. ASSUME CacheInv(S)' PROVE CacheInv(EntryRecord)' /\ k \notin CachedKeys(cache)'
  <2>1. cache' \in Seq(EntryRecord) /\ cache' \in Seq(S)
    BY <1>2, <1>4 DEF CacheInv
  <2>2. k \notin CachedKeys(cache')
    BY <2>1, KeyIsNotCached DEF S
  <2>3. CachedKeys(cache') = CachedKeys(cache)'
    BY DEF CachedKeys
  <2> QED
    BY <1>4, <2>1, <2>2, <2>3 DEF CacheInv
<1> QED
  BY <1>1, <1>3, <1>4 DEF S

\* The steps that leave the cache alone.
LEMMA CacheStutters ==
  ASSUME NEW S, CacheInv(S), UNCHANGED <<cache, cacheBytes>>
  PROVE  CacheInv(S)'
BY DEF CacheInv, CacheWithinBounds

\* One step, for entries whose keys it may store.
LEMMA CacheSteps ==
  ASSUME NEW S \in SUBSET EntryRecord, TableInv, CacheInv(S), Next,
         \A e \in S, age \in 0 .. TTL : [e EXCEPT !.age = age] \in S,
         \A o \in Requests, bytes \in 1 .. MaxBytes, chain \in Chains :
           fetch[o].state = "running" /\ fetch'[o].state # "running" =>
             [key |-> fetch[o].key, bytes |-> bytes, age |-> 0, chain |-> chain] \in S
  PROVE  CacheInv(S)'
<1>1. CASE \E r \in Requests, k \in Keys : Arrive(r, k)
  BY <1>1, LookUpKeepsTheBounds DEF Arrive
<1>2. CASE \E r \in Requests : GetOptionChain(r)
  BY <1>2, LookUpKeepsTheBounds DEF GetOptionChain
<1>3. ASSUME NEW o \in Requests, NEW p \in Payloads, FetchEnds(o, p)
      PROVE  CacheInv(S)'
  <2>1. CASE Complete(p)
    <3>1. fetch[o].state = "running" /\ fetch'[o].state = "done"
      BY <1>3 DEF FetchEnds, TableInv, TableTypes, FetchRecord
    <3>2. Store(fetch[o].key, Normalized(Ages(p)))
      BY <1>3, <2>1 DEF FetchEnds
    <3>3. \A bytes \in 1 .. MaxBytes, chain \in Chains :
            [key |-> fetch[o].key, bytes |-> bytes, age |-> 0, chain |-> chain] \in S
      BY <3>1
    <3> QED
      BY <2>1, <3>2, <3>3, StoreKeepsTheBounds
  <2>2. CASE ~Complete(p)
    BY <1>3, <2>2, CacheStutters DEF FetchEnds
  <2> QED
    BY <2>1, <2>2
<1>4. CASE \E r \in Requests :
             FinishFetch(r) \/ WaiterResumes(r) \/ JoinTimeout(r) \/ CallTimeout(r) \/ Disconnect(r)
  BY <1>4, CacheStutters DEF FinishFetch, WaiterResumes, JoinTimeout, CallTimeout, Disconnect
<1>5. CASE Tick
  BY <1>5, TickKeepsTheBounds
<1> QED
  BY <1>1, <1>2, <1>3, <1>4, <1>5 DEF Next

\* What a step may do to a fetch.
LEMMA FetchChanges ==
  ASSUME TableInv, Next, NEW o \in Requests
  PROVE  \/ fetch'[o] = fetch[o]
         \/ /\ fetch[o].state = "none" /\ fetch'[o].state = "running"
            /\ fetch'[o].key = request[o].key
            /\ GetOptionChain(o) /\ ~Hit(request[o].key)
         \/ /\ fetch[o].state = "running" /\ fetch'[o].state = "done"
            /\ fetch'[o].key = fetch[o].key
         \/ fetch[o].state = "done" /\ fetch'[o].state = "none"
<1> USE DEF TableInv, TableTypes
<1>1. CASE \E r \in Requests, k \in Keys : Arrive(r, k)
  BY <1>1 DEF Arrive
<1>2. ASSUME NEW r \in Requests, GetOptionChain(r), fetch'[o] # fetch[o]
      PROVE  /\ o = r /\ ~Hit(request[r].key)
             /\ fetch[r].state = "none" /\ fetch'[r].state = "running"
             /\ fetch'[r].key = request[r].key
  <2>1. /\ fetch[r].state = "none" /\ ~Hit(request[r].key)
        /\ fetch' = [fetch EXCEPT ![r].state = "running", ![r].key = request[r].key]
    BY <1>2 DEF GetOptionChain, HitInSlot
  <2> QED
    BY <1>2, <2>1 DEF FetchRecord
<1>3. ASSUME NEW r \in Requests, NEW p \in Payloads, FetchEnds(r, p), fetch'[o] # fetch[o]
      PROVE  /\ fetch[o].state = "running" /\ fetch'[o].state = "done"
             /\ fetch'[o].key = fetch[o].key
  BY <1>3 DEF FetchEnds, FetchRecord
<1>4. ASSUME NEW r \in Requests, FinishFetch(r), fetch'[o] # fetch[o]
      PROVE  fetch[o].state = "done" /\ fetch'[o].state = "none"
  BY <1>4 DEF FinishFetch, NoFetch
<1>5. CASE \E r \in Requests :
             WaiterResumes(r) \/ JoinTimeout(r) \/ CallTimeout(r) \/ Disconnect(r)
  BY <1>5 DEF WaiterResumes, JoinTimeout, CallTimeout, Disconnect
<1>6. CASE Tick
  BY <1>6 DEF Tick
<1> QED
  BY <1>1, <1>2, <1>3, <1>4, <1>5, <1>6 DEF Next

Inv == TableInv /\ CacheInv(EntryRecord) /\ FetchedChainIsNotCached

\* The cache starts empty.
LEMMA InitInv == Init => Inv
<1> SUFFICES ASSUME Init PROVE Inv
  OBVIOUS
<1>1. TableInv
  BY TableInit
<1>2. CacheInv(EntryRecord)
  BY EmptyWeighsNothing, BoundsArePositive DEF Init, CacheInv, CacheWithinBounds
<1>3. FetchedChainIsNotCached
  BY DEF Init, FetchedChainIsNotCached, NoFetch
<1> QED
  BY <1>1, <1>2, <1>3 DEF Inv

\* Every step keeps the table, the bounds of the cache, and fetched chains out of it.
LEMMA NextInv ==
  ASSUME Inv, Next
  PROVE  Inv'
<1>1. TableInv'
  BY TableSteps DEF Inv
<1>2. CacheInv(EntryRecord)'
  <2>1. \A e \in EntryRecord, age \in 0 .. TTL : [e EXCEPT !.age = age] \in EntryRecord
    BY DEF EntryRecord
  <2>2. \A o \in Requests, bytes \in 1 .. MaxBytes, chain \in Chains :
          fetch[o].state = "running" =>
            [key |-> fetch[o].key, bytes |-> bytes, age |-> 0, chain |-> chain] \in EntryRecord
    BY BoundsArePositive DEF EntryRecord, Inv, TableInv, ChainsAreNamed
  <2> QED
    BY <2>1, <2>2, CacheSteps DEF Inv
<1>3. ASSUME NEW o \in Requests, (fetch[o].state = "running")'
      PROVE  (fetch[o].key \notin CachedKeys(cache))'
  <2>0. PICK k : k = fetch[o].key
    OBVIOUS
  <2> DEFINE S == OtherKeys(EntryRecord, k)
  <2>1. CASE fetch[o].state = "running"
    <3>1. S \in SUBSET EntryRecord /\ CacheInv(S)
      BY <2>0, <2>1, NotCached DEF Inv, FetchedChainIsNotCached
    <3>2. fetch'[o] = fetch[o]
      BY <1>3, <2>1, FetchChanges DEF Inv
    <3>3. \A e \in S, age \in 0 .. TTL : [e EXCEPT !.age = age] \in S
      BY DEF OtherKeys, EntryRecord
    <3>4. ASSUME NEW q \in Requests, NEW bytes \in 1 .. MaxBytes, NEW chain \in Chains,
                 fetch[q].state = "running", fetch'[q].state # "running"
          PROVE  [key |-> fetch[q].key, bytes |-> bytes, age |-> 0, chain |-> chain] \in S
      <4>1. q # o /\ fetch[q].key \in Keys
        BY <2>1, <3>2, <3>4 DEF Inv, TableInv, ChainsAreNamed
      <4>2. fetch[q].key # k
        BY <2>0, <2>1, <3>4, <4>1 DEF Inv, TableInv, OneFetchPerChain
      <4> QED
        BY <4>1, <4>2, BoundsArePositive DEF OtherKeys, EntryRecord
    <3> HIDE DEF S
    <3>5. CacheInv(S)'
      BY <3>1, <3>3, <3>4, CacheSteps DEF Inv
    <3>6. k \notin CachedKeys(cache)'
      BY <3>5, NotCached DEF S
    <3> QED
      BY <2>0, <3>2, <3>6
  <2>2. CASE fetch[o].state # "running"
    <3> DEFINE c == request[o].key
    <3>1. fetch'[o].key = c /\ GetOptionChain(o) /\ ~Hit(c)
      BY <1>3, <2>2, FetchChanges DEF Inv
    <3>2. cache' = Pruned(cache) /\ c \notin CachedKeys(Pruned(cache))
      BY <3>1 DEF GetOptionChain, LookUp, Hit
    <3>3. CachedKeys(cache)' = CachedKeys(cache')
      BY DEF CachedKeys
    <3> QED
      BY <3>1, <3>2, <3>3
  <2> QED
    BY <2>1, <2>2
<1>4. FetchedChainIsNotCached'
  BY <1>3 DEF FetchedChainIsNotCached
<1> QED
  BY <1>1, <1>2, <1>4 DEF Inv

\* The invariant of every state.
LEMMA Invariant == Spec => []Inv
<1>1. ASSUME Inv, UNCHANGED vars PROVE Inv'
  <2>1. TableInv'
    BY <1>1, TableStutters DEF Inv, vars
  <2>2. CacheInv(EntryRecord)'
    BY <1>1, CacheStutters DEF Inv, vars
  <2>3. FetchedChainIsNotCached'
    BY <1>1 DEF Inv, vars, FetchedChainIsNotCached, CachedKeys
  <2> QED
    BY <2>1, <2>2, <2>3 DEF Inv
<1>2. Inv /\ [Next]_vars => Inv'
  BY <1>1, NextInv
<1> QED
  BY InitInv, <1>2, PTL DEF Spec

\* The cache and the table have their types, whatever Schwab returns.
THEOREM TypesAreCorrect == Spec => []TypeOK
<1>1. Inv => TypeOK
  <2>1. \A c \in Seq(EntryRecord) : Weight(c) \in Nat
    BY EntriesAreMeasured, WeightIsNat
  <2> QED
    BY <2>1 DEF Inv, TableInv, TableTypes, CacheInv, CacheWithinBounds, TypeOK
<1> QED
  BY Invariant, <1>1, PTL

\* The byte counter is the weight of what is cached, both bounds hold and no
\* chain is cached twice, through every store, replacement, expiry and eviction.
THEOREM TheCacheIsBounded == Spec => []CacheWithinBounds
<1>1. Inv => CacheWithinBounds
  BY DEF Inv, CacheInv
<1> QED
  BY Invariant, <1>1, PTL

\* No call to Schwab is spent on a chain that is cached, and a fetch never
\* replaces a live entry.
THEOREM NoFetchForACachedChain == Spec => []FetchedChainIsNotCached
<1>1. Inv => FetchedChainIsNotCached
  BY DEF Inv
<1> QED
  BY Invariant, <1>1, PTL
-----------------------------------------------------------------------------
(* What a hit is served.                                                   *)

\* The ages of the contracts of an entry, as the type of the payloads has them.
LEMMA CachedContracts ==
  ASSUME NEW e \in EntryRecord
  PROVE  \E ages \in Seq(Int \cup {Unknown}) : e.chain = Normalized(ages)
<1>1. PICK p \in Payloads : e.chain = Normalized(Ages(p))
  BY DEF EntryRecord, Chains
<1>2. Ages(p) \in Seq(Int \cup {Unknown})
  <2>1. p.calls \in Seq(Int \cup {Unknown}) /\ p.puts \in Seq(Int \cup {Unknown})
    BY PayloadsAreTimed
  <2> QED
    BY <2>1, ConcatProperties DEF Ages
<1> QED
  BY <1>1, <1>2

\* Reevaluating a cached chain marks it as normalizing the older contracts does.
LEMMA ReevaluationIsNormalization ==
  ASSUME NEW e \in EntryRecord
  PROVE  Marks(Served(e)) = Marks(Normalized(Aged(e)))
<1>1. PICK ages \in Seq(Int \cup {Unknown}) : e.chain = Normalized(ages)
  BY CachedContracts
<1> DEFINE D == DOMAIN ages
           Older(age) == IF age = Unknown THEN age ELSE age + e.age
           served == [i \in D |-> Rejudged(Contract(ages[i]), e.age)]
           fresh == [i \in D |-> Contract(Older(ages[i]))]
<1>2. e.age \in Nat /\ \A i \in D : ages[i] \in Int \cup {Unknown}
  BY DEF EntryRecord
<1>3. /\ e.chain.contracts = [i \in D |-> Contract(ages[i])]
      /\ e.chain.untimed = \E i \in D : ages[i] = Unknown
  <2> DEFINE cs == [i \in D |-> Contract(ages[i])]
  <2>1. e.chain.contracts = cs /\ e.chain.untimed = \E i \in DOMAIN cs : cs[i].age = Unknown
    BY <1>1 DEF Normalized
  <2>2. DOMAIN cs = D /\ \A i \in D : cs[i].age = ages[i]
    BY DEF Contract
  <2> HIDE DEF cs, D
  <2>3. e.chain.untimed = \E i \in D : ages[i] = Unknown
    BY <2>1, <2>2
  <2> QED
    BY <2>1, <2>3 DEF cs
<1>4. Aged(e) = [i \in D |-> Older(ages[i])]
  BY <1>3 DEF Aged, Contract
<1>5. /\ Served(e).contracts = served /\ Served(e).stale = AllStale(served)
      /\ Served(e).partly = SomeStale(served) /\ Served(e).untimed = e.chain.untimed
  <2>1. Served(e).contracts = served
    BY <1>1, <1>3 DEF Served, Reevaluated, Normalized
  <2> QED
    BY <1>1, <1>3, <2>1 DEF Served, Reevaluated, Normalized
<1>6. /\ Normalized(Aged(e)).contracts = fresh
      /\ Normalized(Aged(e)).stale = AllStale(fresh)
      /\ Normalized(Aged(e)).partly = SomeStale(fresh)
      /\ Normalized(Aged(e)).untimed = \E i \in D : fresh[i].age = Unknown
  BY <1>4 DEF Normalized
<1>7. ASSUME NEW i \in D
      PROVE  served[i].stale = fresh[i].stale /\ (fresh[i].age = Unknown <=> ages[i] = Unknown)
  BY <1>2, UnknownIsNoAge DEF Rejudged, Contract, Stale
<1>8. DOMAIN served = D /\ DOMAIN fresh = D
  OBVIOUS
<1> HIDE DEF served, fresh, D, Older
<1>9. AllStale(served) = AllStale(fresh) /\ SomeStale(served) = SomeStale(fresh)
  BY <1>7, <1>8 DEF AllStale, SomeStale
<1>10. e.chain.untimed = \E i \in D : fresh[i].age = Unknown
  BY <1>3, <1>7
<1>11. [i \in D |-> served[i].stale] = [i \in D |-> fresh[i].stale]
  BY <1>7
<1> QED
  BY <1>5, <1>6, <1>8, <1>9, <1>10, <1>11 DEF Marks

\* A hit is on an entry that has not expired.
LEMMA HitsAreYoung ==
  ASSUME CacheInv(EntryRecord), NEW k \in Keys, Hit(k)
  PROVE  \E i \in DOMAIN cache : /\ cache[i].key = k /\ cache[i].age < TTL
                                 /\ Marks(Served(cache[i])) = Marks(Normalized(Aged(cache[i])))
<1>1. cache \in Seq(EntryRecord)
  BY DEF CacheInv
<1> DEFINE X == Range(cache) \ Expired(cache)
           c == Pruned(cache)
<1>2. c \in Seq(EntryRecord \cap X)
  BY <1>1, SublistHas DEF Pruned
<1> HIDE DEF c, X
<1>3. PICK j \in 1 .. Len(c) : c[j].key = k
  BY <1>2 DEF Hit, CachedKeys, c
<1>4. c[j] \in X
  BY <1>2
<1>5. PICK i \in DOMAIN cache : cache[i] = c[j]
  BY <1>4 DEF X, Range
<1>6. cache[i] \in EntryRecord
  BY <1>1, <1>5
<1>7. ~(cache[i].age >= TTL)
  BY <1>4, <1>5 DEF X, Expired
<1>8. cache[i].age < TTL
  BY <1>6, <1>7, BoundsArePositive DEF EntryRecord
<1> QED
  BY <1>3, <1>5, <1>6, <1>8, ReevaluationIsNormalization

\* Who joins a fetch and is answered at once joined one that is done.
LEMMA JoinersOfADoneFetch ==
  ASSUME TableInv, NEW r \in Requests, NEW k \in Keys, NEW inSlot \in BOOLEAN, Joinable(k),
         Awaited(r, k, inSlot, inflight[k]).caller = "value",
         inSlot => request[r].caller = "called"
  PROVE  \E o \in Requests : fetch[o].state = "done" /\ fetch[o].key = k
<1> DEFINE o == inflight[k]
<1>1. o \in Requests /\ fetch[o].key = k
  BY DEF Joinable, TableInv, TableTypes, OneFetchPerChain
<1>2. fetch[o].state = "done"
  <2>1. SUFFICES ASSUME fetch[o].state # "done" PROVE FALSE
    OBVIOUS
  <2> QED
    BY <2>1 DEF Awaited, Waits
<1> QED
  BY <1>1, <1>2

\* "an unexpired cached chain with recomputed freshness": who is given a value
\* at once gets a chain younger than the time to live, marked as if it had just
\* been fetched, or the result of a fetch that is just done; before the queue and
\* after it, whatever the ages of the contracts.
THEOREM CachedAnswersAreCurrent == Spec => HitsAreCurrent
<1> DEFINE Current(r, k) ==
             \/ \E i \in DOMAIN cache :
                  /\ cache[i].key = k /\ cache[i].age < TTL
                  /\ Marks(Served(cache[i])) = Marks(Normalized(Aged(cache[i])))
             \/ \E o \in Requests : fetch[o].state = "done" /\ fetch[o].key = k
           Quick == \A r \in Requests, k \in Keys :
                      Asks(r, k) /\ request'[r].caller = "value" => Current(r, k)
<1>1. ASSUME Inv, NEW r \in Requests, NEW k \in Keys, Asks(r, k), request'[r].caller = "value"
      PROVE  Current(r, k)
  <2> USE DEF Inv
  <2> HIDE DEF Current
  <2>1. CASE Hit(k)
    BY <1>1, <2>1, HitsAreYoung DEF Current
  <2>2. ASSUME ~Hit(k), Arrive(r, k) PROVE Current(r, k)
    <3>1. Joinable(k) /\ request'[r] = Awaited(r, k, FALSE, inflight[k])
      BY <1>1, <2>2 DEF Arrive, Waits, TableInv, TableTypes
    <3>2. Awaited(r, k, FALSE, inflight[k]).caller = "value"
      BY <1>1, <3>1
    <3>3. \E o \in Requests : fetch[o].state = "done" /\ fetch[o].key = k
      BY <1>1, <3>1, <3>2, JoinersOfADoneFetch
    <3> QED
      BY <3>3 DEF Current
  <2>3. ASSUME ~Hit(k), request[r].key = k, GetOptionChain(r) PROVE Current(r, k)
    <3>1. request[r].caller = "called"
      BY <2>3 DEF GetOptionChain
    <3>2. Joinable(k) /\ request'[r] = Awaited(r, k, TRUE, inflight[k])
      <4>1. request' = [request EXCEPT ![r] = request'[r]] /\ request'[r].caller = "value"
        BY <1>1, <2>3 DEF GetOptionChain, TableInv, TableTypes
      <4>2. OperationOver(r, "failed").caller = "failed"
        BY <3>1 DEF OperationOver, Answered, Waits
      <4>3. ~HitInSlot(k)
        BY <2>3 DEF HitInSlot
      <4>4. request \in [Requests -> RequestRecord]
        BY <1>1 DEF TableInv, TableTypes
      <4>5. CASE Joinable(k)
        BY <2>3, <4>3, <4>4, <4>5 DEF GetOptionChain
      <4>6. CASE ~Joinable(k)
        <5>1. \/ request' = [request EXCEPT ![r] = OperationOver(r, "failed")]
              \/ request' = [request EXCEPT ![r] = Waits("called", k, TRUE, r)]
          BY <2>3, <4>3, <4>6 DEF GetOptionChain
        <5>2. Waits("called", k, TRUE, r).caller = "called"
          BY DEF Waits
        <5>3. request'[r] = OperationOver(r, "failed") \/ request'[r] = Waits("called", k, TRUE, r)
          BY <4>4, <5>1
        <5> QED
          BY <4>1, <4>2, <5>2, <5>3
      <4> QED
        BY <4>5, <4>6
    <3>3. Awaited(r, k, TRUE, inflight[k]).caller = "value"
      BY <1>1, <3>2
    <3>4. \E o \in Requests : fetch[o].state = "done" /\ fetch[o].key = k
      BY <1>1, <3>1, <3>2, <3>3, JoinersOfADoneFetch
    <3> QED
      BY <3>4 DEF Current
  <2> QED
    BY <1>1, <2>1, <2>2, <2>3 DEF Asks
<1>2. Inv /\ [Next]_vars => [Quick]_vars
  <2> HIDE DEF Current
  <2> QED
    BY <1>1
<1> QED
  BY <1>2, Invariant, PTL DEF Spec, HitsAreCurrent
=============================================================================
