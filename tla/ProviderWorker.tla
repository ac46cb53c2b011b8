--------------------------- MODULE ProviderWorker ---------------------------
(***************************************************************************)
(* Who is behind the token lock in one gateway process: the reads, which   *)
(* have the scheduler's slot and a daemon thread each, the warm-up, which  *)
(* has a thread but no slot, and the login of the order-book feed, which   *)
(* has the slot but no lease.  The worker lease is a flag that threads     *)
(* give back and callers poll; a caller that is cancelled leaves its       *)
(* thread, and the lease, behind.                                          *)
(***************************************************************************)
EXTENDS FiniteSets

CONSTANTS
  Operations,  \* names for the operations in the slot that read from Schwab
  Attempts,    \* names for the reads of the warm-up
  Login,       \* the operation in the slot that logs the feed in
  Other,       \* recovery loop, deadline probe or another process
  Nobody

Calls == Operations \cup Attempts

ASSUME NamesDiffer ==
  /\ Operations \cap Attempts = {}
  /\ {Login, Other, Nobody} \cap Calls = {}
  /\ Login # Other /\ Login # Nobody /\ Other # Nobody

VARIABLES
  lease,      \* _worker_active
  tokenLock,  \* who is in a transaction of the token store
  call,       \* each _execute: its caller, its thread, what was delivered
  login,      \* where the login is
  warmup      \* UpstreamWarmupReadiness: what runs it, and the read under way

vars == <<lease, tokenLock, call, login, warmup>>

Outcomes == {"value", "error"}
InCall == {"polling", "awaiting"}

\* ended: out of the transaction, the lease not yet given back; posted: the
\* result is on its way to the loop.
CallRecord ==
  [ caller : {"none"} \cup InCall,
    thread : {"none", "started", "inside", "ended", "posted"},
    result : {"none"} \cup Outcomes,
    future : {"none"} \cup Outcomes ]

NoCall == [caller |-> "none", thread |-> "none", result |-> "none", future |-> "none"]

TypeOK ==
  /\ lease \in BOOLEAN
  /\ tokenLock \in Calls \cup {Login, Other, Nobody}
  /\ call \in [Calls -> CallRecord]
  /\ login \in {"none", "entering", "inside"}
  /\ warmup \in [ stage   : {"startup", "background", "warm", "stopped"},
                  attempt : Attempts \cup {Nobody} ]

Init ==
  /\ lease = FALSE
  /\ tokenLock = Nobody
  /\ call = [c \in Calls |-> NoCall]
  /\ login = "none"
  /\ warmup = [stage |-> "startup", attempt |-> Nobody]

Warm == warmup.stage = "warm"

\* The scheduler's promise: one operation at a time, until its task ends.
SlotIsFree == login = "none" /\ \A o \in Operations : call[o].caller = "none"

\* A name is used again once its caller and its thread are both over.
Idle(c) == call[c] = NoCall
-----------------------------------------------------------------------------
(* _execute: the caller on the loop.                                       *)

\* The flag is taken and the thread is started without an await between them.
TakesLease(c) ==
  /\ call[c].caller = "polling"
  /\ ~lease
  /\ lease' = TRUE
  /\ call' = [call EXCEPT ![c].caller = "awaiting", ![c].thread = "started"]
  /\ UNCHANGED <<tokenLock, login, warmup>>

\* No thread can be started: the lease is given back at once.
StartFails(c) ==
  /\ call[c].caller = "polling"
  /\ ~lease
  /\ call' = [call EXCEPT ![c].caller = "awaiting", ![c].future = "error"]
  /\ UNCHANGED <<lease, tokenLock, login, warmup>>

\* What a caller leaves behind when it goes: a thread, if it has started one.
Detached(c) ==
  IF call[c].thread = "none" THEN NoCall
  ELSE [call[c] EXCEPT !.caller = "none", !.future = "none"]
-----------------------------------------------------------------------------
(* execute_and_signal: the thread.                                         *)

EntersTransaction(c) ==
  /\ call[c].thread = "started"
  /\ tokenLock = Nobody
  /\ tokenLock' = c
  /\ call' = [call EXCEPT ![c].thread = "inside"]
  /\ UNCHANGED <<lease, login, warmup>>

\* The lock is waited for in vain, or the token cannot be used.
TransactionRefused(c) ==
  /\ call[c].thread = "started"
  /\ call' = [call EXCEPT ![c].thread = "ended", ![c].result = "error"]
  /\ UNCHANGED <<lease, tokenLock, login, warmup>>

LeavesTransaction(c, outcome) ==
  /\ call[c].thread = "inside"
  /\ tokenLock' = Nobody
  /\ call' = [call EXCEPT ![c].thread = "ended", ![c].result = outcome]
  /\ UNCHANGED <<lease, login, warmup>>

\* The lease is free before the loop hears of the result.
ReturnsLease(c) ==
  /\ call[c].thread = "ended"
  /\ lease' = FALSE
  /\ call' = [call EXCEPT ![c].thread = "posted"]
  /\ UNCHANGED <<tokenLock, login, warmup>>

\* deliver_result: the future of a caller that is gone resolves unobserved.
Delivered(c) ==
  /\ call[c].thread = "posted"
  /\ call' = [call EXCEPT ![c] = IF @.caller = "none" THEN NoCall
                                 ELSE [NoCall EXCEPT !.caller = "awaiting", !.future = call[c].result]]
  /\ UNCHANGED <<lease, tokenLock, login, warmup>>
-----------------------------------------------------------------------------
(* The slot.                                                               *)

\* Requests are refused until the worker is warm.
OperationBegins(o) ==
  /\ SlotIsFree
  /\ Warm
  /\ Idle(o)
  /\ call' = [call EXCEPT ![o].caller = "polling"]
  /\ UNCHANGED <<lease, tokenLock, login, warmup>>

OperationEnds(o) ==
  /\ call[o].caller = "awaiting"
  /\ call[o].future # "none"
  /\ call' = [call EXCEPT ![o] = NoCall]
  /\ UNCHANGED <<lease, tokenLock, login, warmup>>

\* The feed is started when the start-up attempt to warm up is over.
LoginBegins ==
  /\ SlotIsFree
  /\ warmup.stage \in {"background", "warm"}
  /\ login' = "entering"
  /\ UNCHANGED <<lease, tokenLock, call, warmup>>

LoginEnters ==
  /\ login = "entering"
  /\ tokenLock = Nobody
  /\ tokenLock' = Login
  /\ login' = "inside"
  /\ UNCHANGED <<lease, call, warmup>>

\* The lock is not to be had, or the login is over: it left the transaction.
LoginEnds ==
  /\ login # "none"
  /\ login' = "none"
  /\ tokenLock' = IF login = "inside" THEN Nobody ELSE tokenLock
  /\ UNCHANGED <<lease, call, warmup>>

OtherEnters ==
  /\ tokenLock = Nobody
  /\ tokenLock' = Other
  /\ UNCHANGED <<lease, call, login, warmup>>

OtherLeaves ==
  /\ tokenLock = Other
  /\ tokenLock' = Nobody
  /\ UNCHANGED <<lease, call, login, warmup>>
-----------------------------------------------------------------------------
(* The warm-up.                                                            *)

\* attempt_once, at start-up or in run_until_warm.
AttemptBegins(a) ==
  /\ warmup.stage \in {"startup", "background"}
  /\ warmup.attempt = Nobody
  /\ Idle(a)
  /\ warmup' = [warmup EXCEPT !.attempt = a]
  /\ call' = [call EXCEPT ![a].caller = "polling"]
  /\ UNCHANGED <<lease, tokenLock, login>>

AttemptEnds(a) ==
  /\ warmup.attempt = a
  /\ call[a].future # "none"
  /\ warmup' = [ stage   |-> IF call[a].future = "value" THEN "warm" ELSE "background",
                 attempt |-> Nobody ]
  /\ call' = [call EXCEPT ![a] = NoCall]
  /\ UNCHANGED <<lease, tokenLock, login>>

ServesCold == "warm"                     \* mutant: start-up ends as if it were warm
AfterStartup == "background"

LeaseFreed == FALSE                      \* mutant: cancellation frees the lease
LeaseKept == lease

\* wait_for gives up on the start-up attempt.
StartupTimesOut(a) ==
  /\ warmup = [stage |-> "startup", attempt |-> a]
  /\ warmup' = [stage |-> AfterStartup, attempt |-> Nobody]
  /\ call' = [call EXCEPT ![a] = Detached(a)]
  /\ lease' = LeaseKept
  /\ UNCHANGED <<tokenLock, login>>

\* The application is cleaned up while it still warms up.
WarmupStops ==
  /\ warmup.stage = "background"
  /\ warmup' = [stage |-> "stopped", attempt |-> Nobody]
  /\ call' = [a \in Calls |-> IF a = warmup.attempt THEN Detached(a) ELSE call[a]]
  /\ lease' = LeaseKept
  /\ UNCHANGED <<tokenLock, login>>

Next ==
  \/ \E c \in Calls :
       \/ TakesLease(c)
       \/ StartFails(c)
       \/ EntersTransaction(c)
       \/ TransactionRefused(c)
       \/ \E outcome \in Outcomes : LeavesTransaction(c, outcome)
       \/ ReturnsLease(c)
       \/ Delivered(c)
  \/ \E o \in Operations : OperationBegins(o) \/ OperationEnds(o)
  \/ \E a \in Attempts : AttemptBegins(a) \/ AttemptEnds(a) \/ StartupTimesOut(a)
  \/ LoginBegins
  \/ LoginEnters
  \/ LoginEnds
  \/ OtherEnters
  \/ OtherLeaves
  \/ WarmupStops

Spec == Init /\ [][Next]_vars
-----------------------------------------------------------------------------
(* Properties.                                                             *)

HoldsLease(c) == call[c].thread \in {"started", "inside", "ended"}

\* "one-worker lease ... the detached daemon worker retains the lease until its
\* synchronous token transaction finishes": the flag is up exactly while a
\* thread is at work, and never are there two, whoever was cancelled.
LeaseIsOneThread ==
  /\ lease <=> \E c \in Calls : HoldsLease(c)
  /\ \A c, d \in Calls : HoldsLease(c) /\ HoldsLease(d) => c = d

\* "All Schwab calls go through one scheduler and a single worker": the warm-up
\* does not, but once it has made the gateway ready nothing of it is left: a
\* thread at work is the slot's operation's own, so an operation never finds
\* the lease taken, nor the token lock in the hands of another Schwab call.
OnceWarmTheSlotDecides ==
  Warm =>
    /\ \A c \in Calls : HoldsLease(c) => c \in Operations /\ call[c].caller = "awaiting"
    /\ tokenLock \in Calls => tokenLock \in Operations
    /\ login = "none" \/ ~lease
    /\ \A o \in Operations : call[o].caller = "polling" => ~lease /\ tokenLock \in {Other, Nobody}
=============================================================================
