------------------------- MODULE ProviderWorkerProofs -------------------------
(***************************************************************************)
(* Theorems about ProviderWorker: the lease is one thread, and once the    *)
(* gateway is warm nothing but the slot's operation is behind it.          *)
(***************************************************************************)
EXTENDS ProviderWorker, TLAPS

\* A call's caller, thread and future agree, and the token lock knows who is in.
CallsAgree ==
  /\ \A c \in Calls :
       /\ call[c].thread = "inside" <=> tokenLock = c
       /\ call[c].caller = "polling" => call[c].thread = "none" /\ call[c].future = "none"
       /\ call[c].future # "none" => call[c].thread = "none" /\ call[c].caller = "awaiting"
  /\ login = "inside" <=> tokenLock = Login

\* One operation has the slot, and only the attempt under way has a caller.
SlotAgrees ==
  /\ \A o \in Operations : call[o].caller # "none" => login = "none"
  /\ \A o, p \in Operations :
       call[o].caller # "none" /\ call[p].caller # "none" => o = p
  /\ \A a \in Attempts : call[a].caller # "none" => warmup.attempt = a
  /\ ~Warm => \A o \in Operations : call[o] = NoCall
  /\ Warm => warmup.attempt = Nobody

\* An attempt whose thread is over, unless it never had one, had the lease last.
AttemptWasLast ==
  \A a \in Attempts :
    call[a].caller = "awaiting" /\ ~HoldsLease(a) /\ call[a].future # "error" => ~lease

WorkerInv ==
  TypeOK /\ LeaseIsOneThread /\ CallsAgree /\ SlotAgrees /\ AttemptWasLast /\ OnceWarmTheSlotDecides

\* At the start no call holds the lease.
LEMMA WorkerInit == Init => WorkerInv
<1> SUFFICES ASSUME Init PROVE WorkerInv
  OBVIOUS
<1> USE NamesDiffer DEF Init, HoldsLease, Warm, NoCall, Calls
<1>1. TypeOK
  BY DEF TypeOK, CallRecord, Outcomes, InCall
<1>2. LeaseIsOneThread
  BY DEF LeaseIsOneThread
<1>3. CallsAgree /\ SlotAgrees
  BY DEF CallsAgree, SlotAgrees
<1>4. AttemptWasLast /\ OnceWarmTheSlotDecides
  BY DEF AttemptWasLast, OnceWarmTheSlotDecides
<1> QED
  BY <1>1, <1>2, <1>3, <1>4 DEF WorkerInv

\* A caller that goes takes its future along, and leaves its thread.
LEMMA DetachedCall ==
  ASSUME TypeOK, NEW c \in Calls
  PROVE  /\ Detached(c) \in CallRecord
         /\ Detached(c).thread = call[c].thread
         /\ Detached(c).caller = "none" /\ Detached(c).future = "none"
<1>1. call[c] \in CallRecord
  BY DEF TypeOK
<1>2. CASE call[c].thread = "none"
  BY <1>2 DEF Detached, NoCall, CallRecord
<1>3. CASE call[c].thread # "none"
  BY <1>1, <1>3 DEF Detached, CallRecord
<1> QED
  BY <1>2, <1>3

\* Every step keeps the invariant, whichever caller, thread or timer takes it.
LEMMA WorkerSteps ==
  ASSUME WorkerInv, Next
  PROVE  WorkerInv'
<1> USE NamesDiffer DEF WorkerInv, TypeOK, LeaseIsOneThread, CallsAgree, SlotAgrees, AttemptWasLast,
      OnceWarmTheSlotDecides, HoldsLease, Warm, NoCall, CallRecord, Outcomes, InCall, Calls
<1>1. ASSUME NEW c \in Calls, TakesLease(c)  PROVE WorkerInv'
  BY <1>1 DEF TakesLease
<1>2. ASSUME NEW c \in Calls, StartFails(c)  PROVE WorkerInv'
  BY <1>2 DEF StartFails
<1>3. ASSUME NEW c \in Calls, EntersTransaction(c)  PROVE WorkerInv'
  BY <1>3 DEF EntersTransaction
<1>4. ASSUME NEW c \in Calls, TransactionRefused(c)  PROVE WorkerInv'
  BY <1>4 DEF TransactionRefused
<1>5. ASSUME NEW c \in Calls, NEW outcome \in Outcomes, LeavesTransaction(c, outcome)
      PROVE  WorkerInv'
  BY <1>5 DEF LeavesTransaction
<1>6. ASSUME NEW c \in Calls, ReturnsLease(c)  PROVE WorkerInv'
  <2>1. TypeOK'
    <3>1. [call[c] EXCEPT !.thread = "posted"] \in CallRecord
      BY <1>6 DEF ReturnsLease
    <3> QED
      BY <1>6, <3>1 DEF ReturnsLease
  <2>2. LeaseIsOneThread'
    BY <1>6 DEF ReturnsLease
  <2>3. CallsAgree'
    BY <1>6 DEF ReturnsLease
  <2>4. SlotAgrees'
    BY <1>6 DEF ReturnsLease
  <2>5. AttemptWasLast'
    BY <1>6 DEF ReturnsLease
  <2>6. OnceWarmTheSlotDecides'
    BY <1>6 DEF ReturnsLease
  <2> QED
    BY <2>1, <2>2, <2>3, <2>4, <2>5, <2>6
<1>7. ASSUME NEW c \in Calls, Delivered(c)  PROVE WorkerInv'
  <2>1. TypeOK'
    BY <1>7 DEF Delivered
  <2>2. LeaseIsOneThread'
    BY <1>7 DEF Delivered
  <2>3. CallsAgree'
    BY <1>7 DEF Delivered
  <2>4. SlotAgrees'
    BY <1>7 DEF Delivered
  <2>5. AttemptWasLast'
    BY <1>7 DEF Delivered
  <2>6. OnceWarmTheSlotDecides'
    BY <1>7 DEF Delivered
  <2> QED
    BY <2>1, <2>2, <2>3, <2>4, <2>5, <2>6
<1>8. ASSUME NEW o \in Operations, OperationBegins(o)  PROVE WorkerInv'
  BY <1>8 DEF OperationBegins, SlotIsFree, Idle
<1>9. ASSUME NEW o \in Operations, OperationEnds(o)  PROVE WorkerInv'
  BY <1>9 DEF OperationEnds
<1>10. ASSUME NEW a \in Attempts, AttemptBegins(a)  PROVE WorkerInv'
  BY <1>10 DEF AttemptBegins, Idle
<1>11. ASSUME NEW a \in Attempts, AttemptEnds(a)  PROVE WorkerInv'
  BY <1>11 DEF AttemptEnds
<1>12. ASSUME NEW a \in Attempts, StartupTimesOut(a)  PROVE WorkerInv'
  <2>1. TypeOK'
    <3>1. Detached(a) \in CallRecord
      BY DetachedCall
    <3> QED
      BY <1>12, <3>1 DEF StartupTimesOut, AfterStartup, LeaseKept
  <2>2. LeaseIsOneThread'
    BY <1>12 DEF StartupTimesOut, Detached, AfterStartup, LeaseKept
  <2>3. CallsAgree'
    BY <1>12 DEF StartupTimesOut, Detached, AfterStartup, LeaseKept
  <2>4. SlotAgrees'
    BY <1>12 DEF StartupTimesOut, Detached, AfterStartup, LeaseKept
  <2>5. AttemptWasLast'
    BY <1>12 DEF StartupTimesOut, Detached, AfterStartup, LeaseKept
  <2>6. OnceWarmTheSlotDecides'
    BY <1>12 DEF StartupTimesOut, Detached, AfterStartup, LeaseKept
  <2> QED
    BY <2>1, <2>2, <2>3, <2>4, <2>5, <2>6
<1>13. CASE LoginBegins
  BY <1>13 DEF LoginBegins, SlotIsFree
<1>14. CASE LoginEnters
  BY <1>14 DEF LoginEnters
<1>15. CASE LoginEnds
  BY <1>15 DEF LoginEnds
<1>16. CASE OtherEnters
  BY <1>16 DEF OtherEnters
<1>17. CASE OtherLeaves
  BY <1>17 DEF OtherLeaves
<1>18. CASE WarmupStops
  <2>1. /\ warmup.stage = "background"
        /\ warmup'.stage = "stopped" /\ warmup'.attempt = Nobody
        /\ warmup' \in [ stage   : {"startup", "background", "warm", "stopped"},
                         attempt : Attempts \cup {Nobody} ]
        /\ lease' = lease /\ tokenLock' = tokenLock /\ login' = login
    BY <1>18 DEF WarmupStops, LeaseKept
  <2>2. call' = [c \in Calls |-> IF c = warmup.attempt THEN Detached(c) ELSE call[c]]
    BY <1>18 DEF WarmupStops
  <2>3. \A c \in Calls :
          /\ Detached(c) \in CallRecord
          /\ Detached(c).thread = call[c].thread
          /\ Detached(c).caller = "none" /\ Detached(c).future = "none"
    BY DetachedCall
  <2>4. \A c \in Calls :
          /\ call'[c] \in CallRecord
          /\ call'[c].thread = call[c].thread
          /\ call'[c] = call[c]
             \/ (c = warmup.attempt /\ call'[c].caller = "none" /\ call'[c].future = "none")
    BY <2>2, <2>3
  <2>5. TypeOK'
    BY <2>1, <2>2, <2>4
  <2>6. LeaseIsOneThread' /\ CallsAgree'
    BY <2>1, <2>4
  <2>7. ~Warm /\ ~Warm'
    BY <2>1
  <2>8. SlotAgrees'
    <3>1. \A o \in Operations : call'[o] = call[o]
      BY <2>1, <2>2
    <3>2. \A a \in Attempts : call'[a].caller = "none"
      BY <2>1, <2>2, <2>3
    <3> QED
      BY <2>1, <2>7, <3>1, <3>2
  <2>9. AttemptWasLast'
    BY <2>1, <2>4
  <2>10. OnceWarmTheSlotDecides'
    BY <2>7
  <2> QED
    BY <2>5, <2>6, <2>8, <2>9, <2>10
<1> HIDE DEF WorkerInv, TypeOK, LeaseIsOneThread, CallsAgree, SlotAgrees, AttemptWasLast,
      OnceWarmTheSlotDecides, HoldsLease, Warm, NoCall, CallRecord, Outcomes, InCall, Calls
<1> QED
  BY <1>1, <1>2, <1>3, <1>4, <1>5, <1>6, <1>7, <1>8, <1>9, <1>10, <1>11, <1>12, <1>13, <1>14, <1>15,
     <1>16, <1>17, <1>18 DEF Next

\* A step that changes nothing keeps the invariant.
LEMMA WorkerStutters ==
  ASSUME WorkerInv, UNCHANGED vars
  PROVE  WorkerInv'
BY DEF vars, WorkerInv, TypeOK, LeaseIsOneThread, CallsAgree, SlotAgrees, AttemptWasLast,
   OnceWarmTheSlotDecides, HoldsLease, Warm, NoCall, CallRecord, Outcomes, InCall, Calls

\* The invariant holds always.
LEMMA WorkerInvAlways == Spec => []WorkerInv
<1>1. WorkerInv /\ [Next]_vars => WorkerInv'
  BY WorkerSteps, WorkerStutters
<1> QED
  BY WorkerInit, <1>1, PTL DEF Spec

\* Every variable of the worker keeps its type.
THEOREM WorkerTypeOK == Spec => []TypeOK
<1>1. WorkerInv => TypeOK
  BY DEF WorkerInv
<1> QED
  BY WorkerInvAlways, <1>1, PTL

\* However many reads, attempts and detached threads there are, the lease is up
\* exactly while one thread is at work.
THEOREM WorkerLease == Spec => []LeaseIsOneThread
<1>1. WorkerInv => LeaseIsOneThread
  BY DEF WorkerInv
<1> QED
  BY WorkerInvAlways, <1>1, PTL

\* Once the gateway has reported that it is ready, the worker thread is that of
\* the operation in the slot.
THEOREM WorkerOnceWarm == Spec => []OnceWarmTheSlotDecides
<1>1. WorkerInv => OnceWarmTheSlotDecides
  BY DEF WorkerInv
<1> QED
  BY WorkerInvAlways, <1>1, PTL
=============================================================================
