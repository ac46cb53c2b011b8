-------------------------- MODULE TokenManagerProofs --------------------------
(***************************************************************************)
(* Theorems about TokenManager.  The invariant that carries them says how  *)
(* a thread's place in its transaction agrees with the locks (LocksAgree)  *)
(* and with the document (VersionsAgree).                                  *)
(***************************************************************************)
EXTENDS TokenManager, TLAPS

\* A thread is between the acquisition of a lock and its release exactly while it
\* is the holder, and an exclusive flock is alone.
LocksAgree ==
  /\ \A t \in Threads : pc[t] \in HasThreadLock <=> threadLock = t
  /\ \A t \in Threads : flock[t] = IF pc[t] \in Inside THEN "exclusive" ELSE "none"
  /\ \A a, b \in Threads \cup Others :
       a # b /\ flock[a] = "exclusive" => flock[b] = "none"

\* What a thread has put in place is the document, unless a manual login has come since.
PlacedIsSeen ==
  \A t \in Threads : pc[t] \in {"replaced", "saved", "unsynced"} =>
    \/ placed[t] = file
    \/ file.by = "manual" /\ placed[t].version < file.version

\* Once the directory is synced, what was put in place is safe.
SyncedIsSafe ==
  \A t \in Threads : pc[t] = "saved" => \A d \in durable : placed[t].version <= d.version

\* What a power failure would leave is no later than the document, as late only if it is
\* the document or the torn one of a manual login, and whole if it is the gateway's.
DurableIsNoLater ==
  /\ \A d \in durable :
       /\ d.version <= file.version
       /\ d.version = file.version => d = file \/ d.by = "manual"
       /\ d.by = "gateway" => d.is = "whole"
  /\ file.version <= writes

VersionsAgree ==
  /\ CallbacksSeeTheDocument
  /\ AckedSurvives
  /\ PlacedIsSeen
  /\ SyncedIsSafe
  /\ DurableIsNoLater

TokenInv == TypeOK /\ LocksAgree /\ VersionsAgree
-----------------------------------------------------------------------------
(* The steps.                                                              *)

\* Every step keeps each variable in its type.
LEMMA StepsKeepTypes ==
  ASSUME TypeOK, Next
  PROVE  TypeOK'
<1> USE DEF TypeOK, Points, HasThreadLock, Inside, States, Failures, Documents,
    Conditions, Authors, NoDocument, NewDocument, Threads, inHand, threadVars, diskVars
<1>1. ASSUME NEW t \in Threads, AdmitRead(t)  PROVE TypeOK'
  BY <1>1 DEF AdmitRead, Moves
<1>2. ASSUME NEW t \in Threads, Begin(t)  PROVE TypeOK'
  BY <1>2 DEF Begin, Moves
<1>3. ASSUME NEW t \in Threads, TakeThreadLock(t)  PROVE TypeOK'
  BY <1>3 DEF TakeThreadLock, Moves
<1>4. ASSUME NEW t \in Threads, ThreadLockTimesOut(t)  PROVE TypeOK'
  BY <1>4 DEF ThreadLockTimesOut, Moves, Keeps
<1>5. ASSUME NEW t \in Threads, TakeFlock(t)  PROVE TypeOK'
  BY <1>5 DEF TakeFlock, Moves, FlockIsFree
<1>6. ASSUME NEW t \in Threads, FlockTimesOut(t)  PROVE TypeOK'
  BY <1>6 DEF FlockTimesOut, Moves, Keeps, FlockIsFree
<1>7. ASSUME NEW t \in Threads, LoadDocument(t)  PROVE TypeOK'
  BY <1>7 DEF LoadDocument, Moves, Keeps, Transition, LoadOutcome, StateOf
<1>8. ASSUME NEW t \in Threads, WriteTemporary(t)  PROVE TypeOK'
  BY <1>8 DEF WriteTemporary, Moves
<1>9. ASSUME NEW t \in Threads, ReplaceDocument(t)  PROVE TypeOK'
  BY <1>9 DEF ReplaceDocument, Moves
<1>10. ASSUME NEW t \in Threads, SyncDirectory(t)  PROVE TypeOK'
  BY <1>10 DEF SyncDirectory, Moves
<1>11. ASSUME NEW t \in Threads, WriteSucceeds(t)  PROVE TypeOK'
  BY <1>11 DEF WriteSucceeds, Moves, Keeps, Closes, Transition, CurrentIsReplaced
<1>12. ASSUME NEW t \in Threads, ReleaseFlock(t)  PROVE TypeOK'
  BY <1>12 DEF ReleaseFlock, Moves
<1>13. ASSUME NEW t \in Threads, ReleaseThreadLock(t)  PROVE TypeOK'
  BY <1>13 DEF ReleaseThreadLock, Moves, Keeps
<1>14. ASSUME NEW t \in Threads, Report(t)  PROVE TypeOK'
  BY <1>14 DEF Report, Moves, Keeps, Transition, StateOf
<1>15. ASSUME NEW t \in Threads, WriteBegins(t)  PROVE TypeOK'
  BY <1>15 DEF WriteBegins, Moves, Transition
<1>16. ASSUME NEW t \in Threads, InvalidToken(t)  PROVE TypeOK'
  BY <1>16 DEF InvalidToken, Moves, Keeps, Closes, Transition
<1>17. ASSUME NEW t \in Threads, OperationEnds(t)  PROVE TypeOK'
  BY <1>17 DEF OperationEnds, Moves, Closes
<1>18. ASSUME NEW t \in Threads, StoreUnavailable(t)  PROVE TypeOK'
  BY <1>18 DEF StoreUnavailable, Moves, Keeps
<1>19. ASSUME NEW t \in Threads, WriteFails(t)  PROVE TypeOK'
  BY <1>19 DEF WriteFails, Moves, Keeps, Closes, Transition
<1>20. ASSUME NEW t \in Threads, CleanupFails(t)  PROVE TypeOK'
  BY <1>20 DEF CleanupFails, Moves, Keeps, Closes
<1>21. ASSUME NEW t \in Threads, EntryCancelled(t)  PROVE TypeOK'
  BY <1>21 DEF EntryCancelled, Moves, Keeps
<1>22. ASSUME NEW t \in Threads, NEW state \in States, RefreshFails(t, state)
      PROVE  TypeOK'
  BY <1>22 DEF RefreshFails, Moves, Keeps, Closes, Transition
<1>23. CASE Start
  BY <1>23 DEF Start
<1>24. CASE Crash
  BY <1>24 DEF Crash, ProcessEnds
<1>25. CASE PowerFails
  BY <1>25 DEF PowerFails, ProcessEnds
<1>26. CASE Lapse
  BY <1>26 DEF Lapse
<1>27. ASSUME NEW o \in Others, NEW mode \in {"shared", "exclusive"},
         OtherLocks(o, mode)
      PROVE  TypeOK'
  BY <1>27 DEF OtherLocks, FlockIsFree, FreeOfWriters
<1>28. ASSUME NEW o \in Others, NEW authorization \in 1 .. writes + 1,
              NEW condition \in Conditions, OtherReplaces(o, authorization, condition)
      PROVE  TypeOK'
  BY <1>28 DEF OtherReplaces
<1>29. ASSUME NEW o \in Others, OtherUnlocks(o)  PROVE TypeOK'
  BY <1>29 DEF OtherUnlocks
<1>30. ASSUME NEW t \in Threads, SyncIsRefused(t)  PROVE TypeOK'
  BY <1>30 DEF SyncIsRefused, Moves
<1>31. ASSUME NEW condition \in {"whole", "corrupt"}, Reauthorizes(condition)
      PROVE  TypeOK'
  BY <1>31 DEF Reauthorizes
<1> HIDE DEF TypeOK
<1> QED
  BY <1>1, <1>2, <1>3, <1>4, <1>5, <1>6, <1>7, <1>8, <1>9, <1>10, <1>11,
    <1>12, <1>13, <1>14, <1>15, <1>16, <1>17, <1>18, <1>19, <1>20, <1>21, <1>22,
    <1>23, <1>24, <1>25, <1>26, <1>27, <1>28, <1>29, <1>30, <1>31
  DEF Next, ThreadStep, ClientStep, Mishap, States

\* The locks are taken and released where the pc says so; the flock is taken only
\* when it is free, and the death of a process releases what its threads held.
LEMMA StepsKeepLocks ==
  ASSUME TypeOK, LocksAgree, Next
  PROVE  LocksAgree'
<1> USE DEF TypeOK, LocksAgree, HasThreadLock, Inside, inHand, threadVars, diskVars
<1>1. ASSUME NEW t \in Threads, AdmitRead(t)  PROVE LocksAgree'
  BY <1>1 DEF AdmitRead, Moves
<1>2. ASSUME NEW t \in Threads, Begin(t)  PROVE LocksAgree'
  BY <1>2 DEF Begin, Moves
<1>3. ASSUME NEW t \in Threads, TakeThreadLock(t)  PROVE LocksAgree'
  BY <1>3, ThreadsAreKnown DEF TakeThreadLock, Moves
<1>4. ASSUME NEW t \in Threads, ThreadLockTimesOut(t)  PROVE LocksAgree'
  BY <1>4 DEF ThreadLockTimesOut, Moves, Keeps
<1>5. ASSUME NEW t \in Threads, TakeFlock(t)  PROVE LocksAgree'
  BY <1>5 DEF TakeFlock, Moves, FlockIsFree
<1>6. ASSUME NEW t \in Threads, FlockTimesOut(t)  PROVE LocksAgree'
  BY <1>6, ThreadsAreKnown DEF FlockTimesOut, Moves, Keeps, FlockIsFree
<1>7. ASSUME NEW t \in Threads, LoadDocument(t)  PROVE LocksAgree'
  BY <1>7 DEF LoadDocument, Moves, Keeps, Transition, LoadOutcome, StateOf
<1>8. ASSUME NEW t \in Threads, WriteTemporary(t)  PROVE LocksAgree'
  BY <1>8 DEF WriteTemporary, Moves
<1>9. ASSUME NEW t \in Threads, ReplaceDocument(t)  PROVE LocksAgree'
  BY <1>9 DEF ReplaceDocument, Moves
<1>10. ASSUME NEW t \in Threads, SyncDirectory(t)  PROVE LocksAgree'
  BY <1>10 DEF SyncDirectory, Moves
<1>11. ASSUME NEW t \in Threads, WriteSucceeds(t)  PROVE LocksAgree'
  BY <1>11 DEF WriteSucceeds, Moves, Keeps, Closes, Transition, CurrentIsReplaced
<1>12. ASSUME NEW t \in Threads, ReleaseFlock(t)  PROVE LocksAgree'
  BY <1>12 DEF ReleaseFlock, Moves
<1>13. ASSUME NEW t \in Threads, ReleaseThreadLock(t)  PROVE LocksAgree'
  BY <1>13, ThreadsAreKnown DEF ReleaseThreadLock, Moves, Keeps
<1>14. ASSUME NEW t \in Threads, Report(t)  PROVE LocksAgree'
  BY <1>14 DEF Report, Moves, Keeps, Transition, StateOf
<1>15. ASSUME NEW t \in Threads, WriteBegins(t)  PROVE LocksAgree'
  BY <1>15 DEF WriteBegins, Moves, Transition
<1>16. ASSUME NEW t \in Threads, InvalidToken(t)  PROVE LocksAgree'
  BY <1>16 DEF InvalidToken, Moves, Keeps, Closes, Transition
<1>17. ASSUME NEW t \in Threads, OperationEnds(t)  PROVE LocksAgree'
  BY <1>17 DEF OperationEnds, Moves, Closes
<1>18. ASSUME NEW t \in Threads, StoreUnavailable(t)  PROVE LocksAgree'
  BY <1>18, ThreadsAreKnown DEF StoreUnavailable, Moves, Keeps
<1>19. ASSUME NEW t \in Threads, WriteFails(t)  PROVE LocksAgree'
  BY <1>19 DEF WriteFails, Moves, Keeps, Closes, Transition
<1>20. ASSUME NEW t \in Threads, CleanupFails(t)  PROVE LocksAgree'
  BY <1>20 DEF CleanupFails, Moves, Keeps, Closes
<1>21. ASSUME NEW t \in Threads, EntryCancelled(t)  PROVE LocksAgree'
  BY <1>21 DEF EntryCancelled, Moves, Keeps
<1>22. ASSUME NEW t \in Threads, NEW state \in States, RefreshFails(t, state)
      PROVE  LocksAgree'
  BY <1>22 DEF RefreshFails, Moves, Keeps, Closes, Transition
<1>23. CASE Start
  BY <1>23 DEF Start
<1>24. CASE Crash
  BY <1>24, ThreadsAreKnown DEF Crash, ProcessEnds
<1>25. CASE PowerFails
  BY <1>25, ThreadsAreKnown DEF PowerFails, ProcessEnds
<1>26. CASE Lapse
  BY <1>26 DEF Lapse
<1>27. ASSUME NEW o \in Others, NEW mode \in {"shared", "exclusive"},
         OtherLocks(o, mode)
      PROVE  LocksAgree'
  BY <1>27, ThreadsAreKnown DEF OtherLocks, FlockIsFree, FreeOfWriters
<1>28. ASSUME NEW o \in Others, NEW authorization \in 1 .. writes + 1,
              NEW condition \in Conditions, OtherReplaces(o, authorization, condition)
      PROVE  LocksAgree'
  BY <1>28 DEF OtherReplaces
<1>29. ASSUME NEW o \in Others, OtherUnlocks(o)  PROVE LocksAgree'
  BY <1>29, ThreadsAreKnown DEF OtherUnlocks
<1>30. ASSUME NEW t \in Threads, SyncIsRefused(t)  PROVE LocksAgree'
  BY <1>30 DEF SyncIsRefused, Moves
<1>31. ASSUME NEW condition \in {"whole", "corrupt"}, Reauthorizes(condition)
      PROVE  LocksAgree'
  BY <1>31 DEF Reauthorizes
<1> QED
  BY <1>1, <1>2, <1>3, <1>4, <1>5, <1>6, <1>7, <1>8, <1>9, <1>10, <1>11,
    <1>12, <1>13, <1>14, <1>15, <1>16, <1>17, <1>18, <1>19, <1>20, <1>21, <1>22,
    <1>23, <1>24, <1>25, <1>26, <1>27, <1>28, <1>29, <1>30, <1>31
  DEF Next, ThreadStep, ClientStep, Mishap, States

\* The document changes only under the exclusive flock, so the copy a thread has
\* read is still the document when it writes, and a sync makes safe what it wrote.
LEMMA StepsKeepVersions ==
  ASSUME TypeOK, TypeOK', LocksAgree, VersionsAgree, Next
  PROVE  VersionsAgree'
<1> USE DEF TypeOK, LocksAgree, VersionsAgree, CallbacksSeeTheDocument,
    AckedSurvives, PlacedIsSeen, SyncedIsSafe, DurableIsNoLater, Documents, Inside,
    inHand, threadVars, diskVars
<1>1. ASSUME NEW t \in Threads, AdmitRead(t)  PROVE VersionsAgree'
  BY <1>1 DEF AdmitRead, Moves
<1>2. ASSUME NEW t \in Threads, Begin(t)  PROVE VersionsAgree'
  BY <1>2 DEF Begin, Moves
<1>3. ASSUME NEW t \in Threads, TakeThreadLock(t)  PROVE VersionsAgree'
  BY <1>3 DEF TakeThreadLock, Moves
<1>4. ASSUME NEW t \in Threads, ThreadLockTimesOut(t)  PROVE VersionsAgree'
  BY <1>4 DEF ThreadLockTimesOut, Moves, Keeps
<1>5. ASSUME NEW t \in Threads, TakeFlock(t)  PROVE VersionsAgree'
  BY <1>5 DEF TakeFlock, Moves, FlockIsFree
<1>6. ASSUME NEW t \in Threads, FlockTimesOut(t)  PROVE VersionsAgree'
  BY <1>6 DEF FlockTimesOut, Moves, Keeps, FlockIsFree
<1>7. ASSUME NEW t \in Threads, LoadDocument(t)  PROVE VersionsAgree'
  <2>1. UNCHANGED <<file, durable, writes, acked, placed>>
    BY <1>7 DEF LoadDocument
  <2>2. ASSUME NEW u \in Threads
        PROVE  \/ pc'[u] = pc[u] /\ current'[u] = current[u]
               \/ pc'[u] = "using" /\ current'[u] = file
               \/ pc'[u] = "leaving"
    <3>1. CASE LoadOutcome(t) = "ok" /\ t \in Accesses \cup Refreshes
      <4>1. Moves(t, "locked", "using") /\ current' = [current EXCEPT ![t] = file]
        BY <1>7, <3>1 DEF LoadDocument
      <4> QED
        BY <4>1 DEF Moves
    <3>2. CASE ~(LoadOutcome(t) = "ok" /\ t \in Accesses \cup Refreshes)
      <4>1. Moves(t, "locked", "leaving") /\ current' = current
        BY <1>7, <3>2 DEF LoadDocument
      <4> QED
        BY <4>1 DEF Moves
    <3> QED
      BY <3>1, <3>2
  <2>3. AckedSurvives' /\ DurableIsNoLater'
    BY <2>1
  <2>4. PlacedIsSeen' /\ SyncedIsSafe'
    BY <2>1, <2>2
  <2>5. CallbacksSeeTheDocument'
    BY <2>1, <2>2
  <2> QED
    BY <2>3, <2>4, <2>5
<1>8. ASSUME NEW t \in Threads, WriteTemporary(t)  PROVE VersionsAgree'
  BY <1>8 DEF WriteTemporary, Moves
<1>9. ASSUME NEW t \in Threads, ReplaceDocument(t)  PROVE VersionsAgree'
  <2>1. \A u \in Threads \ {t} : pc[u] \notin Inside /\ pc'[u] = pc[u]
    BY <1>9 DEF ReplaceDocument, Moves
  <2>2. /\ pc'[t] = "replaced" /\ placed'[t] = file'
        /\ durable' = durable \cup {file'} /\ acked' = acked /\ writes' = writes + 1
        /\ file'.version = writes + 1 /\ file'.is = "whole"
    BY <1>9 DEF ReplaceDocument, Moves, NewDocument
  <2>3. AckedSurvives'
    BY <2>2
  <2>4. DurableIsNoLater'
    BY <2>2
  <2>5. \A u \in Threads : pc'[u] \in Inside => u = t
    BY <2>1
  <2>6. CallbacksSeeTheDocument' /\ PlacedIsSeen' /\ SyncedIsSafe'
    BY <2>2, <2>5
  <2> QED
    BY <2>3, <2>4, <2>6
<1>10. ASSUME NEW t \in Threads, SyncDirectory(t)  PROVE VersionsAgree'
  BY <1>10 DEF SyncDirectory, Moves
<1>11. ASSUME NEW t \in Threads, WriteSucceeds(t)  PROVE VersionsAgree'
  <2>1. UNCHANGED <<file, durable, writes>>
    BY <1>11 DEF WriteSucceeds
  <2>2. \A u \in Threads \ {t} : pc[u] \notin Inside /\ pc'[u] = pc[u]
    BY <1>11 DEF WriteSucceeds, Moves
  <2>3. \/ pc'[t] = "using" /\ current'[t] = placed[t]
        \/ pc'[t] = "leaving"
    BY <1>11 DEF WriteSucceeds, Moves, CurrentIsReplaced
  <2>4. pc[t] \in {"saved", "unsynced"}
        /\ acked' = IF pc[t] = "saved" THEN placed[t].version ELSE acked
    BY <1>11 DEF WriteSucceeds, Moves
  <2>5. AckedSurvives'
    BY <2>1, <2>4
  <2>6. DurableIsNoLater'
    BY <2>1
  <2>7. \A u \in Threads : pc'[u] \in Inside => u = t
    BY <2>2
  <2>8. placed[t] = file \/ (file.by = "manual" /\ placed[t].version < file.version)
    BY <2>4
  <2>9. CallbacksSeeTheDocument'
    BY <2>1, <2>3, <2>7, <2>8
  <2>10. PlacedIsSeen' /\ SyncedIsSafe'
    BY <2>3, <2>7
  <2> QED
    BY <2>5, <2>6, <2>9, <2>10
<1>12. ASSUME NEW t \in Threads, ReleaseFlock(t)  PROVE VersionsAgree'
  BY <1>12 DEF ReleaseFlock, Moves
<1>13. ASSUME NEW t \in Threads, ReleaseThreadLock(t)  PROVE VersionsAgree'
  <2>1. UNCHANGED <<file, durable, writes, acked, placed, current>>
    BY <1>13 DEF ReleaseThreadLock
  <2>2. \A u \in Threads : pc'[u] = pc[u] \/ pc'[u] \in {"reporting", "idle"}
    BY <1>13 DEF ReleaseThreadLock, Moves
  <2> QED
    BY <2>1, <2>2
<1>14. ASSUME NEW t \in Threads, Report(t)  PROVE VersionsAgree'
  BY <1>14 DEF Report, Moves, Keeps, Transition, StateOf
<1>15. ASSUME NEW t \in Threads, WriteBegins(t)  PROVE VersionsAgree'
  BY <1>15 DEF WriteBegins, Moves, Transition
<1>16. ASSUME NEW t \in Threads, InvalidToken(t)  PROVE VersionsAgree'
  BY <1>16 DEF InvalidToken, Moves, Keeps, Closes, Transition
<1>17. ASSUME NEW t \in Threads, OperationEnds(t)  PROVE VersionsAgree'
  BY <1>17 DEF OperationEnds, Moves, Closes
<1>18. ASSUME NEW t \in Threads, StoreUnavailable(t)  PROVE VersionsAgree'
  BY <1>18 DEF StoreUnavailable, Moves, Keeps
<1>19. ASSUME NEW t \in Threads, WriteFails(t)  PROVE VersionsAgree'
  BY <1>19 DEF WriteFails, Moves, Keeps, Closes, Transition
<1>20. ASSUME NEW t \in Threads, CleanupFails(t)  PROVE VersionsAgree'
  BY <1>20 DEF CleanupFails, Moves, Keeps, Closes
<1>21. ASSUME NEW t \in Threads, EntryCancelled(t)  PROVE VersionsAgree'
  <2>1. UNCHANGED <<file, durable, writes, acked, placed, current>>
    BY <1>21 DEF EntryCancelled
  <2>2. \A u \in Threads : pc'[u] = pc[u] \/ pc'[u] \in {"leaving", "idle"}
    BY <1>21 DEF EntryCancelled, Moves
  <2> QED
    BY <2>1, <2>2
<1>22. ASSUME NEW t \in Threads, NEW state \in States, RefreshFails(t, state)
      PROVE  VersionsAgree'
  BY <1>22 DEF RefreshFails, Moves, Keeps, Closes, Transition
<1>23. CASE Start
  BY <1>23 DEF Start
<1>24. CASE Crash
  BY <1>24 DEF Crash, ProcessEnds
<1>25. CASE PowerFails
  BY <1>25 DEF PowerFails, ProcessEnds
<1>26. CASE Lapse
  BY <1>26 DEF Lapse
<1>27. ASSUME NEW o \in Others, NEW mode \in {"shared", "exclusive"},
         OtherLocks(o, mode)
      PROVE  VersionsAgree'
  BY <1>27 DEF OtherLocks, FlockIsFree, FreeOfWriters
<1>28. ASSUME NEW o \in Others, NEW authorization \in 1 .. writes + 1,
              NEW condition \in Conditions, OtherReplaces(o, authorization, condition)
      PROVE  VersionsAgree'
  <2>1. \A u \in Threads : pc[u] \notin Inside /\ pc'[u] = pc[u]
    BY <1>28, ThreadsAreKnown DEF OtherReplaces
  <2>2. /\ durable' \in {{file'}, durable \cup {file'}}
        /\ acked' = acked /\ writes' = writes + 1
        /\ file'.version = writes + 1 /\ file'.by = "other"
    BY <1>28 DEF OtherReplaces, NewDocument
  <2>3. acked <= writes
    OBVIOUS
  <2>4. AckedSurvives'
    BY <2>2, <2>3
  <2>5. DurableIsNoLater'
    BY <2>2
  <2> QED
    BY <2>1, <2>2, <2>4, <2>5
<1>29. ASSUME NEW o \in Others, OtherUnlocks(o)  PROVE VersionsAgree'
  BY <1>29 DEF OtherUnlocks
<1>30. ASSUME NEW t \in Threads, SyncIsRefused(t)  PROVE VersionsAgree'
  BY <1>30 DEF SyncIsRefused, Moves
<1>31. ASSUME NEW condition \in {"whole", "corrupt"}, Reauthorizes(condition)
      PROVE  VersionsAgree'
  <2>1. UNCHANGED <<pc, current, placed>>
    BY <1>31 DEF Reauthorizes
  <2>2. /\ acked' = acked /\ writes' = writes + 1
        /\ file'.version = writes + 1 /\ file'.by = "manual"
    BY <1>31 DEF Reauthorizes, NewDocument
  <2>3. \A d \in durable' : \/ d \in durable
                            \/ d.version = writes + 1 /\ d.by = "manual"
    BY <1>31, <2>2 DEF Reauthorizes
  <2>4. acked <= writes /\ file' \in durable'
    BY <1>31 DEF Reauthorizes
  <2>5. AckedSurvives'
    BY <2>2, <2>3, <2>4
  <2>6. ASSUME NEW u \in Threads, pc[u] \in {"using", "writing", "written"}
        PROVE  current[u].version <= writes
    <3>1. current[u].version <= file.version
      BY <2>6
    <3> QED
      BY <3>1
  <2>7. ASSUME NEW u \in Threads, pc[u] \in {"replaced", "saved", "unsynced"}
        PROVE  placed[u].version <= writes
    <3>1. placed[u] = file \/ placed[u].version < file.version
      BY <2>7
    <3>2. placed[u] \in Documents
      OBVIOUS
    <3> QED
      BY <3>1, <3>2
  <2>8. \A u \in Threads : pc[u] = "saved" =>
          \A d \in durable' : placed[u].version <= d.version
    BY <2>2, <2>3, <2>7
  <2>9. CallbacksSeeTheDocument'
    BY <2>1, <2>2, <2>6
  <2>10. PlacedIsSeen'
    BY <2>1, <2>2, <2>7
  <2>11. SyncedIsSafe'
    BY <2>1, <2>8
  <2>12. DurableIsNoLater'
    BY <2>2, <2>3, <1>31 DEF Reauthorizes
  <2> QED
    BY <2>5, <2>9, <2>10, <2>11, <2>12
<1> QED
  BY <1>1, <1>2, <1>3, <1>4, <1>5, <1>6, <1>7, <1>8, <1>9, <1>10, <1>11,
    <1>12, <1>13, <1>14, <1>15, <1>16, <1>17, <1>18, <1>19, <1>20, <1>21, <1>22,
    <1>23, <1>24, <1>25, <1>26, <1>27, <1>28, <1>29, <1>30, <1>31
  DEF Next, ThreadStep, ClientStep, Mishap, States

\* The invariant holds in every reachable state.
THEOREM TokenInvHolds == Spec => []TokenInv
<1>1. Init => TokenInv
  <2> SUFFICES ASSUME Init  PROVE TokenInv
    OBVIOUS
  <2>1. TypeOK
    BY DEF Init, TypeOK, Points, HasThreadLock, Inside, States, Failures, Documents,
       Conditions, Authors, NoDocument
  <2>2. LocksAgree
    BY ThreadsAreKnown DEF Init, LocksAgree, HasThreadLock, Inside
  <2>3. VersionsAgree
    BY DEF Init, VersionsAgree, CallbacksSeeTheDocument, AckedSurvives, PlacedIsSeen,
       SyncedIsSafe, DurableIsNoLater
  <2> QED
    BY <2>1, <2>2, <2>3 DEF TokenInv
<1>2. TokenInv /\ [Next]_vars => TokenInv'
  <2> SUFFICES ASSUME TokenInv, [Next]_vars  PROVE TokenInv'
    OBVIOUS
  <2>1. CASE Next
    BY <2>1, StepsKeepTypes, StepsKeepLocks, StepsKeepVersions DEF TokenInv
  <2>2. CASE UNCHANGED vars
    BY <2>2 DEF vars, inHand, threadVars, diskVars, TokenInv, TypeOK, LocksAgree,
       VersionsAgree, CallbacksSeeTheDocument, AckedSurvives, PlacedIsSeen, SyncedIsSafe, DurableIsNoLater
  <2> QED
    BY <2>1, <2>2
<1> QED
  BY <1>1, <1>2, PTL DEF Spec
-----------------------------------------------------------------------------
(* The theorems.                                                           *)

\* Every variable of the token manager keeps its type.
THEOREM TokenTypesHold == Spec => []TypeOK
BY TokenInvHolds, PTL DEF TokenInv

\* Token transactions exclude one another, in this process and with the others:
\* between the flock and its release no one else holds it, in any mode.
THEOREM OneTransaction == Spec => []TransactionsExclude
<1>1. TokenInv => TransactionsExclude
  BY DEF TokenInv, LocksAgree, TransactionsExclude, Writers
<1> QED
  BY <1>1, TokenInvHolds, PTL

\* The document a transaction's callbacks work from is the one on disk, but for a manual
\* login that came between.
THEOREM CallbacksAreCurrent == Spec => []CallbacksSeeTheDocument
BY TokenInvHolds, PTL DEF TokenInv, VersionsAgree

\* A token whose write was reported done, its directory synced, outlives a crash and a
\* power failure.
THEOREM AckedTokensSurvive == Spec => []AckedSurvives
BY TokenInvHolds, PTL DEF TokenInv, VersionsAgree
-----------------------------------------------------------------------------
(* The refinement.                                                         *)

\* The steps that the register can see; every other step leaves flock and document.
SeenStep ==
  \/ \E t \in Threads :
       TakeFlock(t) \/ ReleaseFlock(t) \/ ReplaceDocument(t) \/ SyncDirectory(t)
  \/ Crash \/ PowerFails
  \/ \E o \in Others :
       \/ \E mode \in {"shared", "exclusive"} : OtherLocks(o, mode)
       \/ \E authorization \in 1 .. writes + 1, condition \in Conditions :
            OtherReplaces(o, authorization, condition)
       \/ OtherUnlocks(o)
  \/ \E condition \in {"whole", "corrupt"} : Reauthorizes(condition)

\* A step is one of those above, or touches neither the lock file nor the document.
LEMMA OtherStepsAreUnseen ==
  ASSUME [Next]_vars
  PROVE  SeenStep \/ UNCHANGED <<flock, file, durable>>
BY DEF Next, SeenStep, ThreadStep, ClientStep, Mishap, vars, diskVars, AdmitRead, Begin,
   Lapse, SyncIsRefused,
   TakeThreadLock, ThreadLockTimesOut, FlockTimesOut, LoadDocument, WriteTemporary,
   WriteSucceeds, ReleaseThreadLock, Report, WriteBegins, InvalidToken, OperationEnds,
   RefreshFails, StoreUnavailable, WriteFails, CleanupFails, EntryCancelled, Start

\* No failure of the gateway, at any step, puts a broken document in the place of a
\* usable one.
THEOREM DocumentIsNeverDamaged == Spec => DocumentStaysWhole
<1> DEFINE Damage == file.is = "whole" /\ file'.is # "whole"
           Excused == /\ file'.by # "gateway"
                      /\ file'.version = file.version => file'.by = "manual"
<1>1. ASSUME TokenInv, [Next]_vars, Damage  PROVE Excused
  <2>1. file \in Documents /\ durable \subseteq Documents /\ file.version <= writes
        /\ writes \in Nat
    BY <1>1 DEF TokenInv, TypeOK, VersionsAgree, DurableIsNoLater
  <2>2. SeenStep
    BY <1>1, OtherStepsAreUnseen
  <2>3. \A t \in Threads : ~(TakeFlock(t) \/ ReleaseFlock(t) \/ SyncDirectory(t))
    BY <1>1 DEF TakeFlock, ReleaseFlock, SyncDirectory, diskVars
  <2>4. \A t \in Threads : ~ReplaceDocument(t)
    BY <1>1, <2>1 DEF ReplaceDocument, NewDocument
  <2>5. ~Crash
    BY <1>1, <2>1 DEF Crash
  <2>6. CASE PowerFails
    BY <1>1, <2>1, <2>6 DEF PowerFails, TokenInv, VersionsAgree, DurableIsNoLater
  <2>7. \A o \in Others :
          ~OtherUnlocks(o) /\ \A mode \in {"shared", "exclusive"} : ~OtherLocks(o, mode)
    BY <1>1 DEF OtherLocks, OtherUnlocks, diskVars
  <2>8. ASSUME NEW o \in Others, NEW authorization \in 1 .. writes + 1,
               NEW condition \in Conditions, OtherReplaces(o, authorization, condition)
        PROVE  Excused
    BY <2>1, <2>8 DEF OtherReplaces, NewDocument
  <2>9. ASSUME NEW condition \in {"whole", "corrupt"}, Reauthorizes(condition)
        PROVE  Excused
    BY <2>9 DEF Reauthorizes, NewDocument
  <2> QED
    BY <2>2, <2>3, <2>4, <2>5, <2>6, <2>7, <2>8, <2>9 DEF SeenStep
<1>2. TokenInv /\ [Next]_vars => [Damage => Excused]_vars
  BY <1>1
<1> QED
  BY <1>2, TokenInvHolds, PTL DEF Spec, DocumentStaysWhole

\* The store implements TokenRegister: two locks, a temporary file, a replacement and
\* a sync amount to one document that one client at a time replaces, and a manual login
\* overrides.
THEOREM StoreImplementsRegister == Spec => ImplementsRegister
<1> DEFINE version == file.version
           restorable == {d.version : d \in durable}
           outside == file.by = "manual"
           Holders == {a \in Threads \cup Others : flock[a] = "exclusive"}
<1>1. Init => Register!Init
  <2> SUFFICES ASSUME Init  PROVE Register!Init
    OBVIOUS
  <2>1. Writers = {}
    BY ThreadsAreKnown DEF Init, Writers, Inside
  <2>2. version \in Nat /\ restorable = {version}
    BY DEF Init
  <2> QED
    BY <2>1, <2>2 DEF Register!Init
<1>2. ASSUME TokenInv, TokenInv', [Next]_vars
      PROVE  [Register!Next]_<<Writers, version, restorable, outside>>
  <2>1. Writers = Holders /\ Writers' = Holders'
    BY <1>2, ThreadsAreKnown DEF TokenInv, LocksAgree, Writers
  <2>2. /\ file \in Documents /\ durable \subseteq Documents /\ writes \in Nat
        /\ file' \in Documents /\ durable' \subseteq Documents
        /\ file \in durable /\ file' \in durable'
        /\ file.version <= writes
        /\ \A d \in durable : d.version <= file.version
    BY <1>2 DEF TokenInv, TypeOK, VersionsAgree, AckedSurvives, DurableIsNoLater
  <2>3. CASE UNCHANGED <<flock, file, durable>>
    BY <2>1, <2>3
  <2>4. ASSUME NEW t \in Threads, TakeFlock(t)  PROVE Register!Enter(t)
    <3>1. Holders = {}
      BY <1>2, <2>4 DEF TakeFlock, FlockIsFree, Moves, TokenInv, TypeOK, LocksAgree, Inside
    <3>2. Holders' = {t}
      BY <1>2, <2>4, <3>1 DEF TakeFlock, TokenInv, TypeOK
    <3> QED
      BY <2>1, <2>4, <3>1, <3>2 DEF TakeFlock, diskVars, Register!Enter
  <2>5. ASSUME NEW t \in Threads, ReleaseFlock(t)  PROVE Register!Leave(t)
    <3>1. t \in Holders
      BY <1>2, <2>5 DEF ReleaseFlock, Moves, TokenInv, LocksAgree, Inside
    <3>2. Holders' = Holders \ {t}
      BY <1>2, <2>5 DEF ReleaseFlock, TokenInv, TypeOK
    <3> QED
      BY <2>1, <2>5, <3>1, <3>2 DEF ReleaseFlock, diskVars, Register!Leave
  <2>6. ASSUME NEW t \in Threads, pc[t] \in Inside  PROVE Holders = {t}
    BY <1>2, <2>6 DEF TokenInv, LocksAgree
  <2>7. ASSUME file'.version = writes + 1
        PROVE  Register!Newer
    BY <2>2, <2>7 DEF Documents, Register!Newer
  <2>8. ASSUME durable' = durable \cup {file'}
        PROVE  restorable' = restorable \cup {version'}
    BY <2>8
  <2>9. ASSUME NEW t \in Threads, ReplaceDocument(t)  PROVE Register!Replace(t)
    <3>1. Holders = {t} /\ Holders' = Holders
      BY <2>6, <2>9 DEF ReplaceDocument, Moves, Inside
    <3>2. file'.version = writes + 1 /\ outside' = FALSE
      BY <2>9 DEF ReplaceDocument, NewDocument
    <3>3. restorable' = restorable \cup {version'}
      BY <2>8, <2>9 DEF ReplaceDocument
    <3> QED
      BY <2>1, <2>7, <3>1, <3>2, <3>3 DEF Register!Replace
  <2>10. ASSUME NEW t \in Threads, SyncDirectory(t)  PROVE Register!Secure(t)
    <3>1. Holders = {t} /\ Holders' = Holders
      BY <2>6, <2>10 DEF SyncDirectory, Moves, Inside
    <3>2. version' = version /\ outside' = outside
      BY <2>10 DEF SyncDirectory
    <3>3. durable' \subseteq durable
      BY <2>10 DEF SyncDirectory
    <3>4. restorable' \subseteq restorable /\ version \in restorable'
      BY <2>2, <3>2, <3>3
    <3> QED
      BY <2>1, <3>1, <3>2, <3>4 DEF Register!Secure
  <2>11. CASE Crash \/ PowerFails
    <3>1. Holders' \subseteq Holders
      BY <1>2, <2>11 DEF Crash, PowerFails, TokenInv, TypeOK
    <3>2. \/ version' = version /\ restorable' = restorable /\ outside' = outside
          \/ version' \in restorable /\ restorable' = {version'} /\ outside' \in BOOLEAN
      BY <2>11 DEF Crash, PowerFails
    <3> QED
      BY <2>1, <3>1, <3>2 DEF Register!Next, Register!Fail
  <2>12. ASSUME NEW o \in Others, NEW mode \in {"shared", "exclusive"}, OtherLocks(o, mode)
         PROVE  Register!Enter(o) \/ UNCHANGED <<Writers, version, restorable, outside>>
    <3>1. CASE mode = "exclusive"
      <4>1. Holders = {}
        BY <2>12, <3>1, <1>2 DEF OtherLocks, FlockIsFree, TokenInv, TypeOK
      <4>2. Holders' = {o}
        BY <1>2, <2>12, <3>1, <4>1 DEF OtherLocks, TokenInv, TypeOK
      <4> QED
        BY <2>1, <2>12, <4>1, <4>2 DEF OtherLocks, diskVars, Register!Enter
    <3>2. CASE mode = "shared"
      <4>1. Holders' = Holders
        BY <1>2, <2>12, <3>2 DEF OtherLocks, TokenInv, TypeOK
      <4> QED
        BY <2>1, <2>12, <4>1 DEF OtherLocks, diskVars
    <3> QED
      BY <3>1, <3>2
  <2>13. ASSUME NEW o \in Others, NEW authorization \in 1 .. writes + 1,
                NEW condition \in Conditions, OtherReplaces(o, authorization, condition)
         PROVE  Register!Replace(o)
    <3>1. Holders = {o} /\ Holders' = Holders
      BY <1>2, <2>13 DEF OtherReplaces, TokenInv, LocksAgree
    <3>2. file'.version = writes + 1 /\ outside' = FALSE
      BY <2>13 DEF OtherReplaces, NewDocument
    <3>3. restorable' \in {{version'}, restorable \cup {version'}}
      BY <2>8, <2>13 DEF OtherReplaces
    <3> QED
      BY <2>1, <2>7, <3>1, <3>2, <3>3 DEF Register!Replace
  <2>14. ASSUME NEW o \in Others, OtherUnlocks(o)
         PROVE  Register!Leave(o) \/ UNCHANGED <<Writers, version, restorable, outside>>
    <3>1. Holders' = Holders \ {o}
      BY <1>2, <2>14 DEF OtherUnlocks, TokenInv, TypeOK
    <3> QED
      BY <2>1, <2>14, <3>1 DEF OtherUnlocks, diskVars, Register!Leave
  <2>15. ASSUME NEW condition \in {"whole", "corrupt"}, Reauthorizes(condition)
         PROVE  Register!Override
    <3>1. file'.version = writes + 1 /\ outside' = TRUE /\ Holders' = Holders
      BY <2>15 DEF Reauthorizes, NewDocument
    <3>2. restorable' = restorable \cup {version'}
      <4>1. [file' EXCEPT !.is = "corrupt"].version = version'
        BY <2>2 DEF Documents
      <4> QED
        BY <2>15, <4>1 DEF Reauthorizes
    <3> QED
      BY <2>1, <2>7, <3>1, <3>2 DEF Register!Override
  <2> QED
    BY <1>2, <2>3, <2>4, <2>5, <2>9, <2>10, <2>11, <2>12, <2>13, <2>14, <2>15,
       OtherStepsAreUnseen DEF SeenStep, Register!Next
<1> QED
  BY <1>1, <1>2, TokenInvHolds, PTL DEF Spec, ImplementsRegister, Register!Spec
=============================================================================
