----------------------------- MODULE TokenManager -----------------------------
(***************************************************************************)
(* AtomicTokenManager over AtomicFileTokenStore: the threads of the        *)
(* gateway read and replace one token document under a thread lock and an  *)
(* flock, and record what happened to them in one health state.            *)
(*                                                                         *)
(* A thread's pc is the point it has reached in _hold_lock, in the         *)
(* transaction inside it or in write().  The flock excludes other          *)
(* processes that take it; how long a lock is waited for is left open, but *)
(* a wait times out only while another holds the lock.  Unlocking never    *)
(* fails.  The weekly manual login takes no lock: it may write the         *)
(* document at any moment, under a transaction too.                        *)
(***************************************************************************)
EXTENDS Naturals, FiniteSets

CONSTANTS
  Startup,      \* the load() of build_live_app
  Recovery,     \* the load() of TokenReadinessRecovery
  Reads,        \* access transactions of requests that passed the readiness check
  Logins,       \* access transactions that no check precedes: warm-up, stream login
  Refreshes,    \* refresh()
  Probes,       \* observe_refresh_deadline()
  Others,       \* other processes that take the flock
  NoThread,
  MaxVersion,   \* bound on replacements of the document (begun: one may still follow)
  MaxCrashes

Loads    == Startup \cup Recovery
Accesses == Reads \cup Logins
Threads  == Loads \cup Accesses \cup Refreshes \cup Probes

ASSUME ThreadsAreKnown ==
  /\ NoThread \notin Threads
  /\ Threads \cap Others = {}
  /\ Loads \cap (Accesses \cup Refreshes \cup Probes) = {}
  /\ Accesses \cap (Refreshes \cup Probes) = {}
  /\ Refreshes \cap Probes = {}
ASSUME BoundsAreNatural == MaxVersion \in Nat /\ MaxCrashes \in Nat

VARIABLES
  proc,         \* the gateway's process
  health,       \* _health.state
  pc, outcome,              \* of each thread
  current,      \* of each thread: _ScopedTokenCallbacks._current
  placed,       \* of each thread: the document its write() has put in place
  threadLock,   \* the RLock of the path
  flock,        \* who holds the lock file, and how
  file,         \* the document other openers see
  durable,      \* the documents a power failure may leave
  writes,       \* history: how often the document was replaced, by anyone
  lapsed,       \* the latest authorization whose lifetime is over
  acked,        \* history: the last write reported done with its directory synced
  crashes

inHand == <<current, placed>>
threadVars == <<pc, outcome, inHand>>
diskVars == <<file, durable, writes, lapsed>>
vars == <<proc, health, threadVars, threadLock, flock, diskVars, acked, crashes>>

\* validate_token_document tells the conditions apart.  A document has the number of
\* the replacement that put it there, the authorization (grant) it descends from,
\* numbered by the replacement that began it, and its author.
Conditions == {"whole", "corrupt", "missing"}
Authors == {"gateway", "other", "manual"}
Documents == [version : Nat, grant : Nat, is : Conditions, by : Authors]
NoDocument == [version |-> 0, grant |-> 0, is |-> "missing", by |-> "other"]

NewDocument(authorization, condition, author) ==
  [version |-> writes + 1, grant |-> authorization, is |-> condition, by |-> author]

Failures == {"missing", "corrupt", "expired", "lock_timeout", "persistence"}

\* mutant: a failure is recorded under its own name
StateOfFailure(o) == IF o = "ok" THEN "ready" ELSE o

\* _FAILURE_OUTCOMES
StateOf(o) ==
  CASE o = "ok"          -> "ready"
    [] o = "persistence" -> "persistence_failed"
    [] OTHER             -> o

States ==
  {"uninitialized", "ready", "refreshing", "missing", "corrupt", "expired", "revoked",
   "reauthorization_required", "lock_timeout", "refresh_failed", "persistence_failed"}

\* From the thread lock taken, and from the flock taken, to its release.
Inside ==
  {"locked", "using", "writing", "written", "replaced", "saved", "unsynced", "leaving"}
HasThreadLock == {"opening", "unlocked"} \cup Inside
Points == {"idle", "admitted", "begun", "reporting"} \cup HasThreadLock

TypeOK ==
  /\ proc \in {"down", "starting", "up"}
  /\ health \in States
  /\ pc \in [Threads -> Points]
  /\ outcome \in [Threads -> Failures \cup {"ok", "recorded"}]
  /\ current \in [Threads -> Documents]
  /\ placed \in [Threads -> Documents]
  /\ threadLock \in Threads \cup {NoThread}
  /\ flock \in [Threads \cup Others -> {"none", "shared", "exclusive"}]
  /\ file \in Documents
  /\ durable \in SUBSET Documents
  /\ writes \in Nat
  /\ lapsed \in Nat
  /\ acked \in Nat
  /\ crashes \in Nat

\* The document is there and in use when the gateway is first started, or not.
Init ==
  /\ proc = "down"
  /\ health = "uninitialized"
  /\ pc = [t \in Threads |-> "idle"]
  /\ outcome = [t \in Threads |-> "ok"]
  /\ current = [t \in Threads |-> NoDocument]
  /\ placed = [t \in Threads |-> NoDocument]
  /\ threadLock = NoThread
  /\ flock = [a \in Threads \cup Others |-> "none"]
  /\ file \in [version : {1}, grant : {1}, is : Conditions, by : {"manual"}]
  /\ durable = {file}
  /\ writes = 1
  /\ lapsed \in {0, 1}
  /\ acked = 0
  /\ crashes = 0
-----------------------------------------------------------------------------
(* _hold_lock                                                              *)

Moves(t, from, to) == pc[t] = from /\ pc' = [pc EXCEPT ![t] = to]
Transition(state) == health' = state
Keeps(t, o) == outcome' = [outcome EXCEPT ![t] = o]
Closes(t) ==
  /\ current' = [current EXCEPT ![t] = NoDocument]
  /\ placed' = [placed EXCEPT ![t] = NoDocument]

\* mutant: a shared holder does not stand in the way
FreeOfWriters(t) == \A a \in DOMAIN flock \ {t} : flock[a] # "exclusive"
\* mutant: a writer asks for LOCK_SH
FreeOfReaders(t) == \A a \in DOMAIN flock \ {t} : flock[a] # "shared"
FlockIsFree(t) == \A a \in DOMAIN flock \ {t} : flock[a] = "none"

\* A request is checked here and read later (_not_ready_response).
AdmitRead(t) ==
  /\ t \in Reads
  /\ proc = "up"
  /\ health = "ready"
  /\ Moves(t, "idle", "admitted")
  /\ UNCHANGED <<proc, health, outcome, inHand, threadLock, flock, diskVars, acked, crashes>>

\* mutant: only a lock timeout is taken for transient
NeedsRecoveryOnTimeout == health = "lock_timeout"
NeedsRecovery == health # "ready"

Begin(t) ==
  /\ \/ t \in Startup /\ proc = "starting" /\ Moves(t, "idle", "begun")
     \/ t \in Recovery /\ proc = "up" /\ NeedsRecovery /\ Moves(t, "idle", "begun")
     \/ t \in Logins \cup Refreshes \cup Probes /\ proc = "up" /\ Moves(t, "idle", "begun")
     \/ t \in Reads /\ Moves(t, "admitted", "begun")
  /\ UNCHANGED <<proc, health, outcome, inHand, threadLock, flock, diskVars, acked, crashes>>

TakeThreadLock(t) ==
  /\ Moves(t, "begun", "opening")
  /\ threadLock = NoThread
  /\ threadLock' = t
  /\ UNCHANGED <<proc, health, outcome, inHand, flock, diskVars, acked, crashes>>

ThreadLockTimesOut(t) ==
  /\ Moves(t, "begun", "reporting")
  /\ threadLock # NoThread
  /\ Keeps(t, "lock_timeout")
  /\ UNCHANGED <<proc, health, inHand, threadLock, flock, diskVars, acked, crashes>>

TakeFlock(t) ==
  /\ Moves(t, "opening", "locked")
  /\ FlockIsFree(t)
  /\ flock' = [flock EXCEPT ![t] = "exclusive"]
  /\ UNCHANGED <<proc, health, outcome, inHand, threadLock, diskVars, acked, crashes>>

FlockNeverTimesOut(t) == FALSE         \* mutant: flock without LOCK_NB

FlockTimesOut(t) ==
  /\ Moves(t, "opening", "reporting")
  /\ ~FlockIsFree(t)
  /\ Keeps(t, "lock_timeout")
  /\ threadLock' = NoThread
  /\ UNCHANGED <<proc, health, inHand, flock, diskVars, acked, crashes>>

\* The parent directory is gone, or the lock file cannot be opened or locked.
StoreUnavailable(t) ==
  /\ \/ Moves(t, "begun", "reporting") /\ UNCHANGED threadLock
     \/ Moves(t, "opening", "reporting") /\ threadLock' = NoThread
  /\ Keeps(t, "persistence")
  /\ UNCHANGED <<proc, health, inHand, flock, diskVars, acked, crashes>>

ReleaseFlock(t) ==
  /\ Moves(t, "leaving", "unlocked")
  /\ flock' = [flock EXCEPT ![t] = "none"]
  /\ UNCHANGED <<proc, health, outcome, inHand, threadLock, diskVars, acked, crashes>>

\* load() and refresh() record their outcome once they are out of the lock.
ReleaseThreadLock(t) ==
  /\ \/ t \in Loads \cup Refreshes /\ Moves(t, "unlocked", "reporting") /\ UNCHANGED outcome
     \/ t \in Accesses \cup Probes /\ Moves(t, "unlocked", "idle") /\ Keeps(t, "ok")
  /\ threadLock' = NoThread
  /\ UNCHANGED <<proc, health, inHand, flock, diskVars, acked, crashes>>
-----------------------------------------------------------------------------
(* The transaction inside the lock.                                        *)

\* _load_from_transaction; the probe does not look at the clock.
LoadOutcome(t) ==
  CASE file.is \in {"missing", "corrupt"}             -> file.is
    [] file.is = "whole" /\ file.grant <= lapsed /\ t \notin Probes -> "expired"
    [] OTHER                                           -> "ok"

\* An access transaction records its load where it happens; refresh() starts.
LoadDocument(t) ==
  /\ IF LoadOutcome(t) = "ok" /\ t \in Accesses \cup Refreshes
     THEN /\ Moves(t, "locked", "using")
          /\ current' = [current EXCEPT ![t] = file]
          /\ UNCHANGED placed
     ELSE /\ Moves(t, "locked", "leaving")
          /\ UNCHANGED inHand
  /\ Keeps(t, LoadOutcome(t))
  /\ CASE t \in Accesses                              -> Transition(StateOf(LoadOutcome(t)))
       [] t \in Refreshes /\ LoadOutcome(t) = "ok"    -> Transition("refreshing")
       [] OTHER                                       -> UNCHANGED health
  /\ UNCHANGED <<proc, threadLock, flock, diskVars, acked, crashes>>

\* The client calls the write callback, or refresh() has its new token.
WriteBegins(t) ==
  /\ Moves(t, "using", "writing")
  /\ writes < MaxVersion
  /\ IF t \in Accesses THEN Transition("refreshing") ELSE UNCHANGED health
  /\ UNCHANGED <<proc, outcome, inHand, threadLock, flock, diskVars, acked, crashes>>

InvalidToken(t) ==
  /\ Moves(t, "writing", "leaving")
  /\ Transition("refresh_failed")
  /\ Keeps(t, "recorded")
  /\ Closes(t)
  /\ UNCHANGED <<proc, threadLock, flock, diskVars, acked, crashes>>

\* mutant: the document is written in place
WriteInPlace(t) ==
  /\ Moves(t, "writing", "written")
  /\ file' = [file EXCEPT !.is = "corrupt", !.by = "gateway"]
  /\ durable' = {file'}
  /\ UNCHANGED <<proc, health, outcome, inHand, threadLock, flock, writes, lapsed, acked,
                 crashes>>

\* The temporary file is written and synced.
WriteTemporary(t) ==
  /\ Moves(t, "writing", "written")
  /\ UNCHANGED <<proc, health, outcome, inHand, threadLock, flock, diskVars, acked, crashes>>

\* os.replace.  The new token descends from the authorization of the document that the
\* read callback gave out, whatever is on disk by now.
ReplaceDocument(t) ==
  /\ Moves(t, "written", "replaced")
  /\ file' = NewDocument(current[t].grant, "whole", "gateway")
  /\ placed' = [placed EXCEPT ![t] = file']
  /\ durable' = durable \cup {file'}
  /\ writes' = writes + 1
  /\ UNCHANGED <<proc, health, outcome, current, threadLock, flock, lapsed, acked, crashes>>

\* mutant: the directory is not synced
SyncNothing(t) ==
  /\ Moves(t, "replaced", "saved")
  /\ UNCHANGED <<proc, health, outcome, inHand, threadLock, flock, diskVars, acked, crashes>>

\* What the directory named before is gone for good.
SyncDirectory(t) ==
  /\ Moves(t, "replaced", "saved")
  /\ durable' = {d \in durable : d.version >= placed[t].version}
  /\ UNCHANGED <<proc, health, outcome, inHand, threadLock, flock, file, writes, lapsed,
                 acked, crashes>>

\* The file system cannot sync a directory (EINVAL, ENOTSUP, EBADF): nobody is told.
SyncIsRefused(t) ==
  /\ Moves(t, "replaced", "unsynced")
  /\ UNCHANGED <<proc, health, outcome, inHand, threadLock, flock, diskVars, acked, crashes>>

\* mutant: the callbacks keep the document they were made with
CurrentIsKept(t) == current[t]
CurrentIsReplaced(t) == placed[t]

WriteSucceeds(t) ==
  /\ acked' = IF pc[t] = "saved" THEN placed[t].version ELSE acked
  /\ IF t \in Accesses
     THEN /\ \E from \in {"saved", "unsynced"} : Moves(t, from, "using")
          /\ Transition("ready")
          /\ current' = [current EXCEPT ![t] = CurrentIsReplaced(t)]
          /\ placed' = [placed EXCEPT ![t] = NoDocument]
          /\ UNCHANGED outcome
     ELSE /\ \E from \in {"saved", "unsynced"} : Moves(t, from, "leaving")
          /\ Keeps(t, "ok")
          /\ Closes(t)
          /\ UNCHANGED health
  /\ UNCHANGED <<proc, threadLock, flock, diskVars, crashes>>

\* write() failed, perhaps with the new document in place and not yet synced.
\* The error ends the operation; refresh() records it outside the lock.
WriteFails(t) ==
  /\ \E from \in {"writing", "written", "replaced"} : Moves(t, from, "leaving")
  /\ IF t \in Accesses
     THEN Transition("persistence_failed") /\ Keeps(t, "recorded")
     ELSE UNCHANGED health /\ Keeps(t, "persistence")
  /\ Closes(t)
  /\ UNCHANGED <<proc, threadLock, flock, diskVars, acked, crashes>>

\* The temporary file cannot be removed: an OSError that nothing records.
CleanupFails(t) ==
  /\ \E from \in {"writing", "written"} : Moves(t, from, "leaving")
  /\ Keeps(t, "recorded")
  /\ Closes(t)
  /\ UNCHANGED <<proc, health, threadLock, flock, diskVars, acked, crashes>>

\* The operation returns or raises, or its task is cancelled.
OperationEnds(t) ==
  /\ t \in Accesses
  /\ Moves(t, "using", "leaving")
  /\ Closes(t)
  /\ UNCHANGED <<proc, health, outcome, threadLock, flock, diskVars, acked, crashes>>

\* The refresh callback raises.
RefreshFails(t, state) ==
  /\ t \in Refreshes
  /\ Moves(t, "using", "leaving")
  /\ Transition(state)
  /\ Keeps(t, "recorded")
  /\ Closes(t)
  /\ UNCHANGED <<proc, threadLock, flock, diskVars, acked, crashes>>

\* A task cancelled while its lock is being entered leaves it again unused.
EntryCancelled(t) ==
  /\ t \in Logins
  /\ \/ Moves(t, "locked", "leaving")
     \/ Moves(t, "reporting", "idle")
  /\ Keeps(t, "ok")
  /\ UNCHANGED <<proc, health, inHand, threadLock, flock, diskVars, acked, crashes>>

Report(t) ==
  /\ Moves(t, "reporting", "idle")
  /\ IF outcome[t] = "recorded" \/ t \in Probes
     THEN UNCHANGED <<proc, health>>
     ELSE IF t \in Startup /\ outcome[t] # "ok"
     THEN proc' = "down" /\ Transition("uninitialized")
     ELSE proc' = "up" /\ Transition(StateOf(outcome[t]))
  /\ Keeps(t, "ok")
  /\ UNCHANGED <<inHand, threadLock, flock, diskVars, acked, crashes>>
-----------------------------------------------------------------------------
(* The process, the clock and the other processes.                         *)

Start ==
  /\ proc = "down"
  /\ proc' = "starting"
  /\ UNCHANGED <<health, threadVars, threadLock, flock, diskVars, acked, crashes>>

\* The process dies wherever it is; the kernel closes its descriptors.
ProcessEnds ==
  /\ proc # "down"
  /\ crashes < MaxCrashes
  /\ crashes' = crashes + 1
  /\ proc' = "down"
  /\ pc' = [t \in Threads |-> "idle"]
  /\ outcome' = [t \in Threads |-> "ok"]
  /\ current' = [t \in Threads |-> NoDocument]
  /\ placed' = [t \in Threads |-> NoDocument]
  /\ threadLock' = NoThread
  /\ health' = "uninitialized"
  /\ UNCHANGED <<writes, lapsed, acked>>

Crash ==
  /\ ProcessEnds
  /\ flock' = [a \in DOMAIN flock |-> IF a \in Threads THEN "none" ELSE flock[a]]
  /\ UNCHANGED <<file, durable>>

\* Every process dies, and what was not synced may be undone.
PowerFails ==
  /\ ProcessEnds
  /\ flock' = [a \in DOMAIN flock |-> "none"]
  /\ file' \in durable
  /\ durable' = {file'}

\* The lifetime of the refresh token ends, and with it that of all older ones.
Lapse ==
  /\ file.is = "whole"
  /\ file.grant > lapsed
  /\ lapsed' = file.grant
  /\ UNCHANGED <<proc, health, threadVars, threadLock, flock, file, durable, writes, acked,
                 crashes>>

OtherLocks(o, mode) ==
  /\ flock[o] = "none"
  /\ IF mode = "exclusive" THEN FlockIsFree(o) ELSE FreeOfWriters(o)
  /\ flock' = [flock EXCEPT ![o] = mode]
  /\ UNCHANGED <<proc, health, threadVars, threadLock, diskVars, acked, crashes>>

\* Another process writes under the lock; whether it syncs is its own affair.
OtherReplaces(o, authorization, condition) ==
  /\ flock[o] = "exclusive"
  /\ writes < MaxVersion
  /\ file' = NewDocument(authorization, condition, "other")
  /\ durable' \in {{file'}, durable \cup {file'}}
  /\ writes' = writes + 1
  /\ UNCHANGED <<proc, health, threadVars, threadLock, flock, lapsed, acked, crashes>>

\* The weekly client_from_manual_flow writes in place, with no lock and no sync, and
\* another process may find its document half written.
Reauthorizes(condition) ==
  /\ writes < MaxVersion
  /\ file' = NewDocument(writes + 1, condition, "manual")
  /\ durable' = durable \cup {file', [file' EXCEPT !.is = "corrupt"]}
  /\ writes' = writes + 1
  /\ UNCHANGED <<proc, health, threadVars, threadLock, flock, lapsed, acked, crashes>>

OtherUnlocks(o) ==
  /\ flock[o] # "none"
  /\ flock' = [flock EXCEPT ![o] = "none"]
  /\ UNCHANGED <<proc, health, threadVars, threadLock, diskVars, acked, crashes>>

\* Steps of a thread that wait for nothing but the machine.
ThreadStep(t) ==
  \/ TakeThreadLock(t)
  \/ ThreadLockTimesOut(t)
  \/ TakeFlock(t)
  \/ FlockTimesOut(t)
  \/ LoadDocument(t)
  \/ WriteTemporary(t)
  \/ ReplaceDocument(t)
  \/ SyncDirectory(t)
  \/ SyncIsRefused(t)
  \/ WriteSucceeds(t)
  \/ ReleaseFlock(t)
  \/ ReleaseThreadLock(t)
  \/ Report(t)

\* What the client inside a transaction does, and when.
ClientStep(t) ==
  \/ WriteBegins(t)
  \/ InvalidToken(t)
  \/ OperationEnds(t)
  \/ \E state \in {"revoked", "reauthorization_required", "refresh_failed"} :
       RefreshFails(t, state)

Mishap(t) == StoreUnavailable(t) \/ WriteFails(t) \/ CleanupFails(t) \/ EntryCancelled(t)

Next ==
  \/ \E t \in Threads :
       AdmitRead(t) \/ Begin(t) \/ ThreadStep(t) \/ ClientStep(t) \/ Mishap(t)
  \/ Start
  \/ Crash
  \/ PowerFails
  \/ Lapse
  \/ \E o \in Others :
       \/ \E mode \in {"shared", "exclusive"} : OtherLocks(o, mode)
       \/ \E authorization \in 1 .. writes + 1, condition \in Conditions :
            OtherReplaces(o, authorization, condition)
       \/ OtherUnlocks(o)
  \/ \E condition \in {"whole", "corrupt"} : Reauthorizes(condition)

Spec == Init /\ [][Next]_vars

\* Threads run, the recovery loop ticks and a gateway that stops is started again.
\* Nothing makes a client, or another process, leave the lock.
ThreadFairness ==
  /\ WF_vars(Start)
  /\ \A t \in Threads : WF_vars(ThreadStep(t))
  /\ \A t \in Startup \cup Recovery \cup Reads : WF_vars(Begin(t))

FairSpec == Spec /\ ThreadFairness
-----------------------------------------------------------------------------
(* Properties.                                                             *)

\* The threads in a transaction, and the other processes that may write.
Writers ==
  {t \in Threads : pc[t] \in Inside} \cup {o \in Others : flock[o] = "exclusive"}

\* "Serialize refreshes": one at most may write, of the threads and of the processes that
\* take the flock, and meanwhile no one else holds the lock file, to read or to write.
TransactionsExclude ==
  \A a \in Writers, b \in Threads \cup Others :
    a # b => b \notin Writers /\ flock[b] = "none"

\* What a transaction's read callback returns is the document on disk, after its own
\* writes too, unless a manual login has come between: nobody else can.
CallbacksSeeTheDocument ==
  \A t \in Threads : pc[t] \in {"using", "writing", "written"} =>
    \/ current[t] = file
    \/ file.by = "manual" /\ current[t].version < file.version

\* A token whose write was reported done (its predecessor is used up by then) and whose
\* directory could be synced is never undone by a crash or a power failure: all that one
\* may leave is that document or a later one.
AckedSurvives == file \in durable /\ \A d \in durable : acked <= d.version

\* Whatever step fails and wherever the process dies, a broken document in the place of a
\* usable one is never the gateway's, and the usable one was not written over, unless it
\* was the manual login's and a power failure tore it.
DocumentStaysWhole ==
  [][file.is = "whole" /\ file'.is # "whole" =>
       /\ file'.by # "gateway"
       /\ file'.version = file.version => file'.by = "manual"]_vars

\* The store is the register it promises to be.
Register == INSTANCE TokenRegister WITH
  Clients <- Threads \cup Others,
  holders <- Writers,
  version <- file.version,
  restorable <- {d.version : d \in durable},
  outside <- file.by = "manual"
ImplementsRegister == Register!Spec

\* "Access-token refresh does not move this deadline; interactive reauthorization does":
\* a refresh leaves the document with the authorization it had.
RefreshKeepsAuthorization ==
  [][\A t \in Threads : ReplaceDocument(t) => file'.grant = file.grant]_vars

\* A wait for the lock ends, whether its holder ever leaves or not.
LockWaitsEnd ==
  \A t \in Threads : pc[t] \in {"begun", "opening"} ~> pc[t] \notin {"begun", "opening"}

Quiet ==
  /\ \A t \in Logins \cup Refreshes \cup Probes : pc[t] = "idle"
  /\ \A o \in Others : flock[o] = "none"

Usable == file.is = "whole" /\ file.grant > lapsed
ClientsEnd == \A t \in Accesses : WF_vars(OperationEnds(t))
NoMoreMishaps == <>[][\A t \in Threads : ~Mishap(t) /\ ~InvalidToken(t)]_vars

\* A manager that was latched, by whatever failure, is ready again once the
\* document is usable and no one else keeps the lock: the recovery loop needs
\* no request to get there.
ReadinessRecovers ==
  ClientsEnd /\ <>[](Usable /\ Quiet) /\ NoMoreMishaps => []<>(health = "ready")

\* "write callback marks REFRESHING during token persistence": a request waits
\* for that state to pass.
RefreshingMeansWriting ==
  health = "refreshing" /\ proc = "up" =>
    \E t \in Accesses \cup Refreshes : pc[t] \in Inside \cup {"unlocked", "reporting"}
=============================================================================
