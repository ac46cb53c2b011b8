------------------------------ MODULE Scheduler ------------------------------
(***************************************************************************)
(* The gateway's ExecutionScheduler: two bounded FIFO queues in front of   *)
(* one non-preemptible execution slot.                                     *)
(*                                                                         *)
(* Every block the code runs under `async with self._lock` contains no     *)
(* await, so on the event loop it is one step; so is the tail of _run_job  *)
(* from the end of its wait to the release of the slot.  One action below  *)
(* is one such step.  Time is the number of ticks left before a deadline:  *)
(* loop.time() + n becomes n, and Tick counts every armed deadline down.   *)
(* A deadline that is not armed reads 0.                                   *)
(***************************************************************************)
EXTENDS Integers, Sequences, FiniteSets, SequencesExt

CONSTANTS
  Protected,        \* calls made with a protected key
  Background,       \* calls made with a background key
  Limit,            \* AdmissionPolicy: class -> capacity, running + queued
  QueueTimeout,     \* class -> queue_timeout_seconds
  ExecTimeout,      \* execution_timeout_seconds
  RequestBudgets,   \* what may be left of a request_deadline at the call
  Outcomes          \* how an operation ends

Classes == {"protected", "background"}
Jobs == Protected \cup Background
ClassOf(j) == IF j \in Protected THEN "protected" ELSE "background"

ASSUME ClassesAreDisjoint == Protected \cap Background = {}
ASSUME LimitIsPositive == Limit \in [Classes -> Nat \ {0}]
ASSUME TimeoutsArePositive ==
  /\ QueueTimeout \in [Classes -> Nat \ {0}]
  /\ ExecTimeout \in Nat \ {0}
  /\ RequestBudgets \subseteq Nat

Ended == {"value", "error", "cancelled"}
ASSUME OutcomesAreEnds == Outcomes \subseteq Ended

VARIABLES
  job,           \* the _Job of each call: its state, futures and deadlines
  caller,        \* where the coroutine in execute() is, or what it was told
  queue,         \* _queues
  allocated,     \* _allocated
  workerActive,  \* _worker_active
  accepting,     \* _accepting
  idle,          \* the _idle event
  shutdown       \* where the coroutine in shutdown() is

vars == <<job, caller, queue, allocated, workerActive, accepting, idle, shutdown>>

Answers == Ended \cup {"queue_timeout", "upstream_timeout", "rejected"}
InCall == {"starting", "waiting"}

\* state, started and result are the fields of _Job; a started future that
\* failed is the queue_timed_out flag.  operation is the task _run_job creates
\* and requestLeft the optional request_deadline: a set of at most one number.
JobRecord ==
  [ state       : {"absent", "queued", "running", "finished"},
    started     : {"pending", "set", "failed", "cancelled"},
    result      : {"pending", "upstream_timeout"} \cup Ended,
    operation   : {"none", "active"} \cup Ended,
    queueLeft   : Nat,
    requestLeft : SUBSET Nat,
    execLeft    : Int ]

NoJob ==
  [ state |-> "absent", started |-> "pending", result |-> "pending",
    operation |-> "none", queueLeft |-> 0, requestLeft |-> {}, execLeft |-> 0 ]

TypeOK ==
  /\ job \in [Jobs -> JobRecord]
  /\ \A j \in Jobs : \A m, n \in job[j].requestLeft : m = n
  /\ caller \in [Jobs -> {"absent"} \cup InCall \cup Answers]
  /\ queue \in [Classes -> Seq(Jobs)]
  /\ allocated \in [Classes -> Nat]
  /\ workerActive \in BOOLEAN
  /\ accepting \in BOOLEAN
  /\ idle \in BOOLEAN
  /\ shutdown \in {"none", "draining", "done"}

Init ==
  /\ job = [j \in Jobs |-> NoJob]
  /\ caller = [j \in Jobs |-> "absent"]
  /\ queue = [c \in Classes |-> <<>>]
  /\ allocated = [c \in Classes |-> 0]
  /\ workerActive = FALSE
  /\ accepting = TRUE
  /\ idle = TRUE
  /\ shutdown = "none"
-----------------------------------------------------------------------------
(* Helpers: the methods of ExecutionScheduler that run under its lock.     *)

Earliest(S) == CHOOSE d \in S : \A e \in S : d <= e
CountDown(n, floor) == IF n > floor THEN n - 1 ELSE n

Expired(r)    == [r EXCEPT !.state = "finished", !.started = "failed",
                           !.result = "cancelled", !.requestLeft = {}]
Removed(r)    == [r EXCEPT !.state = "finished", !.started = "cancelled",
                           !.result = "cancelled", !.requestLeft = {}]
Dispatched(r) == [r EXCEPT !.state = "running", !.started = "set"]
Unarmed(r)    == [r EXCEPT !.queueLeft = 0]

Drained(alloc) == \A c \in Classes : alloc[c] = 0

FreedNever(alloc, c) == alloc          \* mutant: the permit is not given back
FreedTwice(alloc, c) ==                \* mutant: the permit is given back twice
  [alloc EXCEPT ![c] = @ - 2]
Freed(alloc, c) == [alloc EXCEPT ![c] = @ - 1]

\* deque.remove
Without(q, j) == RemoveAt(q, CHOOSE i \in DOMAIN q : q[i] = j)

\* _release_queued_locked, for a job whose record becomes `after`.
ReleaseQueued(j, after) ==
  /\ queue' = [queue EXCEPT ![ClassOf(j)] = Without(@, j)]
  /\ allocated' = Freed(allocated, ClassOf(j))
  /\ job' = [job EXCEPT ![j] = after]
  /\ idle' = (idle \/ Drained(allocated'))

\* The number of jobs the dispatch loop expires at the head of one queue.
LapsedHeads(q, jobs) ==
  CHOOSE n \in 0 .. Len(q) :
    /\ \A i \in 1 .. n : jobs[q[i]].queueLeft = 0
    /\ n < Len(q) => jobs[q[n + 1]].queueLeft > 0

\* It turns to the background queue only when no protected job is left.
Lapsed(qs, jobs) ==
  LET p == LapsedHeads(qs["protected"], jobs)
  IN  [c \in Classes |->
         IF c = "protected" THEN p
         ELSE IF p < Len(qs["protected"]) THEN 0
         ELSE LapsedHeads(qs["background"], jobs)]

\* mutants: the background queue first; the background queue forgotten
NextClassReversed(qs) ==
  IF qs["background"] # <<>> THEN {"background"}
  ELSE {c \in {"protected"} : qs[c] # <<>>}
NextClassProtected(qs) == {c \in {"protected"} : qs[c] # <<>>}

\* The class whose first live job starts: a set of at most one class.
NextClass(qs) ==
  IF qs["protected"] # <<>> THEN {"protected"}
  ELSE IF qs["background"] # <<>> THEN {"background"}
  ELSE {}

\* _dispatch_locked on a free worker.
Dispatch(qs, alloc, jobs) ==
  LET lapsed == Lapsed(qs, jobs)
      live   == [c \in Classes |-> SubSeq(qs[c], lapsed[c] + 1, Len(qs[c]))]
      from   == NextClass(live)
      expires(j) == \E i \in 1 .. lapsed[ClassOf(j)] : qs[ClassOf(j)][i] = j
      starts(j)  == ClassOf(j) \in from /\ Head(live[ClassOf(j)]) = j
  IN  /\ queue' = [c \in Classes |-> IF c \in from THEN Tail(live[c]) ELSE live[c]]
      /\ allocated' = [c \in Classes |-> alloc[c] - lapsed[c]]
      /\ job' = [j \in Jobs |-> IF expires(j) THEN Expired(jobs[j])
                                ELSE IF starts(j) THEN Dispatched(jobs[j])
                                ELSE jobs[j]]
      /\ workerActive' = (from # {})
-----------------------------------------------------------------------------
(* execute(): admission.  A name in Jobs is used again once its call and   *)
(* its job are both over.                                                  *)

Idle(j) == caller[j] \notin InCall /\ job[j].state \notin {"queued", "running"}
HasRoom(c) == allocated[c] < Limit[c]

\* SchedulerCapacityError, at shutdown or with the class at its limit.
Reject(j) ==
  /\ Idle(j)
  /\ ~accepting \/ ~HasRoom(ClassOf(j))
  /\ job' = [job EXCEPT ![j] = NoJob]
  /\ caller' = [caller EXCEPT ![j] = "rejected"]
  /\ UNCHANGED <<queue, allocated, workerActive, accepting, idle, shutdown>>

NewJob(j, budget) ==
  [NoJob EXCEPT !.state = "queued",
                !.queueLeft = Earliest({QueueTimeout[ClassOf(j)]} \cup budget),
                !.requestLeft = budget]

NeverBusy == FALSE                     \* mutant: dispatch without the guard
WorkerBusy == workerActive

Admit(j, budget) ==
  /\ Idle(j)
  /\ accepting
  /\ HasRoom(ClassOf(j))
  /\ LET qs    == [queue EXCEPT ![ClassOf(j)] = Append(@, j)]
         alloc == [allocated EXCEPT ![ClassOf(j)] = @ + 1]
         jobs  == [job EXCEPT ![j] = NewJob(j, budget)]
     IN  IF WorkerBusy
         THEN /\ queue' = qs
              /\ allocated' = alloc
              /\ job' = jobs
              /\ UNCHANGED workerActive
         ELSE Dispatch(qs, alloc, jobs)
  /\ idle' = Drained(allocated')
  /\ caller' = [caller EXCEPT ![j] = "starting"]
  /\ UNCHANGED <<accepting, shutdown>>
-----------------------------------------------------------------------------
(* execute(): the wait for the job.  A resolved future wakes its waiter in *)
(* a later step, so the timer or a cancellation may still come first.      *)

\* What the started future tells the coroutine that awaits it.
AfterStart(j) ==
  CASE job[j].started = "set"       -> "waiting"
    [] job[j].started = "failed"    -> "queue_timeout"
    [] job[j].started = "cancelled" -> "cancelled"

CallerResumes(j) ==
  /\ caller[j] = "starting"
  /\ job[j].started # "pending"
  /\ caller' = [caller EXCEPT ![j] = AfterStart(j)]
  /\ job' = [job EXCEPT ![j] = Unarmed(@)]
  /\ UNCHANGED <<queue, allocated, workerActive, accepting, idle, shutdown>>

TimerAnswerAlways(j) == "queue_timeout"   \* mutant: dispatch cannot have won
TimerAnswer(j) == IF job[j].started = "failed" THEN "queue_timeout" ELSE "waiting"

\* asyncio.timeout_at(queue_deadline) fires; the dispatch may have won.
QueueTimer(j) ==
  /\ caller[j] = "starting"
  /\ job[j].queueLeft = 0
  /\ \/ /\ job[j].state = "queued"
        /\ ReleaseQueued(j, Expired(job[j]))
        /\ caller' = [caller EXCEPT ![j] = "queue_timeout"]
     \/ /\ job[j].state # "queued"
        /\ caller' = [caller EXCEPT ![j] = TimerAnswer(j)]
        /\ UNCHANGED <<job, queue, allocated, idle>>
  /\ UNCHANGED <<workerActive, accepting, shutdown>>

ResultArrives(j) ==
  /\ caller[j] = "waiting"
  /\ job[j].result # "pending"
  /\ caller' = [caller EXCEPT ![j] = job[j].result]
  /\ UNCHANGED <<job, queue, allocated, workerActive, accepting, idle, shutdown>>

\* The caller's task is cancelled, for one by a client that disconnects.
CallerCancels(j) ==
  /\ caller[j] \in InCall
  /\ caller' = [caller EXCEPT ![j] = "cancelled"]
  /\ \/ /\ job[j].state = "queued"
        /\ ReleaseQueued(j, Unarmed(Removed(job[j])))
     \/ /\ job[j].state # "queued"
        /\ job' = [job EXCEPT ![j] = Unarmed(@)]
        /\ UNCHANGED <<queue, allocated, idle>>
  /\ UNCHANGED <<workerActive, accepting, shutdown>>
-----------------------------------------------------------------------------
(* _run_job(): the lifecycle of the job that holds the slot.               *)

Begun(r, budget) ==
  [r EXCEPT !.operation = "active", !.requestLeft = {}, !.execLeft = budget,
            !.result = IF budget = 0 THEN "upstream_timeout" ELSE @]

\* The lifecycle task runs for the first time: it fixes the execution
\* deadline and creates the operation, even when no budget is left.
LifecycleStarts(j) ==
  /\ job[j].state = "running"
  /\ job[j].operation = "none"
  /\ job' = [job EXCEPT ![j] =
               Begun(@, Earliest({ExecTimeout} \cup job[j].requestLeft))]
  /\ UNCHANGED <<caller, queue, allocated, workerActive, accepting, idle, shutdown>>

\* The operation ends by itself; execLeft stops at what was left of its budget.
OperationEnds(j, how) ==
  /\ job[j].operation = "active"
  /\ job' = [job EXCEPT ![j].operation = how]
  /\ UNCHANGED <<caller, queue, allocated, workerActive, accepting, idle, shutdown>>

\* mutant: the deadline is looked at only once the operation is done
OutOfBudgetOnceEnded(j) == job[j].execLeft <= 0 /\ job[j].operation # "active"
OutOfBudget(j) == job[j].execLeft <= 0

\* The execution deadline passes first: the caller is told, and the worker
\* drains the operation without cancelling it.
ExecutionTimer(j) ==
  /\ job[j].operation = "active"
  /\ OutOfBudget(j)
  /\ job[j].result = "pending"
  /\ job' = [job EXCEPT ![j].result = "upstream_timeout"]
  /\ UNCHANGED <<caller, queue, allocated, workerActive, accepting, idle, shutdown>>

InBudget(j) == job[j].execLeft >= 0

\* mutant: the result is resolved again at the end of a drain
FinalResultAgain(j) == IF InBudget(j) THEN job[j].operation ELSE "error"

\* What the lifecycle resolves the result future with; it keeps one that is done.
FinalResult(j) ==
  IF job[j].result # "pending" THEN job[j].result
  ELSE IF InBudget(j) THEN job[j].operation
  ELSE "upstream_timeout"

Completed(r, result) ==
  [r EXCEPT !.state = "finished", !.result = result, !.execLeft = 0]

\* mutants: the slot is released on timeout; only while the caller is there
OverOnTimeout(j) == job[j].operation \in Ended \/ job[j].result = "upstream_timeout"
OverForCaller(j) == job[j].operation \in Ended /\ caller[j] # "cancelled"
Over(j) == job[j].operation \in Ended

\* The lifecycle sees the operation done, resolves the result, and in the
\* finally block returns the slot and hands it to the next job.
LifecycleFinishes(j) ==
  /\ job[j].state = "running"
  /\ Over(j)
  /\ Dispatch(queue,
              Freed(allocated, ClassOf(j)),
              [job EXCEPT ![j] = Completed(@, FinalResult(j))])
  /\ idle' = (idle \/ Drained(allocated'))
  /\ UNCHANGED <<caller, accepting, shutdown>>
-----------------------------------------------------------------------------
(* shutdown()                                                              *)

\* mutant: admission stops, the queues stay
ShutdownKeepsQueues ==
  /\ shutdown = "none"
  /\ shutdown' = "draining"
  /\ accepting' = FALSE
  /\ UNCHANGED <<job, caller, queue, allocated, workerActive, idle>>

ShutdownBegins ==
  /\ shutdown = "none"
  /\ shutdown' = "draining"
  /\ accepting' = FALSE
  /\ job' = [j \in Jobs |-> IF job[j].state = "queued" THEN Removed(job[j]) ELSE job[j]]
  /\ queue' = [c \in Classes |-> <<>>]
  /\ allocated' = [c \in Classes |-> allocated[c] - Len(queue[c])]
  /\ idle' = (idle \/ (Drained(allocated') /\ \E c \in Classes : queue[c] # <<>>))
  /\ UNCHANGED <<caller, workerActive>>

\* The waiter on the idle event outlives every cancellation of shutdown().
ShutdownEnds ==
  /\ shutdown = "draining"
  /\ idle
  /\ shutdown' = "done"
  /\ UNCHANGED <<job, caller, queue, allocated, workerActive, accepting, idle>>
-----------------------------------------------------------------------------
\* An execution deadline is remembered as passed (-1); of the others it only
\* matters that they are due (0).
Aged(r, who) ==
  [r EXCEPT !.queueLeft = IF who = "starting" THEN CountDown(@, 0) ELSE @,
            !.requestLeft = {CountDown(n, 0) : n \in @},
            !.execLeft = IF r.operation = "active" THEN CountDown(@, -1) ELSE @]

\* loop.time() advances.
Tick ==
  /\ job' = [j \in Jobs |-> Aged(job[j], caller[j])]
  /\ UNCHANGED <<caller, queue, allocated, workerActive, accepting, idle, shutdown>>

RequestDeadlines == {{}} \cup {{n} : n \in RequestBudgets}

CallerStep(j) == CallerResumes(j) \/ QueueTimer(j) \/ ResultArrives(j)
LifecycleStep(j) == LifecycleStarts(j) \/ ExecutionTimer(j) \/ LifecycleFinishes(j)

Next ==
  \/ \E j \in Jobs :
       \/ Reject(j)
       \/ \E budget \in RequestDeadlines : Admit(j, budget)
       \/ CallerResumes(j)
       \/ QueueTimer(j)
       \/ ResultArrives(j)
       \/ CallerCancels(j)
       \/ LifecycleStarts(j)
       \/ \E how \in Outcomes : OperationEnds(j, how)
       \/ ExecutionTimer(j)
       \/ LifecycleFinishes(j)
  \/ ShutdownBegins
  \/ ShutdownEnds
  \/ Tick

Spec == Init /\ [][Next]_vars

\* The event loop runs every ready callback and fires every timer, and
\* shutdown() is a task of that loop.  Nothing makes an operation end.
LoopFairness ==
  /\ WF_vars(Tick)
  /\ WF_vars(ShutdownEnds)
  /\ \A j \in Jobs : WF_vars(CallerStep(j)) /\ WF_vars(LifecycleStep(j))

\* The read behind an operation ends, as the HTTP client's own timeouts make it.
OperationsEnd == \A j \in Jobs : WF_vars(\E how \in Outcomes : OperationEnds(j, how))

FairSpec == Spec /\ LoopFairness
-----------------------------------------------------------------------------
(* Properties.                                                             *)

\* "neither event is allowed to release the one physical slot while
\* synchronous token work is still alive": from the creation of an operation
\* to its end, whatever became of its caller, the slot is its job's alone.
OperationHoldsSlot ==
  \A j \in Jobs : job[j].operation = "active" =>
    /\ workerActive
    /\ \A k \in Jobs : job[k].state = "running" <=> k = j
    /\ \A k \in Jobs \ {j} : job[k].operation # "active"

Owed(c) == {j \in Jobs : ClassOf(j) = c /\ job[j].state \in {"queued", "running"}}

\* However a job leaves (run, expired by its caller's timer or by the dispatch
\* loop, cancelled, shut down), its class gets back exactly one permit, and
\* the idle event that shutdown() waits for is set exactly when none is out.
AllocationMatchesJobs ==
  /\ \A c \in Classes : allocated[c] = Cardinality(Owed(c)) /\ allocated[c] <= Limit[c]
  /\ idle <=> \A c \in Classes : Owed(c) = {}

\* No job is left queued with the worker free: there would be no later event
\* to dispatch it.
NothingWaitsForAFreeSlot ==
  /\ workerActive <=> \E j \in Jobs : job[j].state = "running"
  /\ ~workerActive => \A j \in Jobs : job[j].state # "queued"

\* What execute() tells its caller is what became of the job: after a queue
\* timeout the operation has not been and will not be called, a value is the
\* operation's own, and a queued job always has a caller waiting for it.
AnswerMatchesFate ==
  \A j \in Jobs :
    /\ caller[j] = "queue_timeout" =>
         job[j].state = "finished" /\ job[j].operation = "none"
    /\ caller[j] = "upstream_timeout" =>
         job[j].started = "set" /\ job[j].operation # "none"
    /\ caller[j] \in {"value", "error"} => job[j].operation = caller[j]
    /\ job[j].state = "queued" => caller[j] = "starting"

Starts(j) == job[j].state # "running" /\ job'[j].state = "running"

\* k was admitted before j and still queued.
Ahead(k, j) ==
  \E m \in DOMAIN queue[ClassOf(j)] :
    /\ queue[ClassOf(j)][m] = k
    /\ \A n \in 1 .. m : queue[ClassOf(j)][n] # j

\* Strict priority, FIFO within a class, and never past the queue deadline:
\* a job that starts leaves behind no earlier job of its class and, if it is
\* a background job, no protected one.
StartsInOrderAndInTime ==
  [][\A j \in Jobs : Starts(j) =>
       /\ job'[j].queueLeft > 0
       /\ \A k \in Jobs :
            Ahead(k, j) \/ (j \in Background /\ k \in Protected)
              => job'[k].state # "queued"]_vars

\* A resolved result is never resolved again: the late end of a timed-out
\* operation does not reach its caller as an answer.
ResultIsFinal ==
  [][\A j \in Jobs : ~Idle(j) /\ job[j].result # "pending"
       => job'[j].result = job[j].result]_vars

\* Once shutdown() has begun no operation is dispatched.
NoStartAfterShutdown ==
  [][~accepting => \A j \in Jobs : ~Starts(j)]_vars

\* The scheduler implements the slot it promises.
Fate(r) ==
  CASE r.state = "absent"  -> "none"
    [] r.state = "queued"  -> "waiting"
    [] r.state = "running" -> "serving"
    [] r.state = "finished" -> IF r.started = "set" THEN "served" ELSE "withdrawn"

Slot == INSTANCE ExecutionSlot WITH fate <- [j \in Jobs |-> Fate(job[j])]
ImplementsSlot == Slot!Spec

\* Every call to execute() is answered, even if no operation ever ends: its
\* two timers bound the wait.
CallersAreAnswered ==
  \A j \in Jobs : caller[j] \in InCall ~> caller[j] \notin InCall

\* If operations end, a shutdown ends, whatever was queued, running, timed out
\* or abandoned by its caller when it began.
ShutdownDrains ==
  OperationsEnd => (shutdown = "draining" ~> shutdown = "done")

\* README: "background work is delayed or dropped before it can affect
\* protected work".  No protected call loses its queue wait to a background
\* operation that holds the slot.
BackgroundNeverCostsProtected ==
  [][\A p \in Protected :
       job[p].started = "pending" /\ job'[p].started = "failed"
         => \A b \in Background : job[b].state # "running"]_vars
=============================================================================
