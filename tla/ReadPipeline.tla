----------------------------- MODULE ReadPipeline -----------------------------
(***************************************************************************)
(* _serve_upstream: what the gateway does around the execution slot for    *)
(* one market-data read.  A read has at most two attempts under one        *)
(* deadline; an answer 429 from Schwab starts a cooldown that all reads    *)
(* share, looked at before the queue and again in the slot.                *)
(*                                                                         *)
(* The scheduler is the slot it promises (ExecutionSlot): every step that  *)
(* moves a call is one of its steps, with the call handed the slot chosen  *)
(* freely among those it allows.  Time is counted in ticks left, and the   *)
(* loop is prompt: time passes only once every due timer and every ready   *)
(* callback has run.                                                       *)
(***************************************************************************)
EXTENDS Integers, FiniteSets

CONSTANTS
  Protected,       \* reads made with a protected key
  Background,      \* reads made with a background key
  Capacity,        \* class -> calls the scheduler admits, waiting or served
  QueueTimeout,    \* class -> queue timeout
  UpstreamTimeout, \* the execution budget, also the deadline of the read
  RetryFloor,      \* what must be left of the deadline for a retry (1.1 s)
  Backoff,         \* the pause before the retry (0.1 s)
  MinCooldown,     \* the shortest cooldown (1 s)
  RetryLimit,      \* the longest Retry-After that is believed (60 s)
  RetryAfters      \* Retry-After values of a 429; 0 where there is none

Classes == {"protected", "background"}
Reads == Protected \cup Background
ClassOf(r) == IF r \in Protected THEN "protected" ELSE "background"

ASSUME ClassesAreDisjoint == Protected \cap Background = {}
ASSUME TimesArePositive ==
  /\ Capacity \in [Classes -> Nat \ {0}]
  /\ QueueTimeout \in [Classes -> Nat \ {0}]
  /\ {UpstreamTimeout, RetryFloor, Backoff, MinCooldown} \subseteq Nat \ {0}
  /\ Backoff < RetryFloor
  /\ RetryLimit \in Nat
  /\ RetryAfters \subseteq 0 .. RetryLimit

VARIABLES
  read,      \* the handler of each read, and its operation in the slot
  fate,      \* what became of each call to the scheduler
  cooldown,  \* what is left until BACKOFF_UNTIL_KEY.until
  asked      \* what is left of the longest pause a 429 asked for (history)

vars == <<read, fate, cooldown, asked>>

Slot == INSTANCE ExecutionSlot

Results == {"value", "rate_limited", "connect_timeout", "failed"}
InCall == {"called", "backoff"}
Answers == Results \cup {"capacity", "queue_timeout", "upstream_timeout", "not_ready", "gone"}

Longer(m, n) == IF m < n THEN n ELSE m
Shorter(m, n) == IF m < n THEN m ELSE n
Longest == Longer(MinCooldown, RetryLimit)

\* timer: the queue timer, the execution timer or the pause, whichever runs.
\* pause: how long a rate-limited operation asks to wait.  calls and first are
\* history: the calls made to Schwab, and how the first of them ended.
ReadRecord ==
  [ stage     : {"idle"} \cup InCall \cup Answers,
    attempt   : {0, 1},
    elapsed   : Nat,
    timer     : Nat,
    operation : {"none", "reading"} \cup Results,
    pause     : Nat,
    calls     : 0 .. 2,
    first     : {"none"} \cup Results ]

NewRead ==
  [ stage |-> "idle", attempt |-> 0, elapsed |-> 0, timer |-> 0,
    operation |-> "none", pause |-> 0, calls |-> 0, first |-> "none" ]

TypeOK ==
  /\ read \in [Reads -> ReadRecord]
  /\ fate \in [Reads -> Slot!Fates]
  /\ cooldown \in 0 .. Longest
  /\ asked \in 0 .. Longest

Init ==
  /\ read = [r \in Reads |-> NewRead]
  /\ Slot!Init
  /\ cooldown = 0
  /\ asked = 0
-----------------------------------------------------------------------------
(* The scheduler.                                                          *)

Waiting(f) == {r \in Reads : f[r] = "waiting"}
InSlot(f) == {r \in Reads : f[r] = "serving"}
HasRoom(c) ==
  Cardinality({r \in Waiting(fate) \cup InSlot(fate) : ClassOf(r) = c}) < Capacity[c]

HandedToAny(f) ==                        \* mutant: whatever the class
  IF InSlot(f) # {} \/ Waiting(f) = {} THEN {f}
  ELSE {[f EXCEPT ![r] = "serving"] : r \in Waiting(f)}

\* What may follow once a free slot is handed on.
Handed(f) ==
  IF InSlot(f) # {} \/ Waiting(f) = {} THEN {f}
  ELSE LET first == IF Waiting(f) \cap Protected # {} THEN Waiting(f) \cap Protected
                    ELSE Waiting(f)
       IN  {[f EXCEPT ![r] = "serving"] : r \in first}

\* _failure_response: until = max(until, now + delay).
Extended(pause) == Longer(cooldown, Longer(MinCooldown, pause))
-----------------------------------------------------------------------------
(* One attempt: the check before the queue, and the call.                  *)

Left(rec) == UpstreamTimeout - rec.elapsed

QueueLeft(r, rec) ==
  IF rec.attempt = 0 THEN QueueTimeout[ClassOf(r)]
  ELSE Shorter(QueueTimeout[ClassOf(r)], Left(rec))

\* The handler is over; an operation it leaves in the slot is not.
Answered(rec, answer) ==
  [NewRead EXCEPT !.stage = answer,
                  !.operation = IF rec.operation = "reading" THEN "reading" ELSE "none"]

\* rec is the record of r at the top of the loop over attempts.
Call(r, rec) ==
  \/ /\ cooldown > 0
     /\ read' = [read EXCEPT ![r] = Answered(rec, "rate_limited")]
     /\ UNCHANGED fate
  \/ /\ cooldown = 0
     /\ ~HasRoom(ClassOf(r))
     /\ read' = [read EXCEPT ![r] = Answered(rec, "capacity")]
     /\ UNCHANGED fate
  \/ /\ cooldown = 0
     /\ HasRoom(ClassOf(r))
     /\ read' = [read EXCEPT ![r] = [rec EXCEPT !.stage = "called",
                                                !.timer = QueueLeft(r, rec)]]
     /\ fate' \in Handed([fate EXCEPT ![r] = "waiting"])

\* A name is used again once its handler and its operation are both over.
Idle(r) == read[r].stage \notin InCall /\ fate[r] \notin {"waiting", "serving"}

\* The token is not ready, or not within the grace given to a refresh.
NotReady(r) ==
  /\ Idle(r)
  /\ read' = [read EXCEPT ![r] = Answered(NewRead, "not_ready")]
  /\ UNCHANGED <<fate, cooldown, asked>>

\* The token is ready: the deadline starts to run.
Arrive(r) ==
  /\ Idle(r)
  /\ Call(r, NewRead)
  /\ UNCHANGED <<cooldown, asked>>

\* asyncio.sleep(.1) is over.
BackoffEnds(r) ==
  /\ read[r].stage = "backoff"
  /\ read[r].timer = 0
  /\ Call(r, [read[r] EXCEPT !.attempt = 1, !.operation = "none"])
  /\ UNCHANGED <<cooldown, asked>>
-----------------------------------------------------------------------------
(* guarded_response, the operation in the slot.                            *)

NeverHot == FALSE                        \* mutant: looked at before the queue only
Hot == cooldown > 0

\* What the end of its operation leaves of a read: the result, if it is awaited.
Over(rec, how, pause) ==
  IF rec.stage = "called"
  THEN [rec EXCEPT !.operation = how, !.pause = pause,
                   !.first = IF rec.calls = 1 THEN how ELSE rec.first]
  ELSE [rec EXCEPT !.operation = "none"]

BudgetRenewed(rec) == UpstreamTimeout    \* mutant: a retry has a budget of its own
Budget(rec) == IF rec.attempt = 0 THEN UpstreamTimeout ELSE Left(rec)

\* The cooldown that began while the read was queued ends its operation.
OperationRefused(r) ==
  /\ fate[r] = "serving"
  /\ read[r].operation = "none"
  /\ Hot
  /\ read' = [read EXCEPT ![r] = Over(@, "rate_limited", cooldown)]
  /\ fate' \in Handed([fate EXCEPT ![r] = "served"])
  /\ UNCHANGED <<cooldown, asked>>

\* build_response is called: Schwab is.
OperationBegins(r) ==
  /\ fate[r] = "serving"
  /\ read[r].operation = "none"
  /\ ~Hot
  /\ read' = [read EXCEPT ![r] =
       IF @.stage = "called"
       THEN [@ EXCEPT !.operation = "reading", !.calls = read[r].calls + 1,
                      !.timer = Budget(read[r])]
       ELSE [@ EXCEPT !.operation = "reading"]]
  /\ UNCHANGED <<fate, cooldown, asked>>

\* mutant: the 429 is recorded by the handler, once it resumes
CooldownLater(how, pause) == cooldown
CooldownAfter(how, pause) == IF how = "rate_limited" THEN Extended(pause) ELSE cooldown

\* The operation ends, in time or while it is drained: a 429 starts the
\* cooldown before the slot is free, whether or not anyone still waits.
OperationEnds(r, how, pause) ==
  /\ read[r].operation = "reading"
  /\ how # "rate_limited" => pause = 0
  /\ read' = [read EXCEPT ![r] = Over(@, how, pause)]
  /\ fate' \in Handed([fate EXCEPT ![r] = "served"])
  /\ cooldown' = CooldownAfter(how, pause)
  /\ asked' = IF how = "rate_limited" THEN Longer(asked, Longer(MinCooldown, pause))
              ELSE asked
-----------------------------------------------------------------------------
(* The handler resumes.                                                    *)

\* mutants: any failure is retried; the last attempt is, too
RetriesFailures(rec) ==
  rec.operation \in {"connect_timeout", "failed"} /\ rec.attempt = 0 /\ Left(rec) >= RetryFloor
RetriesLate(rec) == rec.operation = "connect_timeout" /\ rec.attempt = 0
MayRetry(rec) ==
  rec.operation = "connect_timeout" /\ rec.attempt = 0 /\ Left(rec) >= RetryFloor

CallerResumes(r) ==
  /\ read[r].stage = "called"
  /\ read[r].operation \in Results
  /\ read' = [read EXCEPT ![r] =
       IF MayRetry(@) THEN [@ EXCEPT !.stage = "backoff", !.timer = Backoff]
       ELSE Answered(@, @.operation)]
  /\ cooldown' = IF read[r].operation = "rate_limited" THEN Extended(read[r].pause)
                 ELSE cooldown
  /\ UNCHANGED <<fate, asked>>

QueueTimer(r) ==
  /\ read[r].stage = "called"
  /\ read[r].timer = 0
  /\ fate[r] = "waiting"
  /\ read' = [read EXCEPT ![r] = Answered(@, "queue_timeout")]
  /\ fate' = [fate EXCEPT ![r] = "withdrawn"]
  /\ UNCHANGED <<cooldown, asked>>

\* The caller is told; the operation goes on in the slot.
ExecutionTimer(r) ==
  /\ read[r].stage = "called"
  /\ read[r].timer = 0
  /\ read[r].operation = "reading"
  /\ read' = [read EXCEPT ![r] = Answered(@, "upstream_timeout")]
  /\ UNCHANGED <<fate, cooldown, asked>>

\* The client goes away, in the queue, in the slot or during the pause.
Disconnect(r) ==
  /\ read[r].stage \in InCall
  /\ read' = [read EXCEPT ![r] = Answered(@, "gone")]
  /\ fate' = [fate EXCEPT ![r] = IF @ = "waiting" THEN "withdrawn" ELSE @]
  /\ UNCHANGED <<cooldown, asked>>

\* Nothing is due: no timer, no operation to begin, no handler to resume.
NothingIsDue ==
  \A r \in Reads :
    /\ read[r].stage \in InCall /\ fate[r] # "serving" => read[r].timer > 0
    /\ fate[r] = "serving" => read[r].operation = "reading"
    /\ read[r].stage = "called" =>
         read[r].timer > 0 /\ read[r].operation \notin Results

CountDown(n) == IF n > 0 THEN n - 1 ELSE 0

Tick ==
  /\ NothingIsDue
  /\ read' = [r \in Reads |->
       IF read[r].stage \in InCall
       THEN [read[r] EXCEPT !.elapsed = @ + 1, !.timer = @ - 1]
       ELSE read[r]]
  /\ cooldown' = CountDown(cooldown)
  /\ asked' = CountDown(asked)
  /\ UNCHANGED fate

Next ==
  \/ \E r \in Reads :
       \/ NotReady(r)
       \/ Arrive(r)
       \/ BackoffEnds(r)
       \/ OperationRefused(r)
       \/ OperationBegins(r)
       \/ \E how \in Results, pause \in RetryAfters : OperationEnds(r, how, pause)
       \/ CallerResumes(r)
       \/ QueueTimer(r)
       \/ ExecutionTimer(r)
       \/ Disconnect(r)
  \/ Tick

Spec == Init /\ [][Next]_vars
-----------------------------------------------------------------------------
(* Properties.                                                             *)

\* "429 is never retried ... a shared fail-fast read cooldown of the validated
\* interval (minimum 1s)": the cooldown covers every pause Schwab asked for,
\* however the operations and their handlers interleave.  Reads refused in the
\* slot extend it, but never beyond one minimum from now.
CooldownCoversTheAsk ==
  /\ asked <= cooldown
  /\ cooldown <= Longer(asked, MinCooldown)

\* "Queued reads check the same gate before fetching": no operation calls
\* Schwab while a pause it asked for runs, not even the one dispatched by the
\* end of the operation that was told to pause.
NoCallWhileAsked ==
  [][\A r \in Reads : read'[r].operation = "reading" /\ read[r].operation # "reading"
       => asked = 0]_vars

\* "The replacement queue and execution both share that absolute deadline": a
\* read is answered within its queue timeout and its budget, and once it is
\* retried within the budget alone, counted from its arrival.
AnsweredInTime ==
  \A r \in Reads : read[r].stage \in InCall =>
    /\ read[r].elapsed <= QueueTimeout[ClassOf(r)] + UpstreamTimeout
    /\ read[r].stage = "backoff" \/ read[r].attempt = 1 =>
         read[r].elapsed <= UpstreamTimeout

\* "may retry ConnectTimeout once": Schwab is called a second time only after
\* the first call has ended by itself in a connection timeout, and what the
\* caller is told is what became of its calls: a queue timeout or a refusal
\* leaves none behind, a value is the last operation's, and only after an
\* upstream timeout may a call still be under way.
AnswerMatchesCalls ==
  [][\A r \in Reads : read[r].stage \in InCall =>
       LET is == read[r]
           to == read'[r].stage
       IN  /\ is.calls = 1 /\ read'[r].calls = 2 => is.first = "connect_timeout"
           /\ to \in {"capacity", "queue_timeout"} =>
                is.calls = 0 \/ (is.calls = 1 /\ is.first = "connect_timeout")
           /\ to \in {"value", "failed", "connect_timeout"} => is.operation = to
           /\ to = "upstream_timeout" => is.operation = "reading"
           /\ to = "backoff" => fate[r] = "served"]_vars

\* The reads use the slot as its specification allows.
UsesSlot == Slot!Spec
=============================================================================
