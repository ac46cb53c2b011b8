# A specification of SchwabGateway

TLA+ modules, TLC runs and TLAPS proofs for the gateway in this repository. Paths below
are relative to the root of the repository; `gw/` stands for `src/schwab_gateway/` and
`store` for `packages/token-store/src/schwab_token_store/__init__.py`.

## 1. The system

One asyncio process answers read-only HTTP requests for market data on behalf of several
programs. All of them share one Schwab OAuth token, so every read is a transaction under
one token lock, and the reads go one at a time through one scheduler.

    HTTP handler -> readiness check -> cooldown -> ExecutionScheduler -> provider lease
        -> locked client adapter -> token manager -> token file, Schwab
    order-book feed -> ExecutionScheduler (its login only) -> socket -> snapshot store -> streams
    recovery loop, warm-up, deadline probe -> token manager

| Component | Source | State it keeps | Operations | What makes it correct |
|---|---|---|---|---|
| Execution scheduler | `gw/scheduler.py` | jobs, two FIFO queues, permits per class, the worker flag, the idle event, whether it accepts | `execute`, dispatch, both timers, cancellation, a lifecycle task per job, `shutdown` | one operation in the slot until it really ends; priority and FIFO; every permit returned once; every caller answered, truthfully; `shutdown` ends |
| Request pipeline | `gw/api.py`, `gw/failures.py` | the shared 429 cooldown | two attempts through the scheduler, failure mapping | at most one retry, within one deadline; no read during a cooldown |
| Token manager and store | `store` | the token file, a lock per file (thread lock and `flock`), the health state | `load`, `refresh`, access transactions (sync and async), deadline probe | transactions exclude one another; the file is the old or the new document; the health state is the last outcome |
| Client adapter | `gw/token_adapter.py` | none | one client per transaction | callbacks are used inside their transaction only |
| Provider lease | `gw/live_provider.py` | a one-worker flag shared with threads | acquire, run in a thread, release | at most one worker thread; a cancelled caller does not free it |
| Readiness | `gw/live_provider.py`, `gw/runner.py` | whether it is warm | warm-up, recovery loop, probe | a latched manager recovers; a cold worker is not ready |
| Order-book feed and store | `gw/order_book_live.py`, `gw/order_book_store.py`, `gw/order_book.py` | feed state, bounded history, time of the last publication, subscriber queues | connect, publish, reconnect; subscribe, recent, health | no stale book is served as fresh; a stream stays in order |
| Stream admission | `gw/admission.py` | active streams per class | admit, release | permits match the open streams |
| Option-chain and session caches | `gw/upstream.py` | an LRU with TTL and byte bound, in-flight fetches; an LRU of sessions that are over | hit, join, fetch, prune, evict | one fetch per key; bounds kept; never stale beyond the TTL; only sessions that are over |
| Normalizers, calendar, SDK mapping | `gw/upstream.py`, `gw/market_calendar.py`, `packages/sdk` | none | pure functions | agree with their reference definitions |
| Wiring, tools, deployment | `gw/runner.py`, `gw/config.py`, command-line tools, `scripts/` | none at run time | | |

Where it is hard: steps of callers, timers, lifecycle tasks and a shutdown interleave at
every `await`; a resolved future wakes its waiter only in a later step; an operation that
timed out or lost its caller goes on, because the thread behind it cannot be stopped;
permits and the idle event are updated from five places; deadlines fall on the same
instant as the events they bound. `PROJECT.json` lists these hazards line by line.

## 2. Modules

| Module | What it is |
|---|---|
| `ExecutionSlot` | what the scheduler promises the rest of the gateway: calls wait, one at most is served, nothing waits in front of a free slot, protected before background, a withdrawn call is never served |
| `Scheduler` | the scheduler as it is written, with its properties and the refinement mapping to `ExecutionSlot` |
| `MCScheduler`, `Scheduler_*.cfg` | the instances TLC checks |
| `SchedulerProofs` | theorems about `Scheduler` for all values of its constants |
| `TokenRegister` | what the token store promises: one document, replaced by one client at a time, or by an outsider that asks no one, whose safe version no failure takes away |
| `TokenManager` | the token manager over the file store, the recovery loop, crashes, other processes and the manual login, with its properties and the refinement mapping to `TokenRegister` |
| `MCTokenManager`, `TokenManager_*.cfg` | the instances TLC checks |
| `TokenManagerProofs` | theorems about `TokenManager` for all values of its constants |
| `ReadPipeline` | `_serve_upstream` around the slot of `ExecutionSlot`: two attempts, one deadline, the shared cooldown |
| `ReadPipelineProofs` | theorems about it |
| `Sublists` | what is selected from a sequence, as a recursive function of the position |
| `LruCache` | the ordered dictionary and hand-kept byte counter that both read caches use |
| `SequenceLemmas` | facts about both, for sequences of any length; among them that storing, touching and pruning keep a cache within its bounds |
| `OptionChain` | what the normalizer makes of a chain's contracts, and how a cached chain is judged again |
| `OptionChainCache` | the chain cache, its fetches in flight and the requests in front of it |
| `OptionChainCacheProofs` | theorems about it |
| `SessionHistoryCache` | the cache of completed sessions |
| `SessionHistoryCacheProofs` | theorems about it |
| `OrderBook` | feed, snapshot store, streams and their admission, of one venue |
| `OrderBookProofs` | theorems about it |
| `ProviderWorker` | the worker lease, the token lock and the warm-up behind the slot |
| `ProviderWorkerProofs` | theorems about it |
| `MC*`, `*.cfg` | the instances TLC checks |

How they compose. `Scheduler` implements `ExecutionSlot`, and `ReadPipeline` is built on
`ExecutionSlot`: what is shown of a read needs nothing of the scheduler but its promise.
`OptionChainCache` and `ProviderWorker` take from it that an operation occupies its place until its
task ends, whatever its caller was told. `TokenManager` implements `TokenRegister`;
`ProviderWorker` takes its transactions as steps under one lock. The two caches share `LruCache`; the
order book shares `Sublists` with it, for the snapshots of a message that concern a symbol or a stream.

### How `Scheduler` corresponds to `gw/scheduler.py`

| Model | Code |
|---|---|
| `job[j]` | one `_Job`: `state` is its field, `started` and `result` its futures (`started = "failed"` is the `queue_timed_out` flag), `operation` the task that `_run_job` creates |
| `queueLeft`, `requestLeft`, `execLeft` | `queue_deadline`, `request_deadline` and `execution_deadline`, as the ticks that are left |
| `caller[j]` | where the coroutine in `execute()` is: before `shield(job.started)`, before `shield(job.result)`, or what it was told |
| `queue`, `allocated`, `workerActive`, `accepting`, `idle` | `_queues`, `_allocated`, `_worker_active`, `_accepting`, `_idle` |
| `shutdown` | where the coroutine in `shutdown()` is |

Atomicity. No block under `async with self._lock` contains an `await`, so on one event
loop the lock is never contended and each block is one step. `Admit`, `Reject`,
`QueueTimer`, `CallerCancels` and `ShutdownBegins` are such blocks, with everything they
call: `Admit` and `LifecycleFinishes` contain the whole loop of `_dispatch_locked`, the
jobs it expires included. `LifecycleFinishes` starts when the lifecycle task observes the
end of its operation and reaches the end of its `finally` block without yielding.
`CallerResumes` and `ResultArrives` are separate from the steps that resolve the futures:
that is where the races are. A timer (`QueueTimer`, `ExecutionTimer`) may fire in any
step once its deadline has passed, and need not fire before another event.

Time. `Tick` is `loop.time()` advancing by the smallest amount that matters. It is always
allowed, also past deadlines that are due: a busy loop runs its timers late. A deadline
that is not armed reads 0, and a passed execution deadline stays at -1, so that "ended
exactly at the deadline" (in budget: the code compares with `<=`) differs from "ended
after it".

Names. A member of `Protected` or `Background` is a place for a call. It is used again
once its call and its job are over, so a run has more calls than names.

Left out: metrics and log lines; the values a caller receives (a job has one `value`
outcome); the checks of the arguments of `execute()`, which raise before any state
changes; the cancellation of the internal lifecycle task, which the code absorbs without
a change of state; `snapshot()` and `wait_idle()`, which only read.

### How `TokenManager` corresponds to `store`

| Model | Code |
|---|---|
| a thread's `pc` | `begun`: about to acquire the `RLock` of the path; `opening`: it holds it and tries `flock`; `locked`: inside `with store.locked()`; `using`: the client or the refresh callback runs; `writing`, `written`, `replaced`: in `write()`, before and after the temporary file and `os.replace`; `saved`, `unsynced`: after `_fsync_directory`, which did sync or swallowed the refusal; `leaving`, `unlocked`: in the `finally` of `_hold_lock`; `reporting`: out of it, about to record |
| `threadLock`, `flock` | the `RLock`, and who holds the lock file in which mode, other processes included |
| `current[t]` | `_ScopedTokenCallbacks._current`; `NoDocument` once it is closed |
| `placed[t]` | the document that the thread's `write()` has put in place, until `write()` is over |
| `file`, `durable` | the document as the next `open` sees it, and those a power failure may leave |
| a document's `version`, `grant`, `is`, `by` | the number of the replacement that put it there; the authorization it descends from, `creation_timestamp` in the code; the verdict of `validate_token_document`; no field of the code: who wrote it |
| `lapsed` | the clock: authorizations up to this one are past their lifetime |
| `writes` | no variable of the code: how often the document was replaced |
| `health` | `_health.state` |
| `outcome[t]` | the exception on its way out; `recorded` when `_health` already has it, or nothing will record it |
| `acked` | no variable of the code: the version of the last write that returned with its directory synced |

A set of threads is a set of call sites: `Startup` (the load in `build_live_app`, which
ends the process when it fails), `Recovery` (`TokenReadinessRecovery`), `Reads` (requests,
which pass `_not_ready_response` first and read later), `Logins` (the transactions that
nothing checks first: warm-up and the order-book login), `Refreshes` (`refresh()`, which is part
of the library and is not called by the gateway) and `Probes` (`observe_refresh_deadline`).

Steps that the code does not make atomic are steps of their own: the two locks, the load,
each file operation that another process or a power failure can see, each transition of
the health state that is made outside the lock. `Mishap`s are the failures: the directory or
lock file unavailable, a write that fails before or after the replacement, a temporary file
that cannot be removed, a task cancelled while its lock is being entered. `Crash` releases
what the kernel releases; `PowerFails` may also undo a replacement that was not
synced. compose.yml restarts the process (`Start`).

Who else writes. `Others` are processes that go through `locked()` or `read_locked()` of the store; one may write
under its exclusive flock (`OtherReplaces`), of any authorization, and need not sync. The weekly manual login of the repository's
README (lines 46-61) is none of them: `client_from_manual_flow` opens the file and writes it in place, with no lock
and no sync. `Reauthorizes` may therefore happen in every state, under a transaction too, and may leave a document that
does not validate; after a power failure what it wrote may be torn.

Two refusals that nobody hears of. `_fsync_directory` swallows EINVAL, ENOTSUP and EBADF (`store`, lines 197-199):
`SyncIsRefused` goes on as if the directory had been synced, and the replacement may still be undone. And a transaction whose
document a manual login replaced writes over it (`ReplaceDocument`): the new token descends from the document that
the transaction read.

Left out: the contents of the token, its validation in detail (`Conditions` are its
verdicts), the deadline gauge, callbacks used after their transaction (they raise and change
nothing), a failure of unlocking, and a lock file that is replaced while it is in use. The
readiness check is on the health state alone; a worker that is not warm refuses more.

### How `ReadPipeline` corresponds to `gw/api.py`

| Model | Code |
|---|---|
| `read[r].stage`, `attempt` | where the coroutine in `_serve_upstream` is: in `execute()`, in `asyncio.sleep(.1)`, or what it answered; the loop variable |
| `elapsed` | what has passed of the deadline |
| `timer` | the queue timer, the execution timer or the pause, whichever runs |
| `operation`, `pause` | `guarded_response` in the slot, its result, and the seconds of its `FailureMetadata` |
| `fate[r]` | the call as `ExecutionSlot` sees it |
| `cooldown` | `BACKOFF_UNTIL_KEY.until - loop.time()`, from 0 up |
| `asked`, `calls`, `first` | history: the longest pause a 429 asked for, the calls made to Schwab and how the first ended |

`Call` is the top of the loop over attempts down to the `await` of `execute()`; `CallerResumes` is
the handler after it. `OperationRefused`, `OperationBegins` and `OperationEnds` are
`guarded_response`, which may run for a caller that has gone. Time passes only when nothing is
due (`NothingIsDue`): these are properties of deadlines, and a loop that is late adds its lateness
to each of them. The seven reads that may be retried are the only callers of `_serve_upstream`, so
the list of names in it is not modelled. A failure that is not a connection timeout or a
429 is `failed`, whichever status it is answered with.

Two things the model shows that a reader of the code may not expect. A read that the cooldown refuses
in the slot raises an error that its handler takes for a 429: it extends the cooldown to one
second from now, without a new 429. The second conjunct of `CooldownCoversTheAsk` bounds this: never by more
than the minimum. And the `max()` in `_failure_response` decides nothing as long as one operation
runs at a time and the loop is prompt.

### How `OptionChainCache` and `OptionChain` correspond to `gw/upstream.py`

| Model | Code |
|---|---|
| `cache`, `cacheBytes` | `_cache` in the order of use, `_cache_bytes`; an entry's `age` counts from `created_at` to `expires_at` |
| `inflight[k]` | the task in `_inflight` under that key; tasks are named after the request whose call made them |
| `fetch[o]` | that task: running, done (its callbacks are due), or gone |
| `request[r]` | the handler of `/v1/option-chain`: joined to a fetch, in the scheduler's hands (`called`), or its answer; `inSlot`: `get_option_chain` runs; `awaits`, `woken`: its shielded future |

`Arrive` is the look-up and the join before admission, `GetOptionChain` the operation in the slot up to its
first suspension. A task ends (`FetchEnds`), its callbacks run in a later step of the loop
(`FinishFetch`: `_finish_fetch` first, then the shields) and the waiters in later ones still
(`WaiterResumes`): in between, a task that is done is still in `_inflight` and may be joined
without waiting. The readiness check before the look-up is left out; a gateway that is not ready
refuses more. In `OptionChain` a contract is the age of its quote, and the wall clock and the
monotonic clock run alike.

### How `SessionHistoryCache` corresponds to `gw/upstream.py`

A day has two halves: while it is open Schwab has the bars of the first. `Send`, `Schwab` and `Receive`
are the call, the moment Schwab puts its answer together, and the rest of `get_session_history` when the
answer is in; `received_at` is read only then, so a day that was open when it was read may be over
when it is judged. An answer may have any of the bars there are by then, without saying which it lacks, with or without
a malformed one, or be empty, or hold another day's bars. An entry also remembers, as history, which halves there
were when its answer was put together (`had`). `ClockMoves` lets at most one of closing time and midnight fall between `Schwab` and
`Receive`: the provider's timeouts are seconds and the hours between the two are four. With both, a
half-read session would be kept for ever.

### How `OrderBook` corresponds to `gw/order_book_live.py`, `gw/order_book_store.py`, `gw/admission.py` and `stream_order_book`

| Model | Code |
|---|---|
| `feed` | `run_forever`: `connecting` (in `execute()`), `subscribing`, `live` (in `handle_message`), `backoff` (in the sleep); `failures`, `connection_id`, `seen_symbols` |
| `feedState`, `history` | `_feed_state` of the venue, `_history` of a symbol |
| `log` | history: every snapshot published, whose index is its name elsewhere |
| `stream[s]` | a `stream_order_book` handler: in `prepare`, in a `send_str` of the greeting, in `asyncio.wait`, in a `send_str`, in `close`; `held` is the snapshot in hand, `message` what `receive()` returned |
| `subscribed`, `active` | `_subscriptions`, `_active` |

`Message` is `handle_book` for one message with all its publications: nothing in it awaits.
`FeedFails` covers `except` and the mark in `finally`; the sleep is the stage `backoff`, and the logout at its end
changes nothing here. `GetEnds` and `ReceiveEnds` are the two tasks the handler waits for;
either or both may be done when it resumes. A cancelled get leaves its snapshot in the queue; that is
asyncio's. `Released` and the admission take a lock with no `await` under it.

Left out: the age of snapshots, and so `snapshot_health` but for its first test. After a reconnection the last
snapshot of the connection before counts as fresh until its maximum age; no document forbids it, and each
snapshot carries its `connection_id`. A slow stream whose queue drops a snapshot with
`reconnect_boundary` loses the flag; `continuity_epoch`, in each snapshot, still tells. A stream whose handler
is cancelled in `asyncio.wait` leaves its two tasks pending for the garbage collector.

### How `ProviderWorker` corresponds to `gw/live_provider.py` and `gw/runner.py`

`call[c]` is one `_execute`: its caller (polling for the lease, awaiting `completion`), its daemon thread
(`started`, `inside` the token transaction, `ended`, lease returned and result `posted`) and what was
delivered. `lease` is `_worker_active`, `tokenLock` who is in a token transaction. Operations run in the slot, one
at a time; a slot's operation is never cancelled, the scheduler lets it drain. An attempt to warm
up has no slot: `StartupTimesOut` is `wait_for` in `_upstream_warmup_ctx`, which cancels the caller and
leaves the thread, `WarmupStops` the cancellation at clean-up. `Other` is everyone else at the token lock: the
recovery loop, the probe, another process. A request is admitted only when the warm-up has succeeded.

## 3. Runs

| Run | Instance | Checks |
|---|---|---|
| `Scheduler_safety` | three protected calls, limit 2; one background call, limit 1; one tick of each timeout; request deadlines absent, passed, or one tick away | the type invariant, four invariants, three action properties, `ImplementsSlot` |
| `Scheduler_answers` | two protected calls and a background one, operations that may not end or end in cancellation | `CallersAreAnswered`, `ShutdownDrains` |
| `Scheduler_claim` | one call of each class | `BackgroundNeverCostsProtected`, which fails |
| `TokenManager_safety` | one thread each for start-up, a login, `refresh()` and the deadline probe; one other process and the manual login; two versions; one crash or power failure | the type invariant, three invariants, `DocumentStaysWhole`, `ImplementsRegister` |
| `TokenManager_recovery` | start-up, recovery and a request; one other process and the manual login; two versions; one crash or power failure | `LockWaitsEnd`, `ReadinessRecovers` |
| `TokenManager_refreshing` | start-up, recovery, a request and a login; one other process and the manual login; three versions | `RefreshingMeansWriting`, which fails |
| `TokenManager_reauthorization` | start-up, recovery and a request; the manual login; two versions, no crash | `RefreshKeepsAuthorization`, which fails |
| `ReadPipeline` | two protected reads, capacity 2, queue timeout 2; two background reads, capacity 1, queue timeout 1; a budget of 2; a 429 with or without a Retry-After of 2 | the type invariant, two invariants, `AnswerMatchesCalls`, `NoCallWhileAsked`, `UsesSlot` |
| `OptionChainCache_safety` | three requests, three chains; two entries, four units, two fetches in flight; a time to live of 2; six payloads, of which three can be kept | the type invariant, three invariants, `HitsAreCurrent` |
| `SessionHistoryCache` | two reads, four days of which one is a holiday, both sessions; two entries, four units | `CacheWithinBounds`, `KeptSessionsAreFinal` |
| `OrderBook` | two symbols, messages of one or two entries, one of them malformed; two streams for one permit; histories and queues of two; four snapshots, two connections | the type invariant, four invariants, `OnlyTheGreetingRepeats` |
| `ProviderWorker` | two names for operations, three for attempts | `LeaseIsOneThread`, `OnceWarmTheSlotDecides` |

What the properties say:

* `OperationHoldsSlot`: from the creation of an operation to its end, through timeout and
  disconnection, the slot is its job's alone.
* `AllocationMatchesJobs`: permits count exactly the queued and running jobs and stay
  within the limit; the idle event is set exactly when there are none.
* `NothingWaitsForAFreeSlot`: dispatch is attempted only at an admission and at a release;
  never is a job left queued with the worker free.
* `AnswerMatchesFate`: a queue timeout means that the operation was not and will not be
  called; a value is the operation's own; a queued job has a caller.
* `StartsInOrderAndInTime`, `ResultIsFinal`, `NoStartAfterShutdown`: priority, FIFO and
  queue deadline at each start; one resolution per result; nothing starts once a
  shutdown has begun.
* `ImplementsSlot`: each job's record maps to a fate of `ExecutionSlot`, and every step of
  the scheduler is a step or a stutter of that specification.
* `CallersAreAnswered`: whatever operations do, the two timers bound every wait.
* `ShutdownDrains`: if operations end, so does a shutdown.
* `TransactionsExclude`: one at most may write, of the threads and of the processes that take the flock, and
  while it may no one else holds the lock file in any mode. The manual login takes no flock.
* `CallbacksSeeTheDocument`: what a client reads in its transaction is the document on disk,
  after its own writes too, unless a manual login has written a newer one meanwhile. Only in that case
  can a write replace a document it has not seen.
* `AckedSurvives`: a token whose write returned with its directory synced (Schwab has retired its predecessor by
  then) is what a crash or a power failure leaves, or something newer. Nothing of the kind holds where the file system
  refuses to sync a directory: the code takes such a write for done.
* `DocumentStaysWhole`: no step of the gateway, failing or interrupted, turns a usable document
  into a corrupt or missing one; only another process or the manual login does, or a power failure that tears what
  the manual login wrote.
* `ImplementsRegister`: the exclusion, the order of versions and what failures may undo are those of `TokenRegister`.
* `LockWaitsEnd`: a wait ends even if the holder never leaves.
* `ReadinessRecovers`: the gateway latches on any failure and then refuses the requests whose
  transactions would clear it; the recovery loop alone brings it back.
* `CooldownCoversTheAsk`, `NoCallWhileAsked`: no pause Schwab asked for is cut short, and no operation
  calls Schwab during one, not even that dispatched by the end of the operation that got the 429.
  For that the cooldown must be set in the slot, before the slot is free: moved to the
  handler it fails.
* `AnsweredInTime`: an answer comes within the queue timeout and the budget, and within the budget alone
  once the read is retried.
* `AnswerMatchesCalls`: a second call follows only on a connection timeout, and each answer tells
  what became of the calls; a queue timeout on the second attempt leaves none under way.
* `UsesSlot`: every step of the pipeline is one of `ExecutionSlot` or none.
* `CacheWithinBounds`, of both caches: the byte counter is the weight of what is kept, and both bounds
  hold, through replacement, expiry and eviction.
* `OneFetchPerChain`: the table of fetches in flight names each running fetch once, under its chain, and
  whoever awaits a fetch asked for its chain.
* `FetchedChainIsNotCached`: nothing else fills the cache behind a fetch, so no call to Schwab is wasted.
* `HitsAreCurrent`: a hit is younger than the time to live, and marked stale, in part or as a
  whole, exactly as if it had been fetched at that moment.
* `KeptSessionsAreFinal`: what is kept for ever comes from an answer that Schwab put together after that day's trading
  was over; nothing was dropped from it, and it has bars, of that session only. That it has all of them,
  nothing checks: an answer that lacks bars silently is kept for ever too.
* `ConnectedMeansLive`: both order-book routes answer on the feed state alone; it is `connected` exactly while
  the feed reads its socket.
* `QueueHoldsNewest`, `OnlyTheGreetingRepeats`: a slow stream loses the oldest and nothing else, in order;
  a snapshot is sent again, or after a newer one, only if it was published before the greeting ended. (It may
  be: the handler subscribes first and greets with the newest, then sends what was queued meanwhile.)
* `BoundariesAreMarked`: `reconnect_boundary` is set exactly where two neighbours in a symbol's snapshots come
  from different connections, and the history is the newest ones.
* `StreamsAreCounted`: permits and subscriptions are given back on every path, once.
* `LeaseIsOneThread`: the lease is up exactly while a thread is at work.
* `OnceWarmTheSlotDecides`: the README of the repository says that all Schwab calls go through the scheduler
  (line 146). The warm-up's do not; but once it has made the gateway ready nothing of it is left, not even
  the thread of a start-up attempt that was given up, because it holds the lease until it ends and the
  attempt that succeeded had the lease after it.

Bounds. Three protected calls and two permits give a running job, a queued one and a
rejected one of a class together; removing a job from the middle of a longer queue is
covered by the proofs, which bound nothing. One tick tells a deadline that is live from
one that has lapsed; larger timeouts add only delay. Outcomes are reduced to one per run,
because the scheduler treats `value` and `error` alike. The safety run uses the symmetry
of the protected calls; the liveness run uses none. `{}` in `RequestBudgets` leaves only
calls without a request deadline.

For the token manager, the safety run has four threads (start-up, login, `refresh()`, probe), one other process and the
manual login in contention, on the thread lock and on the flock; the recovery loop's load, which differs from start-up's only in
what a failure does to the process, is in the other run, with a request. Two versions are the document that was there and one
replacement by any of the writers; because `MaxVersion` bounds the beginning of a gateway's write and not its end, one more may follow,
so that a manual login falls under a write that has begun. One
crash suffices for safety, because each one leads back to an initial state but for the two
documents, `acked` and the locks of the others; the proofs bound nothing. `MaxVersion` bounds replacements,
`MaxCrashes` crashes and power failures.

`RetryLimit` is the longest Retry-After that `retry_after_seconds` believes (60 s, `gw/failures.py`); the
cooldown never exceeds it or the minimum, whichever is longer, and the run's pauses reach it.
For the pipeline, two reads of a class give one in the slot and one in the queue, and the other class's
behind both; with a budget of 2, a pause of 1 and a floor of 2, a connection timeout is retried exactly at the
floor, when no time has passed, and later not at all. A retry with time to spare is covered by the proofs alone. For the chain cache, two of the three chains fit by number and, by size, only
if both are small; three requests give an owner, one joined and one newcomer. Its run lets three operations into
the slot at once (`SlotCapacity`), where the gateway has one: the class makes its promises without the
scheduler, its tests call it so, and the limit on fetches in flight could not be met otherwise. A
contract one tick from stale is so within the time to live. For the session cache four
days are one to be kept, a holiday, a day that ends during a read and a next one. For the order book two
connections have one boundary, two snapshots fill a queue, and the third and fourth of a message overflow it
while a stream is in any of its awaits. `MaxSnapshots` and `MaxConnections` bound the run, which
therefore may stop (`CHECK_DEADLOCK FALSE`). Names of attempts in `ProviderWorker` are as many as can be
at work: one detached at start-up, one in the background, one to spare.

Fairness. `LoopFairness` is what the event loop gives: a callback that is ready and a timer
that is due run, and the clock advances. It holds per call for the caller's coroutine and for
the lifecycle task. It does not make an operation end. `OperationsEnd` does, and only
`ShutdownDrains` assumes it: the operation is an HTTP call with connect and read timeouts
(`gw/config.py`, `http_timeout_seconds` and its neighbours).

`ThreadFairness` is the operating system's: a thread runs, timers included, the recovery loop
ticks (`TokenReadinessRecovery.run_forever`), a process that ended is started again. It makes no
client and no other process leave the lock, and `LockWaitsEnd` needs neither.
`ReadinessRecovers` has premises, without which it is not to be expected: operations in a
transaction end (`ClientsEnd`: they are HTTP calls with timeouts), the document is valid from some
point on, the other users of the lock are done (`Quiet`), and input and output stop failing
(`NoMoreMishaps`). Requests are not held back; they go on taking the lock and writing.

The disagreements. The README of the repository says that background work "is delayed or
dropped before it can affect protected work" (lines 148-149; "slow", lines 18-19). The
scheduler cannot preempt. A background job dispatched on an idle scheduler keeps the slot
until its operation ends, and a protected call that arrives then may spend its whole
queue timeout behind it and be answered 503. The scheduler's own docstring says that the
slot is not preemptible; the promise of the README is stronger than the code.

`gw/api.py` (lines 499-501) says that the write callback marks REFRESHING during token
persistence, and lets requests wait for that to pass. If a write fails and its temporary file
cannot be removed either, the error of `unlink()` in the `finally` block of `write()` replaces the
`TokenPersistenceError`; the callback records `TokenManagerError`s only, and the manager
stays REFRESHING with nothing being written, until another load. `refresh()` has the same gap.

`docs/operations.md` (lines 32-33) says that a refresh of the access token does not move the deadline of the authorization and
that interactive reauthorization does, beside a running gateway. The manual login takes no lock. If it writes
between a transaction's load and its `os.replace`, the transaction puts its refreshed token, of the
old authorization, in the place of the new one; the deadline goes back, and the login has to be repeated.

Two remarks that no run is about. `TokenReadinessRecovery` says that a still-failing load leaves the state as it was
(`gw/live_provider.py`, lines 507-508); `load()` records its own failure, so a manager latched EXPIRED becomes LOCK_TIMEOUT
when a recovery attempt times out on the lock. And `_is_completed_session` (`gw/upstream.py`, lines 896-899) says that the
read "looks complete", so that a transient gap cannot be pinned in place: it tests that there is a bar and that none was
dropped as malformed. An answer that lacks bars silently passes both tests and is kept without a time to live.

## 4. Proofs

`SchedulerProofs` proves, for any finite or infinite sets of calls, limits, timeouts, request
deadlines and outcomes that satisfy the named assumptions of `Scheduler`:

| Theorem | Property |
|---|---|
| `TypesHold` | `TypeOK` |
| `SlotIsHeld` | `OperationHoldsSlot` |
| `SlotIsUsed` | `NothingWaitsForAFreeSlot` |
| `AnswersAreTrue` | `AnswerMatchesFate` |
| `ResultsAreFinal` | `ResultIsFinal` |
| `NothingStartsAfterShutdown` | `NoStartAfterShutdown` |
| `StartsAreOrderly` | `StartsInOrderAndInTime` |
| `SchedulerImplementsSlot` | `ImplementsSlot` |
| `PermitsAreAccounted` | `AllocationMatchesJobs` |

The argument. None of the invariants is inductive alone: that a free worker leaves nothing
queued depends on what the queues hold. `SlotInv` strengthens them together: the queues
hold exactly the queued jobs, each once and in its own class (`QueuesHoldQueued`); at most
one job runs, exactly while the worker is active; a class's permits are the length of its
queue plus its running job; a free worker has empty queues; and each job's futures agree
with its state and with its caller (`JobConsistent`). `DispatchSpec` carries the weight:
from queues that hold exactly the queued jobs and a worker that is free, the dispatch loop
reaches a consistent slot again, whatever prefix of each queue it expires. `WithoutSpec` and
`ReleaseSpec` do the same for a job withdrawn from anywhere in its queue, `AppendSpec` for
a new one. There is then one lemma per action, and `NextKeeps` puts them together. The
action properties follow from `StepsGoForward`: but for a new call under its name, a step
never queues a job again, never starts one from anywhere but its queue, never changes a
resolved result, and starts a job only in its turn (`StartedFairly`, from what
`DispatchSpec` says of the prefix it drops). The refinement follows from the same lemma:
each way a record may go forward is an edge of `ExecutionSlot`. For the permits, `OwedCount`
turns the lengths of the queues in `SlotInv` into the number of jobs owed an execution, and
`StepsKeepTheBooks` sorts the steps by what they do to the counters and the idle event.

The assumptions: the two sets of calls are disjoint (a key has one class), limits are
positive (`AdmissionPolicy`), timeouts are positive (checked by `execute()`), outcomes are
endings. A request deadline may already have passed.

`TokenManagerProofs` proves, for any sets of threads and other processes and any bounds:

| Theorem | Property |
|---|---|
| `TokenTypesHold` | `TypeOK` |
| `OneTransaction` | `TransactionsExclude` |
| `CallbacksAreCurrent` | `CallbacksSeeTheDocument` |
| `AckedTokensSurvive` | `AckedSurvives` |
| `DocumentIsNeverDamaged` | `DocumentStaysWhole` |
| `StoreImplementsRegister` | `ImplementsRegister` |

The argument. That callbacks see the document depends on who else may replace it: nobody who needs the locks, so that
only the manual login is left. `TokenInv` says where a thread holds which lock (`LocksAgree`) and what the documents
are then (`VersionsAgree`): beside the two properties, what a thread's `write()` has put in place is on disk, or a manual login has
written a newer one (`PlacedIsSeen`); once the directory is synced, nothing older can come back (`SyncedIsSafe`); and no document a failure
may leave is newer than the one on disk or has a number that is still to be given (`DurableIsNoLater`).
`AckedSurvives` needs the second: between the sync and the return of `write()` the version to be acknowledged is safe already.
`StepsKeepTypes`, `StepsKeepLocks` and `StepsKeepVersions` go through the actions.
For the refinement, `OtherStepsAreUnseen` leaves the few steps that change the flock or the
document, and each is shown to be one of the register's. The assumptions: the sets of
threads and processes are disjoint.

`ReadPipelineProofs` proves, for any sets of reads of two classes, any times and any pauses up to `RetryLimit`:

| Theorem | Property |
|---|---|
| `PipelineTypesHold` | `TypeOK` |
| `CooldownHolds` | `CooldownCoversTheAsk` |
| `PausesAreKept` | `NoCallWhileAsked` |
| `ReadsAreAnsweredInTime` | `AnsweredInTime` |
| `AnswersMatchCalls` | `AnswerMatchesCalls` |
| `PipelineUsesSlot` | `UsesSlot` |

The argument. `PipelineInv`: beside the cooldown and the slot's own exclusion, `PausesAreCovered` (a 429 that no
handler has seen yet asks for no more than the cooldown may be; without it a handler that resumes late could
move the cooldown too far) and `OperationFollowsFate` (an operation runs only in the slot).
`PausesAreKept` then follows from one guard: an operation begins only when the cooldown is 0. For
`PipelineUsesSlot` each action is mapped to the step of `ExecutionSlot` it takes. `ReadInv` says of each read
what time it can still spend where it is (`InTime`: elapsed time and the timer that runs add up to no more than
the bound of that place, one bound for the first attempt and the pause, one for a second attempt in the queue, one
for a second attempt in the slot), and how many calls it has made there, and why (`CallsMatch`: a
second attempt has a connection timeout behind it, at every place). `AnsweredInTime` alone is not inductive: it
says nothing of a read that still runs.

`OptionChainCacheProofs` and `SessionHistoryCacheProofs` prove, for any sizes, bounds, keys, requests and reads:

| Theorem | Property |
|---|---|
| `TypesAreCorrect` | `TypeOK` of `OptionChainCache` |
| `ChainsAreCoalesced` | `OneFetchPerChain` |
| `TheCacheIsBounded`, in both | `CacheWithinBounds` |
| `NoFetchForACachedChain` | `FetchedChainIsNotCached` |
| `CachedAnswersAreCurrent` | `HitsAreCurrent` |
| `OnlyFinalSessionsAreKept` | `KeptSessionsAreFinal` |

The argument. `TableInv` is `OneFetchPerChain` with the types of the table, that the keys in flight are finitely
many, and that every request in the scheduler's hands has a chain. A new fetch takes a free place, the end of
one gives back its own; `HandlerSteps` covers whatever only moves a handler. That the cache stays within its bounds
rests on `SequenceLemmas`: the weight of a sequence is what its parts weigh, whatever is taken out of it
(`WeightOfRemoveAt`, `WeightOfSublists`); the eviction loop stops, at the latest when the cache is empty
(`EvictionLoop`); and each change the code makes to a cache and to its counter keeps them in agreement
(`StoringKeepsTheBounds`, `TouchingKeepsTheBounds`, `DroppingKeepsTheBounds`, `AgeingKeepsTheBounds`).
A chain that is being fetched was looked up and found missing before its fetch began, and a place in the table is
taken by one fetch: hence `FetchedChainIsNotCached`, inductive together with the two. For `HitsAreCurrent`,
`ReevaluationIsNormalization` shows that the marks put on a served chain are the marks of a fetch at that moment,
contract by contract and for the chain as a whole. For the sessions, an answer the clock has not moved under since Schwab put
it together had the halves of that day there are now; one that the clock has moved under had both if its day
is over by now (`Sound`): of closing time and midnight at most one falls during a read, so an answer put together before
closing time is judged before midnight, and not kept. What is stored is then a `FinalEntry`, and the cache a
sequence of these.

`OrderBookProofs` proves, for any symbols, any messages, any finite number of streams, any lists they request and any
limits:

| Theorem | Property |
|---|---|
| `OrderBookTypesHold` | `TypeOK` |
| `ConnectedIsLive` | `ConnectedMeansLive` |
| `PermitsMatchStreams` | `StreamsAreCounted` |
| `QueuesHoldTheNewest` | `QueueHoldsNewest` |
| `BoundariesHold` | `BoundariesAreMarked` |
| `OnlyTheGreetingIsRepeated` | `OnlyTheGreetingRepeats` |

The argument. `CountInv` says that a class's counter is the cardinality of its open streams and that the subscribers
are the handlers between `subscribe` and `unsubscribe`; `FeedInv` is `ConnectedMeansLive` with the fields of the feed.
`OrderInv` adds three parts. `LogInv`: connections do not decrease along the log, `seen` is the set of symbols the
current connection has published, and a snapshot has the flag exactly if it is the first of its symbol on a connection
that is not the first. `HistoryInv` and `QueueIsNewest` say of each history and of each queue that it `HoldsNewest`
of what is due to it: in order, without a gap, no longer than its limit, and lacking something only if it is full.
(The properties say instead that each element has fewer than the limit after it; `NewestAreFew` shows that this is
the same, but only the first form survives an append and a drop without counting again.) `SentBefore`: once
the greeting is over, what was sent of a symbol was sent from the queue, before what is at hand, or was published before
the greeting ended. `NewsArrive` carries a message to all lists at once.

`ProviderWorkerProofs` proves, for any operations and attempts:

| Theorem | Property |
|---|---|
| `WorkerTypeOK` | `TypeOK` |
| `WorkerLease` | `LeaseIsOneThread` |
| `WorkerOnceWarm` | `OnceWarmTheSlotDecides` |

The argument. `WorkerInv`: the lease, the slot and the token lock agree with each thread (`CallsAgree`, `SlotAgrees`), and
`AttemptWasLast`: when an attempt's value has been delivered the lease is free, so no detached thread
holds it; that is what remains when the gateway turns warm.

The assumptions of these, each named in its module: requests are not `NoRequest`; the payloads of option chains are
sequences of ages; bounds, limits and times are positive; a Retry-After is at most `RetryLimit`, because the code ignores a
longer one; the pause before a retry is shorter than the floor under what must be left for it; the classes of reads and of
streams are disjoint; there are finitely many streams; a malformed entry is no symbol; the names of callers
at the token lock differ.

Sequences. The models select from sequences and weigh them with recursive functions (`Sublist`, `Weight`), not with
recursive operators, because only those can be proved about; `SequenceLemmas` derives that such a function exists,
and does each induction with the least length for which a claim could fail (`LeastMember`, `UpTo`).

Only model-checked: the four liveness properties (`CallersAreAnswered`, `ShutdownDrains`, `LockWaitsEnd`,
`ReadinessRecovers`), which are beyond the prover. Every safety property that a passing run checks is proved.

## 5. Not modelled

* A second cancellation of `run_access_transaction_async` while the first waits for the lock, and cancellation
  of its exit. The caller of such a transaction is an operation of the scheduler, and nothing in the gateway
  cancels that task while it runs.
* The answer 429 of a fetch that another request joined, which moves the cooldown as well
  (`gw/api.py`, lines 882-883), and the age of order-book snapshots.
* A login that succeeds during its drain: its socket is discarded and never logged out. The drain is in
  `Scheduler`; the socket belongs to the Schwab library.
* HTTP routing, authentication and parameter parsing: stateless, one request at a time.
* The arithmetic of single fields in the normalizers (crossed markets, sentinel values, sizes), quotes, spot
  prices, movers and trailing histories: pure functions of one payload, with nothing kept.
* The market calendar: a pure function of a date. `SessionHistoryCache` takes its holidays as a constant.
* The Python SDK: one HTTP call per method, and declarations of the answers.
* Configuration, key issuing, credential probes, load test and analysis tools (one-shot programs), logging
  and metrics (output only), deployment scripts.

## 6. Running it

    tlc -workers 2 -config Scheduler_safety.cfg MCScheduler.tla
    tlapm SchedulerProofs.tla
    tlc -workers 2 -config TokenManager_safety.cfg MCTokenManager.tla
    tlapm TokenManagerProofs.tla
    tlc -workers 2 -config ReadPipeline.cfg MCReadPipeline.tla
    tlapm ReadPipelineProofs.tla

and so on for the others: the module of a run is in `PROJECT.json`.
