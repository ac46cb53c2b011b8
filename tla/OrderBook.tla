------------------------------ MODULE OrderBook ------------------------------
(***************************************************************************)
(* The order book of one venue: the feed that reconnects to Schwab, the    *)
(* store of recent snapshots, and the streams that fan them out under the  *)
(* admission limits.                                                       *)
(*                                                                         *)
(* A snapshot is its number in `log', the list of all that were published. *)
(* Whatever the code does between two awaits is one step.                  *)
(***************************************************************************)
EXTENDS Integers, FiniteSets, Sequences, SequencesExt, Sublists

CONSTANTS
  Symbols,         \* the symbols the feed subscribes to
  Messages,        \* the symbols of the entries of a book message, in order
  Malformed,       \* an entry that cannot be read
  Requested,       \* the symbols of a stream, in the order of its request
  Protected,       \* streams opened with a protected key
  Background,      \* streams opened with a background key
  Limit,           \* class -> streams admitted
  HistoryLimit,    \* snapshots kept for a symbol
  QueueLimit,      \* snapshots that wait for a subscriber
  MaxSnapshots,    \* bound: snapshots published
  MaxConnections   \* bound: connections made

Streams == Protected \cup Background
Classes == {"protected", "background"}
ClassOf(s) == IF s \in Protected THEN "protected" ELSE "background"

ASSUME ClassesAreDisjoint == Protected \cap Background = {}
ASSUME StreamsAreFinite == IsFiniteSet(Streams)
ASSUME LimitsArePositive ==
  /\ Limit \in [Classes -> Nat \ {0}]
  /\ {HistoryLimit, QueueLimit} \subseteq Nat \ {0}
ASSUME InputsAreSymbols ==
  /\ Malformed \notin Symbols
  /\ Messages \subseteq Seq(Symbols \cup {Malformed})
  /\ Requested \subseteq Seq(Symbols)

VARIABLES
  log,         \* the snapshots published (history)
  history,     \* _history: the recent snapshots of a symbol
  feedState,   \* _feed_state of the venue
  feed,        \* where run_forever is
  stream,      \* where each stream_order_book handler is
  subscribed,  \* _subscriptions
  active       \* _active of the stream admission

vars == <<log, history, feedState, feed, stream, subscribed, active>>
feedVars == <<log, history, feedState, feed>>

Snapshots == 1 .. Len(log)

\* boundary: the flag reconnect_boundary.
SnapshotRecord == [symbol : Symbols, connection : Nat, boundary : BOOLEAN]

FeedRecord ==
  [ stage      : {"starting", "connecting", "subscribing", "live", "backoff", "stopped"},
    failures   : 0 .. 4,
    connection : Nat,
    seen       : SUBSET Symbols ]

\* held: the snapshot that is being sent, or that queue.get() has returned.
\* since, got, greeted and received are history: the last snapshot before the
\* subscription, the last one taken from the queue, the last before the
\* greeting ended, and the latest of each symbol that was sent.
StreamRecord ==
  [ stage    : {"none", "preparing", "greeting", "waiting", "sending", "closing"},
    symbols  : Seq(Symbols),
    toGreet  : Seq(Symbols),
    queue    : Seq(Nat),
    held     : Nat,
    message  : {"none", "close", "other"},
    since    : Nat,
    got      : Nat,
    greeted  : Nat,
    received : [Symbols -> Nat] ]

NoStream ==
  [ stage |-> "none", symbols |-> <<>>, toGreet |-> <<>>, queue |-> <<>>, held |-> 0,
    message |-> "none", since |-> 0, got |-> 0, greeted |-> 0,
    received |-> [y \in Symbols |-> 0] ]

TypeOK ==
  /\ log \in Seq(SnapshotRecord)
  /\ history \in [Symbols -> Seq(Snapshots)]
  /\ feedState \in {"unconfigured", "connecting", "connected", "disconnected"}
  /\ feed \in FeedRecord
  /\ stream \in [Streams -> StreamRecord]
  /\ subscribed \subseteq Streams
  /\ active \in [Classes -> Nat]

Init ==
  /\ log = <<>>
  /\ history = [y \in Symbols |-> <<>>]
  /\ feedState = "unconfigured"
  /\ feed = [stage |-> "starting", failures |-> 0, connection |-> 0, seen |-> {}]
  /\ stream = [s \in Streams |-> NoStream]
  /\ subscribed = {}
  /\ active = [c \in Classes |-> 0]
-----------------------------------------------------------------------------
(* The feed.                                                               *)

\* The pause is 1, 2, 4 or 8 s: four failures are as many as any.
Failed(f) ==
  [f EXCEPT !.stage = "backoff", !.failures = IF @ < 4 THEN @ + 1 ELSE @]

\* The pause is over, and the stream it leaves is logged out.
Connect ==
  /\ feed.stage \in {"starting", "backoff"}
  /\ feed' = [feed EXCEPT !.stage = "connecting"]
  /\ feedState' = "connecting"
  /\ UNCHANGED <<log, history, stream, subscribed, active>>

LoginEnds ==
  /\ feed.stage = "connecting"
  /\ feed.connection < MaxConnections
  /\ feed' = [feed EXCEPT !.stage = "subscribing", !.connection = @ + 1, !.seen = {}]
  /\ UNCHANGED <<log, history, feedState, stream, subscribed, active>>

SubscriptionEnds ==
  /\ feed.stage = "subscribing"
  /\ feed' = [feed EXCEPT !.stage = "live"]
  /\ feedState' = "connected"
  /\ UNCHANGED <<log, history, stream, subscribed, active>>

StateKept == feedState                   \* mutant: nothing is marked
FeedIsLost == "disconnected"

\* The login is refused, expires, or the socket fails.
FeedFails ==
  /\ feed.stage \in {"connecting", "subscribing", "live"}
  /\ feed' = Failed(feed)
  /\ feedState' = FeedIsLost
  /\ UNCHANGED <<log, history, stream, subscribed, active>>

\* The application is cleaned up.
FeedStops ==
  /\ feed.stage # "stopped"
  /\ feed' = [feed EXCEPT !.stage = "stopped"]
  /\ feedState' = IF feed.stage = "starting" THEN feedState ELSE "disconnected"
  /\ UNCHANGED <<log, history, stream, subscribed, active>>
-----------------------------------------------------------------------------
(* handle_book and publish.                                                *)

\* One malformed entry spoils its message: nothing of it is published, and it
\* changes nothing.
Readable(m) == \A i \in DOMAIN m : m[i] # Malformed

FirstSeenEver(m, i) == m[i] \notin {log[n].symbol : n \in Snapshots}   \* mutant
FirstSeen(m, i) == m[i] \notin feed.seen /\ \A k \in 1 .. i - 1 : m[k] # m[i]

Published(m) ==
  [i \in 1 .. Len(m) |->
     [ symbol |-> m[i], connection |-> feed.connection,
       boundary |-> feed.connection > 1 /\ FirstSeen(m, i) ]]

\* The numbers of the snapshots of a message that are of the symbols ys.
News(m, ys) ==
  LET number(i) == Len(log) + i
  IN  Sublist([i \in 1 .. Len(m) |-> number(i)], {number(i) : i \in {i \in DOMAIN m : m[i] \in ys}})

Oldest(q, limit) == SubSeq(q, 1, IF Len(q) < limit THEN Len(q) ELSE limit)  \* mutant
Newest(q, limit) == SubSeq(q, IF Len(q) < limit THEN 1 ELSE Len(q) - limit + 1, Len(q))

\* Every subscriber of a symbol gets its snapshots: put_nowait, after the
\* oldest one is dropped from a full queue.
Message(m) ==
  /\ feed.stage = "live"
  /\ Readable(m)
  /\ Len(log) + Len(m) <= MaxSnapshots
  /\ log' = log \o Published(m)
  /\ history' = [y \in Symbols |-> Newest(history[y] \o News(m, {y}), HistoryLimit)]
  /\ feedState' = "connected"
  /\ feed' = [feed EXCEPT !.failures = 0, !.seen = @ \cup Range(m)]
  /\ stream' = [s \in Streams |->
       IF s \in subscribed
       THEN [stream[s] EXCEPT !.queue = Newest(@ \o News(m, Range(stream[s].symbols)), QueueLimit)]
       ELSE stream[s]]
  /\ UNCHANGED <<subscribed, active>>
-----------------------------------------------------------------------------
(* stream_order_book.                                                      *)

\* What the handler sends next once a greeting was sent: the most recent
\* snapshot of the next symbol that has one.
Greeted(rec) ==
  LET known == {i \in DOMAIN rec.toGreet : history[rec.toGreet[i]] # <<>>}
      next  == CHOOSE i \in known : \A k \in known : i <= k
  IN  IF known = {}
      THEN [rec EXCEPT !.stage = "waiting", !.toGreet = <<>>, !.held = 0, !.greeted = Len(log)]
      ELSE [rec EXCEPT !.stage = "greeting",
                       !.toGreet = SubSeq(@, next + 1, Len(@)),
                       !.held = Last(history[rec.toGreet[next]])]

AdmitAll(s) == TRUE                      \* mutant: the limit is not looked at
HasPermit(s) == active[ClassOf(s)] < Limit[ClassOf(s)]

Admit(s, symbols) ==
  /\ stream[s].stage = "none"
  /\ feedState = "connected"
  /\ HasPermit(s)
  /\ active' = [active EXCEPT ![ClassOf(s)] = @ + 1]
  /\ stream' = [stream EXCEPT ![s] = [NoStream EXCEPT !.stage = "preparing", !.symbols = symbols]]
  /\ UNCHANGED <<feedVars, subscribed>>

ReleasedTwice(s) == [active EXCEPT ![ClassOf(s)] = @ - 2]   \* mutant
Released(s) == [active EXCEPT ![ClassOf(s)] = @ - 1]

\* The upgrade fails, or its client is gone.
PrepareFails(s) ==
  /\ stream[s].stage = "preparing"
  /\ stream' = [stream EXCEPT ![s] = NoStream]
  /\ active' = Released(s)
  /\ UNCHANGED <<feedVars, subscribed>>

PrepareEnds(s) ==
  /\ stream[s].stage = "preparing"
  /\ subscribed' = subscribed \cup {s}
  /\ stream' = [stream EXCEPT ![s] =
       Greeted([@ EXCEPT !.toGreet = stream[s].symbols, !.since = Len(log), !.got = Len(log)])]
  /\ UNCHANGED <<feedVars, active>>

StillQueued(q) == q                      \* mutant: looked at, not taken
Taken(q) == Tail(q)

\* queue.get() returns while the handler waits for it or for the client.
GetEnds(s) ==
  /\ stream[s].stage = "waiting"
  /\ stream[s].held = 0
  /\ stream[s].queue # <<>>
  /\ stream' = [stream EXCEPT ![s].held = Head(stream[s].queue),
                              ![s].got = Head(stream[s].queue),
                              ![s].queue = Taken(@)]
  /\ UNCHANGED <<feedVars, subscribed, active>>

ReceiveEnds(s, message) ==
  /\ stream[s].stage = "waiting"
  /\ stream[s].message = "none"
  /\ stream' = [stream EXCEPT ![s].message = message]
  /\ UNCHANGED <<feedVars, subscribed, active>>

Closing(rec) == [NoStream EXCEPT !.stage = "closing"]

\* The wait is over: what was not done is cancelled; a get that is cancelled
\* leaves its snapshot in the queue.
HandlerResumes(s) ==
  /\ stream[s].stage = "waiting"
  /\ stream[s].held # 0 \/ stream[s].message # "none"
  /\ IF stream[s].message = "close"
     THEN /\ stream' = [stream EXCEPT ![s] = Closing(@)]
          /\ subscribed' = subscribed \ {s}
     ELSE /\ stream' = [stream EXCEPT ![s].message = "none",
                                      ![s].stage = IF stream[s].held # 0 THEN "sending" ELSE @]
          /\ UNCHANGED subscribed
  /\ UNCHANGED <<feedVars, active>>

Received(rec) == [rec EXCEPT !.received[log[rec.held].symbol] = rec.held]

\* send_str returns.
SendEnds(s) ==
  /\ stream[s].stage \in {"greeting", "sending"}
  /\ stream' = [stream EXCEPT ![s] =
       IF @.stage = "greeting" THEN Greeted(Received(@))
       ELSE [Received(@) EXCEPT !.stage = "waiting", !.held = 0]]
  /\ UNCHANGED <<feedVars, subscribed, active>>

\* The client is gone: a send or the receive raises, or the handler is cancelled.
StreamBreaks(s) ==
  /\ stream[s].stage \in {"greeting", "waiting", "sending"}
  /\ stream' = [stream EXCEPT ![s] = Closing(@)]
  /\ subscribed' = subscribed \ {s}
  /\ UNCHANGED <<feedVars, active>>

\* socket.close() returns, raises or is cancelled.
CloseEnds(s) ==
  /\ stream[s].stage = "closing"
  /\ stream' = [stream EXCEPT ![s] = NoStream]
  /\ active' = Released(s)
  /\ UNCHANGED <<feedVars, subscribed>>

Next ==
  \/ Connect
  \/ LoginEnds
  \/ SubscriptionEnds
  \/ FeedFails
  \/ FeedStops
  \/ \E m \in Messages : Message(m)
  \/ \E s \in Streams :
       \/ \E symbols \in Requested : Admit(s, symbols)
       \/ PrepareFails(s)
       \/ PrepareEnds(s)
       \/ GetEnds(s)
       \/ \E message \in {"close", "other"} : ReceiveEnds(s, message)
       \/ HandlerResumes(s)
       \/ SendEnds(s)
       \/ StreamBreaks(s)
       \/ CloseEnds(s)

Spec == Init /\ [][Next]_vars
-----------------------------------------------------------------------------
(* Properties.                                                             *)

\* "During a feed outage, order-book reads return an error instead of stale
\* data": both routes answer while feedState is "connected", and it is so
\* exactly while the feed is subscribed and reads its socket.
ConnectedMeansLive == feedState = "connected" <=> feed.stage = "live"

\* A slow consumer loses its oldest snapshots and no others: what waits for a
\* stream is the newest of what was published for it since it subscribed and
\* since it last took one, in order, whatever it was doing meanwhile.
QueueHoldsNewest ==
  \A s \in subscribed :
    LET due   == {n \in Snapshots : n > stream[s].got /\ log[n].symbol \in Range(stream[s].symbols)}
        queue == stream[s].queue
    IN  /\ stream[s].got >= stream[s].since
        /\ Range(queue) = {n \in due : Cardinality({m \in due : m > n}) < QueueLimit}
        /\ \A i, k \in DOMAIN queue : i < k => queue[i] < queue[k]

\* A stream subscribes before it greets, so that it misses nothing; the price
\* is that what is published meanwhile is sent again.  Only that: a snapshot that
\* is not newer than the last one sent of its symbol was published before the
\* greeting ended.
OnlyTheGreetingRepeats ==
  [][\A s \in Streams :
       stream[s].stage = "sending" /\ stream'[s].stage = "waiting"
       /\ stream[s].held <= stream[s].received[log[stream[s].held].symbol]
         => stream[s].held <= stream[s].greeted]_vars

\* "Treat connection_id as a continuity boundary": between two snapshots
\* of a symbol the flag reconnect_boundary is set exactly where the connection
\* changed, however often the feed reconnected without a snapshot; and what is
\* kept for a symbol is a run of its snapshots that ends with the newest.
BoundariesAreMarked ==
  LET of(y) == {n \in Snapshots : log[n].symbol = y}
  IN  /\ \A n \in Snapshots :
           LET before == {m \in of(log[n].symbol) : m < n}
               last   == CHOOSE m \in before : \A k \in before : k <= m
           IN  log[n].boundary <=>
                 IF before = {} THEN log[n].connection > 1
                 ELSE log[n].connection > log[last].connection
      /\ \A y \in Symbols :
           Range(history[y]) = {n \in of(y) : Cardinality({m \in of(y) : m > n}) < HistoryLimit}

\* However a stream ends, its subscription and its permit end with it: the
\* counts match the handlers, and no class has more than its limit.
StreamsAreCounted ==
  /\ \A c \in Classes :
       /\ active[c] = Cardinality({s \in Streams : ClassOf(s) = c /\ stream[s].stage # "none"})
       /\ active[c] <= Limit[c]
  /\ subscribed = {s \in Streams : stream[s].stage \in {"greeting", "waiting", "sending"}}
=============================================================================
