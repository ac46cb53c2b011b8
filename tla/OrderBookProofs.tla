--------------------------- MODULE OrderBookProofs ---------------------------
(***************************************************************************)
(* Theorems about OrderBook, for any number of streams and any limits: a   *)
(* connected state means a live feed; permits and subscriptions match the  *)
(* handlers; histories and queues hold the newest of what was published;   *)
(* reconnections are marked; and only the greeting is sent twice.          *)
(***************************************************************************)
EXTENDS OrderBook, SequenceLemmas, FiniteSetTheorems

\* A handler has these fields, whatever they hold.
Fields == {"stage", "symbols", "toGreet", "queue", "held", "message", "since", "got",
           "greeted", "received"}
IsHandler(rec) == rec = [x \in Fields |-> rec[x]]

Open(c) == {s \in Streams : ClassOf(s) = c /\ stream[s].stage # "none"}
Listening == {"greeting", "waiting", "sending"}

CountInv ==
  /\ stream = [s \in Streams |-> stream[s]]
  /\ active \in [Classes -> Int]
  /\ \A s \in Streams : IsHandler(stream[s])
  /\ StreamsAreCounted

FeedFields == {"stage", "failures", "connection", "seen"}
FeedInv == feed = [x \in FeedFields |-> feed[x]] /\ ConnectedMeansLive

\* A stream that is not open is a handler that does nothing.
LEMMA NoStreamIsAHandler == IsHandler(NoStream) /\ NoStream.stage = "none"
BY DEF IsHandler, Fields, NoStream

\* What the steps of a handler leave is a handler.
LEMMA MessageChanges ==
  ASSUME NEW rec, IsHandler(rec), NEW a
  PROVE  /\ IsHandler([rec EXCEPT !.message = a])
         /\ [rec EXCEPT !.message = a].stage = rec.stage
BY DEF IsHandler, Fields

\* The handler leaves its wait for another stage.
LEMMA StageChanges ==
  ASSUME NEW rec, IsHandler(rec), NEW a, NEW b
  PROVE  /\ IsHandler([rec EXCEPT !.message = a, !.stage = b])
         /\ [rec EXCEPT !.message = a, !.stage = b].stage = b
BY DEF IsHandler, Fields

\* The handler takes a snapshot to send.
LEMMA SendChanges ==
  ASSUME NEW rec, IsHandler(rec), NEW a, NEW b
  PROVE  /\ IsHandler([rec EXCEPT !.stage = a, !.held = b])
         /\ [rec EXCEPT !.stage = a, !.held = b].stage = a
BY DEF IsHandler, Fields

\* The handler begins its greeting.
LEMMA BeginChanges ==
  ASSUME NEW rec, IsHandler(rec), NEW a, NEW b, NEW c
  PROVE  /\ IsHandler([rec EXCEPT !.toGreet = a, !.since = b, !.got = c])
         /\ [rec EXCEPT !.toGreet = a, !.since = b, !.got = c].stage = rec.stage
BY DEF IsHandler, Fields

\* The handler is admitted with its symbols.
LEMMA AdmissionChanges ==
  ASSUME NEW rec, IsHandler(rec), NEW a, NEW b
  PROVE  /\ IsHandler([rec EXCEPT !.stage = a, !.symbols = b])
         /\ [rec EXCEPT !.stage = a, !.symbols = b].stage = a
BY DEF IsHandler, Fields

\* A greeting goes on, or is over.
LEMMA GreetedListens ==
  ASSUME NEW rec, IsHandler(rec)
  PROVE  IsHandler(Greeted(rec)) /\ Greeted(rec).stage \in {"greeting", "waiting"}
<1> DEFINE known == {i \in DOMAIN rec.toGreet : history[rec.toGreet[i]] # <<>>}
           next  == CHOOSE i \in known : \A k \in known : i <= k
           rest  == SubSeq(rec.toGreet, next + 1, Len(rec.toGreet))
           held  == Last(history[rec.toGreet[next]])
           done  == [rec EXCEPT !.stage = "waiting", !.toGreet = <<>>, !.held = 0, !.greeted = Len(log)]
           on    == [rec EXCEPT !.stage = "greeting", !.toGreet = rest, !.held = held]
<1>1. IsHandler(done) /\ done.stage = "waiting"
  BY DEF IsHandler, Fields
<1>2. IsHandler(on) /\ on.stage = "greeting"
  <2> HIDE DEF rest, held
  <2> QED
    BY DEF IsHandler, Fields
<1>3. Greeted(rec) = IF known = {} THEN done ELSE on
  BY DEF Greeted
<1> HIDE DEF known, done, on
<1> QED
  BY <1>1, <1>2, <1>3

\* What was sent changes no stage.
LEMMA ReceivedIsAHandler ==
  ASSUME NEW rec, IsHandler(rec)
  PROVE  IsHandler(Received(rec)) /\ Received(rec).stage = rec.stage
BY DEF Received, IsHandler, Fields
-----------------------------------------------------------------------------
(* Counting.                                                               *)

\* The open streams of a class can be counted.
LEMMA OpenIsFinite ==
  ASSUME NEW c \in Classes
  PROVE  IsFiniteSet(Open(c)) /\ Cardinality(Open(c)) \in Nat
BY StreamsAreFinite, FS_Subset, FS_CardinalityType DEF Open

\* No handler begins or ends: the counts stay, and so do the subscriptions when
\* nobody begins or ends to listen.
LEMMA NobodyComesOrGoes ==
  ASSUME CountInv, UNCHANGED active,
         stream' = [s \in Streams |-> stream'[s]],
         \A s \in Streams : /\ IsHandler(stream'[s])
                            /\ stream'[s].stage = "none" <=> stream[s].stage = "none",
         subscribed' = {s \in Streams : stream'[s].stage \in Listening}
  PROVE  CountInv'
<1>1. \A c \in Classes : Open(c)' = Open(c)
  BY DEF Open
<1>2. \A c \in Classes : active'[c] = Cardinality(Open(c)') /\ active'[c] <= Limit[c]
  BY <1>1 DEF CountInv, StreamsAreCounted, Open
<1> QED
  BY <1>2 DEF CountInv, StreamsAreCounted, Open, Listening

\* A handler begins, with a permit.
LEMMA OneComes ==
  ASSUME CountInv, NEW s \in Streams, stream[s].stage = "none", HasPermit(s),
         active' = [active EXCEPT ![ClassOf(s)] = @ + 1], UNCHANGED subscribed,
         stream' = [q \in Streams |-> stream'[q]], IsHandler(stream'[s]),
         stream'[s].stage = "preparing", \A q \in Streams \ {s} : stream'[q] = stream[q]
  PROVE  CountInv'
<1> DEFINE k == ClassOf(s)
<1>1. k \in Classes
  BY DEF ClassOf, Classes
<1>2. Open(k)' = Open(k) \cup {s} /\ s \notin Open(k)
  BY DEF Open
<1>3. \A c \in Classes \ {k} : Open(c)' = Open(c)
  BY DEF Open
<1>4. Cardinality(Open(k)') = Cardinality(Open(k)) + 1
  BY <1>1, <1>2, OpenIsFinite, FS_AddElement
<1>5. active'[k] = active[k] + 1 /\ \A c \in Classes \ {k} : active'[c] = active[c]
  BY <1>1 DEF CountInv
<1>6. \A c \in Classes : active[c] = Cardinality(Open(c)) /\ active[c] <= Limit[c] /\ Limit[c] \in Nat
  BY LimitsArePositive DEF CountInv, StreamsAreCounted, Open
<1>7. active'[k] = Cardinality(Open(k)') /\ active'[k] <= Limit[k]
  BY <1>1, <1>4, <1>5, <1>6, OpenIsFinite DEF HasPermit
<1>8. \A c \in Classes : active'[c] = Cardinality(Open(c)') /\ active'[c] <= Limit[c]
  BY <1>3, <1>5, <1>6, <1>7
<1>9. active' \in [Classes -> Int]
  BY <1>1 DEF CountInv
<1>10. subscribed' = {q \in Streams : stream'[q].stage \in Listening}
  BY DEF CountInv, StreamsAreCounted, Listening
<1>11. \A q \in Streams : IsHandler(stream'[q])
  BY DEF CountInv
<1> QED
  BY <1>8, <1>9, <1>10, <1>11 DEF CountInv, StreamsAreCounted, Open, Listening

\* A handler that no longer listens ends, and gives its permit back.
LEMMA OneGoes ==
  ASSUME CountInv, NEW s \in Streams, stream[s].stage \in {"preparing", "closing"},
         active' = Released(s), UNCHANGED subscribed,
         stream' = [stream EXCEPT ![s] = NoStream]
  PROVE  CountInv'
<1> DEFINE k == ClassOf(s)
<1>1. k \in Classes
  BY DEF ClassOf, Classes
<1>2. /\ stream' = [q \in Streams |-> stream'[q]] /\ stream'[s] = NoStream
      /\ \A q \in Streams \ {s} : stream'[q] = stream[q]
  BY DEF CountInv
<1>3. Open(k)' = Open(k) \ {s} /\ s \in Open(k)
  BY <1>2, NoStreamIsAHandler DEF Open
<1>4. \A c \in Classes \ {k} : Open(c)' = Open(c)
  BY <1>2 DEF Open
<1>5. Cardinality(Open(k)') = Cardinality(Open(k)) - 1
  BY <1>1, <1>3, OpenIsFinite, FS_RemoveElement
<1>6. active'[k] = active[k] - 1 /\ \A c \in Classes \ {k} : active'[c] = active[c]
  BY <1>1 DEF CountInv, Released
<1>7. \A c \in Classes : active[c] = Cardinality(Open(c)) /\ active[c] <= Limit[c] /\ Limit[c] \in Nat
  BY LimitsArePositive DEF CountInv, StreamsAreCounted, Open
<1>8. active'[k] = Cardinality(Open(k)') /\ active'[k] <= Limit[k]
  BY <1>1, <1>5, <1>6, <1>7, OpenIsFinite
<1>9. \A c \in Classes : active'[c] = Cardinality(Open(c)') /\ active'[c] <= Limit[c]
  BY <1>4, <1>6, <1>7, <1>8
<1>10. active' \in [Classes -> Int]
  BY <1>1 DEF CountInv, Released
<1>11. subscribed' = {q \in Streams : stream'[q].stage \in Listening}
  BY <1>2, NoStreamIsAHandler DEF CountInv, StreamsAreCounted, Listening
<1>12. \A q \in Streams : IsHandler(stream'[q])
  BY <1>2, NoStreamIsAHandler DEF CountInv
<1> QED
  BY <1>2, <1>9, <1>10, <1>11, <1>12 DEF CountInv, StreamsAreCounted, Open, Listening
-----------------------------------------------------------------------------
(* The steps.                                                              *)

\* One handler moves on, and listens or not.
LEMMA OneMoves ==
  ASSUME CountInv, NEW s \in Streams, stream[s].stage # "none", NEW rec,
         stream' = [stream EXCEPT ![s] = rec], IsHandler(rec), rec.stage # "none",
         UNCHANGED active,
         subscribed' = IF rec.stage \in Listening THEN subscribed \cup {s} ELSE subscribed \ {s}
  PROVE  CountInv'
<1>1. /\ stream' = [q \in Streams |-> stream'[q]] /\ stream'[s] = rec
      /\ \A q \in Streams \ {s} : stream'[q] = stream[q]
  BY DEF CountInv
<1>2. \A q \in Streams : IsHandler(stream'[q])
                         /\ (stream'[q].stage = "none" <=> stream[q].stage = "none")
  BY <1>1 DEF CountInv
<1>3. subscribed' = {q \in Streams : stream'[q].stage \in Listening}
  BY <1>1 DEF CountInv, StreamsAreCounted, Listening
<1> QED
  BY <1>1, <1>2, <1>3, NobodyComesOrGoes

\* A subscriber that stays one changes no count.
LEMMA ListenerMoves ==
  ASSUME CountInv, NEW s \in Streams, stream[s].stage \in Listening, NEW rec,
         stream' = [stream EXCEPT ![s] = rec], IsHandler(rec), rec.stage \in Listening,
         UNCHANGED <<subscribed, active>>
  PROVE  CountInv'
<1>1. s \in subscribed
  BY DEF CountInv, StreamsAreCounted, Listening
<1>2. stream[s].stage # "none" /\ rec.stage # "none"
  BY DEF Listening
<1>3. subscribed' = IF rec.stage \in Listening THEN subscribed \cup {s} ELSE subscribed \ {s}
  BY <1>1
<1> QED
  BY <1>2, <1>3, OneMoves

\* The feed does nothing to a handler but fill its queue.
LEMMA FeedSteps ==
  ASSUME CountInv, \/ UNCHANGED stream
                   \/ \E m \in Messages : Message(m),
         UNCHANGED <<subscribed, active>>
  PROVE  CountInv'
<1>1. CASE UNCHANGED stream
  BY <1>1 DEF CountInv, StreamsAreCounted
<1>2. CASE \E m \in Messages : Message(m)
  <2>1. PICK m \in Messages : Message(m)
    BY <1>2
  <2>2. stream' = [s \in Streams |-> stream'[s]]
    BY <2>1 DEF Message
  <2>3. \A s \in Streams : IsHandler(stream'[s]) /\ stream'[s].stage = stream[s].stage
    <3> SUFFICES ASSUME NEW s \in Streams
                 PROVE  IsHandler(stream'[s]) /\ stream'[s].stage = stream[s].stage
      OBVIOUS
    <3> DEFINE queue == Newest(stream[s].queue \o News(m, Range(stream[s].symbols)), QueueLimit)
    <3>1. stream'[s] = stream[s] \/ stream'[s] = [stream[s] EXCEPT !.queue = queue]
      BY <2>1 DEF Message
    <3> HIDE DEF queue
    <3>2. IsHandler(stream[s])
      BY DEF CountInv
    <3> QED
      BY <3>1, <3>2 DEF IsHandler, Fields
  <2>4. subscribed' = {s \in Streams : stream'[s].stage \in Listening}
    BY <2>3 DEF CountInv, StreamsAreCounted, Listening
  <2> QED
    BY <2>2, <2>3, <2>4, NobodyComesOrGoes
<1> QED
  BY <1>1, <1>2

\* The steps of a handler keep the counts.
LEMMA StreamSteps ==
  ASSUME CountInv, NEW s \in Streams,
         \/ \E symbols \in Requested : Admit(s, symbols)
         \/ PrepareFails(s) \/ PrepareEnds(s) \/ GetEnds(s)
         \/ \E message \in {"close", "other"} : ReceiveEnds(s, message)
         \/ HandlerResumes(s) \/ SendEnds(s) \/ StreamBreaks(s) \/ CloseEnds(s)
  PROVE  CountInv'
<1> DEFINE is == stream[s]
<1>1. IsHandler(is) /\ s \in DOMAIN stream
  BY DEF CountInv
<1>2. is.stage \in Listening <=> s \in subscribed
  BY DEF CountInv, StreamsAreCounted, Listening
<1>3. IsHandler(Closing(is)) /\ Closing(is).stage = "closing"
  BY DEF Closing, IsHandler, Fields, NoStream
<1>4. CASE \E symbols \in Requested : Admit(s, symbols)
  <2>1. PICK symbols \in Requested : Admit(s, symbols)
    BY <1>4
  <2> DEFINE new == [NoStream EXCEPT !.stage = "preparing", !.symbols = symbols]
  <2>2. IsHandler(new) /\ new.stage = "preparing"
    BY NoStreamIsAHandler, AdmissionChanges
  <2> HIDE DEF new
  <2>3. stream' = [stream EXCEPT ![s] = new]
    BY <2>1 DEF Admit, new
  <2>4. /\ stream' = [q \in Streams |-> stream'[q]] /\ stream'[s] = new
        /\ \A q \in Streams \ {s} : stream'[q] = stream[q]
    BY <2>3 DEF CountInv
  <2> QED
    BY <2>1, <2>2, <2>4, OneComes DEF Admit
<1>5. CASE PrepareFails(s)
  BY <1>5, OneGoes DEF PrepareFails
<1>6. CASE CloseEnds(s)
  BY <1>6, OneGoes DEF CloseEnds
<1>7. CASE PrepareEnds(s)
  <2> DEFINE rec == [is EXCEPT !.toGreet = is.symbols, !.since = Len(log), !.got = Len(log)]
             new == Greeted(rec)
  <2>1. IsHandler(rec)
    BY <1>1, BeginChanges
  <2>2. IsHandler(new) /\ new.stage \in {"greeting", "waiting"}
    BY <2>1, GreetedListens
  <2>3. stream' = [stream EXCEPT ![s] = new]
    BY <1>7 DEF PrepareEnds
  <2> HIDE DEF new, rec
  <2> QED
    BY <1>7, <2>2, <2>3, OneMoves DEF PrepareEnds, Listening
<1>8. CASE GetEnds(s)
  <2> DEFINE first == Head(is.queue)
             rest  == Taken(is.queue)
             new   == [is EXCEPT !.held = first, !.got = first, !.queue = rest]
  <2>1. IsHandler(new) /\ new.stage = is.stage
    <3>1. IsHandler(is)
      BY <1>1
    <3> HIDE DEF first, rest, is
    <3> QED
      BY <3>1 DEF IsHandler, Fields
  <2>2. stream' = [stream EXCEPT ![s] = new]
    BY <1>1, <1>8 DEF GetEnds, IsHandler, Fields
  <2>3. is.stage \in Listening /\ UNCHANGED <<subscribed, active>>
    BY <1>8 DEF GetEnds, Listening
  <2> HIDE DEF new
  <2> QED
    BY <2>1, <2>2, <2>3, ListenerMoves
<1>9. CASE \E message \in {"close", "other"} : ReceiveEnds(s, message)
  <2>1. PICK message \in {"close", "other"} : ReceiveEnds(s, message)
    BY <1>9
  <2> DEFINE new == [is EXCEPT !.message = message]
  <2>2. IsHandler(new) /\ new.stage = is.stage
    BY <1>1, MessageChanges
  <2>3. stream' = [stream EXCEPT ![s] = new]
    BY <2>1 DEF ReceiveEnds
  <2>4. is.stage \in Listening /\ UNCHANGED <<subscribed, active>>
    BY <2>1 DEF ReceiveEnds, Listening
  <2> HIDE DEF new
  <2> QED
    BY <2>2, <2>3, <2>4, ListenerMoves
<1>10. CASE HandlerResumes(s)
  <2>1. CASE is.message = "close"
    BY <1>3, <1>10, <2>1, OneMoves DEF HandlerResumes, Listening
  <2>2. CASE is.message # "close"
    <3> DEFINE stage == IF is.held # 0 THEN "sending" ELSE is.stage
               new   == [is EXCEPT !.message = "none", !.stage = stage]
    <3>1. stage \in Listening
      BY <1>10 DEF HandlerResumes, Listening
    <3> HIDE DEF stage
    <3>2. IsHandler(new) /\ new.stage = stage
      BY <1>1, StageChanges
    <3>3. stream' = [stream EXCEPT ![s] = new]
      BY <1>10, <2>2 DEF HandlerResumes, stage
    <3>4. is.stage \in Listening /\ UNCHANGED <<subscribed, active>>
      BY <1>10, <2>2 DEF HandlerResumes, Listening
    <3> HIDE DEF new
    <3> QED
      BY <3>1, <3>2, <3>3, <3>4, ListenerMoves
  <2> QED
    BY <2>1, <2>2
<1>11. CASE SendEnds(s)
  <2> DEFINE new == IF is.stage = "greeting" THEN Greeted(Received(is))
                    ELSE [Received(is) EXCEPT !.stage = "waiting", !.held = 0]
  <2>1. IsHandler(Received(is))
    BY <1>1, ReceivedIsAHandler
  <2>2. IsHandler(new) /\ new.stage \in {"greeting", "waiting"}
    BY <2>1, GreetedListens, SendChanges
  <2>3. stream' = [stream EXCEPT ![s] = new]
    BY <1>11 DEF SendEnds
  <2>4. is.stage \in Listening /\ UNCHANGED <<subscribed, active>>
    BY <1>11 DEF SendEnds, Listening
  <2>5. new.stage \in Listening
    BY <2>2 DEF Listening
  <2> HIDE DEF new
  <2> QED
    BY <2>2, <2>3, <2>4, <2>5, ListenerMoves
<1>12. CASE StreamBreaks(s)
  BY <1>3, <1>12, OneMoves DEF StreamBreaks, Listening
<1> QED
  BY <1>4, <1>5, <1>6, <1>7, <1>8, <1>9, <1>10, <1>11, <1>12

\* Nothing is open at the start.
LEMMA CountInit == Init => CountInv
<1> SUFFICES ASSUME Init PROVE CountInv
  OBVIOUS
<1>1. \A s \in Streams : stream[s] = NoStream
  BY DEF Init
<1>2. \A c \in Classes : Open(c) = {} /\ active[c] = 0 /\ Limit[c] \in Nat
  BY <1>1, NoStreamIsAHandler, LimitsArePositive DEF Init, Open
<1>3. \A c \in Classes : active[c] = Cardinality(Open(c)) /\ active[c] <= Limit[c]
  BY <1>2, FS_EmptySet
<1>4. subscribed = {s \in Streams : stream[s].stage \in Listening}
  BY <1>1, NoStreamIsAHandler DEF Init, Listening
<1> QED
  BY <1>1, <1>3, <1>4, NoStreamIsAHandler
  DEF Init, CountInv, StreamsAreCounted, Open, Listening

\* Every step keeps the counts.
LEMMA CountSteps ==
  ASSUME CountInv, [Next]_vars
  PROVE  CountInv'
<1>1. CASE \E s \in Streams :
             \/ \E symbols \in Requested : Admit(s, symbols)
             \/ PrepareFails(s) \/ PrepareEnds(s) \/ GetEnds(s)
             \/ \E message \in {"close", "other"} : ReceiveEnds(s, message)
             \/ HandlerResumes(s) \/ SendEnds(s) \/ StreamBreaks(s) \/ CloseEnds(s)
  BY <1>1, StreamSteps
<1>2. CASE \E m \in Messages : Message(m)
  BY <1>2, FeedSteps DEF Message
<1>3. CASE Connect \/ LoginEnds \/ SubscriptionEnds \/ FeedFails \/ FeedStops \/ UNCHANGED vars
  BY <1>3, FeedSteps DEF Connect, LoginEnds, SubscriptionEnds, FeedFails, FeedStops, vars
<1> QED
  BY <1>1, <1>2, <1>3 DEF Next
-----------------------------------------------------------------------------
\* However a stream ends, its subscription and its permit end with it, and no
\* class has more streams than its limit, for any number of streams.
THEOREM PermitsMatchStreams == Spec => []StreamsAreCounted
<1>1. CountInv => StreamsAreCounted
  BY DEF CountInv
<1> QED
  BY <1>1, CountInit, CountSteps, PTL DEF Spec

\* The routes answer while the feed is subscribed and reads its socket, and at no
\* other time.
THEOREM ConnectedIsLive == Spec => []ConnectedMeansLive
<1>1. Init => FeedInv
  BY DEF Init, FeedInv, FeedFields, ConnectedMeansLive
<1>2. FeedInv /\ [Next]_vars => FeedInv'
  <2> SUFFICES ASSUME FeedInv, [Next]_vars PROVE FeedInv'
    OBVIOUS
  <2> USE DEF FeedInv, FeedFields, ConnectedMeansLive
  <2>1. CASE Connect
    BY <2>1 DEF Connect
  <2>2. CASE LoginEnds
    BY <2>2 DEF LoginEnds
  <2>3. CASE SubscriptionEnds
    BY <2>3 DEF SubscriptionEnds
  <2>4. CASE FeedFails
    BY <2>4 DEF FeedFails, Failed, FeedIsLost
  <2>5. CASE FeedStops
    BY <2>5 DEF FeedStops
  <2>6. ASSUME NEW m \in Messages, Message(m)
        PROVE  FeedInv'
    BY <2>6 DEF Message
  <2>7. CASE UNCHANGED <<feed, feedState>>
    BY <2>7
  <2> QED
    BY <2>1, <2>2, <2>3, <2>4, <2>5, <2>6, <2>7
    DEF Next, vars, feedVars, Admit, PrepareFails, PrepareEnds, GetEnds, ReceiveEnds,
        HandlerResumes, SendEnds, StreamBreaks, CloseEnds
<1>3. FeedInv => ConnectedMeansLive
  BY DEF FeedInv
<1> QED
  BY <1>1, <1>2, <1>3, PTL DEF Spec
-----------------------------------------------------------------------------
(* The newest of a growing list.                                           *)

Increasing(q) == \A i, k \in 1 .. Len(q) : i < k => q[i] < q[k]

\* What q has of D is what follows its first element, and it lacks an earlier one
\* only when it is full.
Follows(q, D) ==
  /\ q \in Seq(Nat)
  /\ Increasing(q)
  /\ Range(q) \subseteq D
  /\ \A n \in Range(q), m \in D : n < m => m \in Range(q)

HoldsNewest(q, D, limit) ==
  /\ Follows(q, D)
  /\ Len(q) <= limit
  /\ Range(q) = D \/ Len(q) = limit

\* The elements of a sequence are those at its places.
LEMMA RangeOf ==
  ASSUME NEW S, NEW q \in Seq(S), NEW x
  PROVE  x \in Range(q) <=> \E i \in 1 .. Len(q) : q[i] = x
BY DEF Range

\* Where the elements of a concatenation come from.
LEMMA Concatenated ==
  ASSUME NEW S, NEW s \in Seq(S), NEW t \in Seq(S)
  PROVE  /\ s \o t \in Seq(S) /\ Len(s \o t) = Len(s) + Len(t)
         /\ \A i \in 1 .. Len(s) : (s \o t)[i] = s[i]
         /\ \A i \in 1 .. Len(t) : (s \o t)[Len(s) + i] = t[i]
OBVIOUS

\* What is selected from a sequence that increases increases.
LEMMA SublistIncreases ==
  ASSUME NEW s \in Seq(Nat), Increasing(s), NEW X
  PROVE  Sublist(s, X) \in Seq(Nat) /\ Increasing(Sublist(s, X))
<1> DEFINE t == Sublist(s, X)
<1>1. t \in Seq(Nat)
  BY SublistEmbeds
<1>2. PICK e : Embeds(e, t, s, X, Len(s))
  BY SublistEmbeds
<1> HIDE DEF t
<1>3. \A i \in 1 .. Len(t) : e[i] \in 1 .. Len(s) /\ t[i] = s[e[i]]
  BY <1>2 DEF Embeds
<1>4. ASSUME NEW i \in 1 .. Len(t), NEW k \in 1 .. Len(t), i < k
      PROVE  t[i] < t[k]
  <2>1. e[i] < e[k]
    BY <1>2, <1>4 DEF Embeds
  <2> QED
    BY <1>3, <2>1 DEF Increasing
<1> QED
  BY <1>1, <1>4 DEF Increasing, t

\* The last elements of a sequence that follows D hold the newest of D, when
\* nothing is missing of it or there are as many as the limit.
LEMMA LastOnesAreNewest ==
  ASSUME NEW D, NEW c, Follows(c, D), NEW limit \in Nat \ {0},
         Range(c) = D \/ Len(c) >= limit
  PROVE  HoldsNewest(Newest(c, limit), D, limit)
<1> DEFINE low == IF Len(c) < limit THEN 1 ELSE Len(c) - limit + 1
           w   == Newest(c, limit)
<1>1. c \in Seq(Nat) /\ Len(c) \in Nat
  BY DEF Follows
<1>2. /\ low \in Nat \ {0} /\ low <= Len(c) + 1
      /\ Len(c) - low + 1 <= limit
      /\ Len(c) >= limit => Len(c) - low + 1 = limit
  BY <1>1
<1> HIDE DEF low
<1>3. /\ w \in Seq(Nat) /\ Len(w) = Len(c) - low + 1
      /\ \A i \in 1 .. Len(w) : w[i] = c[low + i - 1] /\ low + i - 1 \in 1 .. Len(c)
  <2>1. w = SubSeq(c, low, Len(c))
    BY DEF Newest, low
  <2> HIDE DEF w
  <2> QED
    BY <1>1, <1>2, <2>1
<1> HIDE DEF w
<1>4. ASSUME NEW k \in 1 .. Len(c), low <= k
      PROVE  c[k] \in Range(w)
  <2> DEFINE j == k - low + 1
  <2>1. j \in 1 .. Len(w) /\ low + j - 1 = k
    BY <1>1, <1>2, <1>3, <1>4
  <2> HIDE DEF j
  <2>2. w[j] = c[k]
    BY <1>3, <2>1
  <2> QED
    BY <1>3, <2>1, <2>2, RangeOf
<1>5. Increasing(w)
  <2> SUFFICES ASSUME NEW i \in 1 .. Len(w), NEW k \in 1 .. Len(w), i < k
               PROVE  w[i] < w[k]
    BY DEF Increasing
  <2>1. /\ w[i] = c[low + i - 1] /\ low + i - 1 \in 1 .. Len(c)
        /\ w[k] = c[low + k - 1] /\ low + k - 1 \in 1 .. Len(c)
    BY <1>3
  <2>2. low + i - 1 < low + k - 1
    BY <1>1, <1>2, <1>3
  <2> QED
    BY <2>1, <2>2 DEF Follows, Increasing
<1>6. Range(w) \subseteq Range(c)
  <2> SUFFICES ASSUME NEW x \in Range(w) PROVE x \in Range(c)
    OBVIOUS
  <2>1. PICK i \in 1 .. Len(w) : w[i] = x
    BY <1>3, RangeOf
  <2> QED
    BY <1>1, <1>3, <2>1, RangeOf
<1>7. ASSUME NEW n \in Range(w), NEW m \in D, n < m
      PROVE  m \in Range(w)
  <2>1. PICK i \in 1 .. Len(w) : w[i] = n
    BY <1>3, RangeOf
  <2>2. m \in Range(c)
    BY <1>6, <1>7 DEF Follows
  <2>3. PICK k \in 1 .. Len(c) : c[k] = m
    BY <1>1, <2>2, RangeOf
  <2> DEFINE j == low + i - 1
  <2>4. j \in 1 .. Len(c) /\ c[j] = n /\ low <= j
    BY <1>2, <1>3, <2>1
  <2> HIDE DEF j
  <2>5. ~(k < j) /\ k # j
    <3>1. n \in Nat /\ m \in Nat
      BY <1>1, <2>3, <2>4
    <3> QED
      BY <1>7, <2>3, <2>4, <3>1 DEF Follows, Increasing
  <2>6. low <= k
    BY <1>1, <1>2, <2>4, <2>5
  <2> QED
    BY <1>4, <2>3, <2>6
<1>8. Range(w) = D \/ Len(w) = limit
  <2>1. CASE Len(c) >= limit
    BY <1>2, <1>3, <2>1
  <2>2. CASE Len(c) < limit
    <3>1. low = 1 /\ Range(c) = D
      BY <1>1, <2>2 DEF low
    <3>2. Range(c) \subseteq Range(w)
      <4> SUFFICES ASSUME NEW x \in Range(c) PROVE x \in Range(w)
        OBVIOUS
      <4>1. PICK k \in 1 .. Len(c) : c[k] = x
        BY <1>1, RangeOf
      <4>2. low <= k
        BY <1>1, <3>1
      <4> QED
        BY <1>4, <4>1, <4>2
    <3> QED
      BY <1>6, <3>1, <3>2
  <2> QED
    BY <1>1, <2>1, <2>2
<1>9. Follows(w, D)
  BY <1>3, <1>5, <1>6, <1>7 DEF Follows
<1> QED
  BY <1>2, <1>3, <1>8, <1>9 DEF HoldsNewest, w

\* Newer elements are added, and as many old ones dropped as there is no room for.
LEMMA NewestOfMore ==
  ASSUME NEW D \in SUBSET Nat, NEW limit \in Nat \ {0}, NEW q, HoldsNewest(q, D, limit),
         NEW t \in Seq(Nat), Increasing(t), \A n \in D, i \in 1 .. Len(t) : n < t[i]
  PROVE  HoldsNewest(Newest(q \o t, limit), D \cup Range(t), limit)
<1> DEFINE c == q \o t
           E == D \cup Range(t)
<1>1. q \in Seq(Nat) /\ Len(q) \in Nat /\ Len(t) \in Nat
  BY DEF HoldsNewest, Follows
<1>2. /\ c \in Seq(Nat) /\ Len(c) = Len(q) + Len(t)
      /\ \A i \in 1 .. Len(q) : c[i] = q[i]
      /\ \A i \in 1 .. Len(t) : c[Len(q) + i] = t[i]
  BY <1>1, Concatenated
<1> HIDE DEF c
<1>3. \A i \in 1 .. Len(c) : i \in 1 .. Len(q) \/ i - Len(q) \in 1 .. Len(t)
  BY <1>1, <1>2
<1>4. \A i \in 1 .. Len(q) : q[i] \in D
  BY <1>1, RangeOf DEF HoldsNewest, Follows
<1>5. Range(c) = Range(q) \cup Range(t)
  <2>1. ASSUME NEW x \in Range(c) PROVE x \in Range(q) \cup Range(t)
    <3>1. PICK i \in 1 .. Len(c) : c[i] = x
      BY <1>2, RangeOf
    <3>2. CASE i \in 1 .. Len(q)
      BY <1>1, <1>2, <3>1, <3>2, RangeOf
    <3>3. CASE i - Len(q) \in 1 .. Len(t)
      <4> DEFINE k == i - Len(q)
      <4>1. k \in 1 .. Len(t) /\ i = Len(q) + k
        BY <1>1, <1>2, <3>3
      <4> HIDE DEF k
      <4>2. t[k] = x
        BY <1>2, <3>1, <4>1
      <4> QED
        BY <4>1, <4>2, RangeOf
    <3> QED
      BY <1>3, <3>2, <3>3
  <2>2. ASSUME NEW x \in Range(q) PROVE x \in Range(c)
    <3>1. PICK i \in 1 .. Len(q) : q[i] = x
      BY <1>1, RangeOf
    <3>2. i \in 1 .. Len(c) /\ c[i] = x
      BY <1>1, <1>2, <3>1
    <3> QED
      BY <1>2, <3>2, RangeOf
  <2>3. ASSUME NEW x \in Range(t) PROVE x \in Range(c)
    <3>1. PICK i \in 1 .. Len(t) : t[i] = x
      BY RangeOf
    <3>2. Len(q) + i \in 1 .. Len(c) /\ c[Len(q) + i] = x
      BY <1>1, <1>2, <3>1
    <3> QED
      BY <1>2, <3>2, RangeOf
  <2> QED
    BY <2>1, <2>2, <2>3
<1>6. Increasing(c)
  <2> SUFFICES ASSUME NEW i \in 1 .. Len(c), NEW k \in 1 .. Len(c), i < k
               PROVE  c[i] < c[k]
    BY DEF Increasing
  <2>1. CASE k \in 1 .. Len(q)
    <3>1. i \in 1 .. Len(q)
      BY <1>1, <1>2, <2>1
    <3> QED
      BY <1>2, <2>1, <3>1 DEF HoldsNewest, Follows, Increasing
  <2>2. CASE k - Len(q) \in 1 .. Len(t) /\ i \in 1 .. Len(q)
    <3> DEFINE j == k - Len(q)
    <3>1. j \in 1 .. Len(t) /\ k = Len(q) + j
      BY <1>1, <1>2, <2>2
    <3> HIDE DEF j
    <3>2. c[i] = q[i] /\ c[k] = t[j]
      BY <1>2, <2>2, <3>1
    <3> QED
      BY <1>4, <2>2, <3>1, <3>2
  <2>3. CASE k - Len(q) \in 1 .. Len(t) /\ i - Len(q) \in 1 .. Len(t)
    <3> DEFINE j == k - Len(q)
               h == i - Len(q)
    <3>1. j \in 1 .. Len(t) /\ k = Len(q) + j /\ h \in 1 .. Len(t) /\ i = Len(q) + h /\ h < j
      BY <1>1, <1>2, <2>3
    <3> HIDE DEF j, h
    <3>2. c[i] = t[h] /\ c[k] = t[j]
      BY <1>2, <3>1
    <3> QED
      BY <3>1, <3>2 DEF Increasing
  <2> QED
    BY <1>3, <2>1, <2>2, <2>3
<1>7. ASSUME NEW n \in Range(c), NEW m \in E, n < m
      PROVE  m \in Range(c)
  <2>1. CASE m \in Range(t)
    BY <1>5, <2>1
  <2>2. CASE m \in D /\ n \in Range(q)
    BY <1>5, <1>7, <2>2 DEF HoldsNewest, Follows
  <2>3. CASE m \in D /\ n \in Range(t)
    <3>1. PICK i \in 1 .. Len(t) : t[i] = n
      BY <2>3, RangeOf
    <3>2. m < n /\ m \in Nat /\ n \in Nat
      BY <2>3, <3>1
    <3> QED
      BY <1>7, <3>2
  <2> QED
    BY <1>5, <2>1, <2>2, <2>3
<1>8. Follows(c, E)
  <2>1. Range(c) \subseteq E
    BY <1>5 DEF HoldsNewest, Follows
  <2> HIDE DEF E
  <2> QED
    BY <1>2, <1>6, <1>7, <2>1 DEF Follows
<1>9. Range(c) = E \/ Len(c) >= limit
  BY <1>1, <1>2, <1>5 DEF HoldsNewest
<1> HIDE DEF E
<1>10. HoldsNewest(Newest(c, limit), E, limit)
  BY <1>8, <1>9, LastOnesAreNewest
<1> QED
  BY <1>10 DEF c, E

\* What stands behind a place is no more than the places behind it.
LEMMA AtMostTheRest ==
  ASSUME NEW q \in Seq(Nat), NEW n \in 0 .. Len(q), NEW U,
         \A m \in U : \E j \in n + 1 .. Len(q) : q[j] = m
  PROVE  IsFiniteSet(U) /\ Cardinality(U) <= Len(q) - n
<1> DEFINE T == n + 1 .. Len(q)
           f == [m \in U |-> CHOOSE j \in T : q[j] = m]
<1>1. \A m \in U : f[m] \in T /\ q[f[m]] = m
  OBVIOUS
<1>2. f \in Injection(U, T)
  <2> HIDE DEF T
  <2>1. f \in [U -> T]
    BY <1>1
  <2> HIDE DEF f
  <2>2. \A a, b \in U : f[a] = f[b] => a = b
    BY <1>1
  <2> QED
    BY <2>1, <2>2 DEF Injection, IsInjective
<1>3. IsFiniteSet(T) /\ Cardinality(T) = IF n + 1 > Len(q) THEN 0 ELSE Len(q) - (n + 1) + 1
  <2>1. n + 1 \in Int /\ Len(q) \in Int
    OBVIOUS
  <2> QED
    BY <2>1, FS_Interval
<1> HIDE DEF f, T
<1>4. IsFiniteSet(U) /\ Cardinality(U) <= Cardinality(T)
  BY <1>2, <1>3, FS_Injection
<1> QED
  BY <1>3, <1>4

\* A queue in order holds as many as it is long.
LEMMA AtLeastAll ==
  ASSUME NEW q \in Seq(Nat), Increasing(q), NEW U, IsFiniteSet(U), Range(q) \subseteq U
  PROVE  Len(q) <= Cardinality(U)
<1> DEFINE T == 1 .. Len(q)
           f == [j \in T |-> q[j]]
<1>1. \A j \in T : f[j] = q[j] /\ q[j] \in U /\ q[j] \in Nat
  BY RangeOf
<1>2. f \in Injection(T, U)
  <2>1. f \in [T -> U]
    BY <1>1
  <2>2. ASSUME NEW a \in T, NEW b \in T, f[a] = f[b] PROVE a = b
    <3>1. ~(a < b) /\ ~(b < a)
      BY <1>1, <2>2 DEF Increasing
    <3> QED
      BY <3>1
  <2> HIDE DEF f, T
  <2> QED
    BY <2>1, <2>2 DEF Injection, IsInjective
<1>3. Cardinality(T) = Len(q)
  <2>1. 1 \in Int /\ Len(q) \in Int /\ Len(q) >= 0
    OBVIOUS
  <2>2. Cardinality(T) = IF 1 > Len(q) THEN 0 ELSE Len(q) - 1 + 1
    BY <2>1, FS_Interval
  <2> QED
    BY <2>1, <2>2
<1> HIDE DEF f
<1> QED
  BY <1>2, <1>3, FS_Injection

\* The members that fewer than the limit follow.
NewestOf(D, limit) == {n \in D : Cardinality({m \in D : m > n}) < limit}

\* The newest are those that fewer than the limit follow.
LEMMA NewestAreFew ==
  ASSUME NEW N \in Nat, NEW D \in SUBSET (1 .. N), NEW limit \in Nat \ {0},
         NEW q, HoldsNewest(q, D, limit)
  PROVE  Range(q) = NewestOf(D, limit)
<1> SUFFICES ASSUME NEW n \in D
             PROVE  n \in Range(q) <=> Cardinality({m \in D : m > n}) < limit
  BY DEF HoldsNewest, Follows, NewestOf
<1> DEFINE U == {m \in D : m > n}
<1>1. q \in Seq(Nat) /\ Len(q) \in Nat
  BY DEF HoldsNewest, Follows
<1>2. IsFiniteSet(U) /\ Cardinality(U) \in Nat
  <2>1. U \in SUBSET (1 .. N) /\ IsFiniteSet(1 .. N)
    <3>1. IsFiniteSet(1 .. N)
      <4>1. 1 \in Int /\ N \in Int
        OBVIOUS
      <4> QED
        BY <4>1, FS_Interval
    <3> QED
      BY <3>1
  <2> HIDE DEF U
  <2> QED
    BY <2>1, FS_Subset, FS_CardinalityType
<1>3. CASE n \in Range(q)
  <2>1. PICK i \in 1 .. Len(q) : q[i] = n
    BY <1>1, <1>3, RangeOf
  <2>2. ASSUME NEW m \in U PROVE \E j \in i + 1 .. Len(q) : q[j] = m
    <3>1. m \in Range(q) /\ n < m /\ m \in Nat /\ n \in Nat
      BY <1>3, <2>2 DEF HoldsNewest, Follows
    <3>2. PICK j \in 1 .. Len(q) : q[j] = m
      BY <1>1, <3>1, RangeOf
    <3>3. ~(j < i) /\ j # i
      BY <2>1, <3>1, <3>2 DEF HoldsNewest, Follows, Increasing
    <3>4. j \in i + 1 .. Len(q)
      BY <1>1, <3>3
    <3> QED
      BY <3>2, <3>4
  <2>3. i \in 0 .. Len(q)
    BY <1>1
  <2> HIDE DEF U
  <2>4. Cardinality(U) <= Len(q) - i
    BY <1>1, <2>2, <2>3, AtMostTheRest
  <2>5. Len(q) - i < limit
    BY <1>1 DEF HoldsNewest
  <2> QED
    BY <1>1, <1>2, <1>3, <2>4, <2>5 DEF U
<1>4. CASE n \notin Range(q)
  <2>1. Len(q) = limit
    BY <1>4 DEF HoldsNewest
  <2>2. Range(q) \subseteq U
    <3> SUFFICES ASSUME NEW m \in Range(q) PROVE m \in U
      OBVIOUS
    <3>1. m \in D /\ ~(m < n) /\ m # n
      BY <1>4 DEF HoldsNewest, Follows
    <3> QED
      BY <3>1
  <2> HIDE DEF U
  <2>3. Increasing(q)
    BY DEF HoldsNewest, Follows
  <2>4. Len(q) <= Cardinality(U)
    BY <1>1, <1>2, <2>2, <2>3, AtLeastAll
  <2> QED
    BY <1>1, <1>2, <1>4, <2>1, <2>4 DEF U
<1> QED
  BY <1>3, <1>4

\* Once the first is taken, the rest holds what follows it.
LEMMA RestHoldsNewest ==
  ASSUME NEW D \in SUBSET Nat, NEW limit \in Nat \ {0}, NEW q, HoldsNewest(q, D, limit), q # <<>>
  PROVE  /\ Head(q) \in D
         /\ HoldsNewest(Tail(q), {n \in D : n > Head(q)}, limit)
<1> DEFINE t == Tail(q)
           E == {n \in D : n > Head(q)}
<1>1. q \in Seq(Nat) /\ Len(q) \in Nat \ {0}
  BY DEF HoldsNewest, Follows
<1>2. /\ t \in Seq(Nat) /\ Len(t) = Len(q) - 1 /\ Head(q) = q[1]
      /\ \A i \in 1 .. Len(t) : t[i] = q[i + 1] /\ i + 1 \in 1 .. Len(q)
  BY <1>1
<1> HIDE DEF t
<1>3. q[1] \in Range(q) /\ q[1] \in D /\ q[1] \in Nat
  BY <1>1, RangeOf DEF HoldsNewest, Follows
<1>4. Increasing(t)
  <2> SUFFICES ASSUME NEW i \in 1 .. Len(t), NEW k \in 1 .. Len(t), i < k
               PROVE  t[i] < t[k]
    BY DEF Increasing
  <2>1. i + 1 < k + 1 /\ i + 1 \in 1 .. Len(q) /\ k + 1 \in 1 .. Len(q)
    BY <1>1, <1>2
  <2>2. q[i + 1] < q[k + 1]
    BY <2>1 DEF HoldsNewest, Follows, Increasing
  <2> QED
    BY <1>2, <2>2
<1>5. Range(t) = E
  <2>1. ASSUME NEW x \in Range(t) PROVE x \in E
    <3>1. PICK i \in 1 .. Len(t) : t[i] = x
      BY <1>2, RangeOf
    <3>2. x = q[i + 1] /\ i + 1 \in 1 .. Len(q) /\ 1 < i + 1 /\ 1 \in 1 .. Len(q)
      BY <1>1, <1>2, <3>1
    <3>3. x \in D
      BY <1>1, <3>2, RangeOf DEF HoldsNewest, Follows
    <3>4. q[1] < x
      BY <3>2 DEF HoldsNewest, Follows, Increasing
    <3> QED
      BY <1>2, <1>3, <3>3, <3>4
  <2>2. ASSUME NEW x \in E PROVE x \in Range(t)
    <3>1. x \in D /\ q[1] < x /\ x \in Nat
      BY <1>2, <1>3, <2>2
    <3>2. x \in Range(q)
      BY <1>3, <3>1 DEF HoldsNewest, Follows
    <3>3. PICK k \in 1 .. Len(q) : q[k] = x
      BY <1>1, <3>2, RangeOf
    <3>4. k # 1
      BY <1>3, <3>1, <3>3
    <3> DEFINE j == k - 1
    <3>5. j \in 1 .. Len(t) /\ j + 1 = k
      BY <1>1, <1>2, <3>4
    <3> HIDE DEF j
    <3>6. t[j] = x
      BY <1>2, <3>3, <3>5
    <3> QED
      BY <1>2, <3>5, <3>6, RangeOf
  <2> QED
    BY <2>1, <2>2
<1> HIDE DEF E
<1>6. Follows(t, E)
  BY <1>2, <1>4, <1>5 DEF Follows
<1>7. HoldsNewest(t, E, limit)
  BY <1>1, <1>2, <1>5, <1>6 DEF HoldsNewest
<1> QED
  BY <1>2, <1>3, <1>7 DEF t, E
-----------------------------------------------------------------------------
(* The log: its snapshots, their connections and their boundaries.         *)

\* The numbers of the snapshots of a message that are of the symbols ys.
LEMMA NewsAreNumbered ==
  ASSUME NEW S, NEW m \in Seq(S), NEW ys, Len(log) \in Nat
  PROVE  /\ News(m, ys) \in Seq(Nat) /\ Increasing(News(m, ys))
         /\ \A x : x \in Range(News(m, ys)) <=> \E i \in 1 .. Len(m) : m[i] \in ys /\ x = Len(log) + i
<1> DEFINE s == [i \in 1 .. Len(m) |-> Len(log) + i]
           X == {Len(log) + i : i \in {i \in DOMAIN m : m[i] \in ys}}
<1>1. News(m, ys) = Sublist(s, X)
  BY DEF News
<1>2. s \in Seq(Nat) /\ Len(s) = Len(m) /\ \A i \in 1 .. Len(m) : s[i] = Len(log) + i
  OBVIOUS
<1> HIDE DEF s
<1>3. Increasing(s)
  BY <1>2 DEF Increasing
<1>4. \A x : x \in X <=> \E i \in 1 .. Len(m) : m[i] \in ys /\ x = Len(log) + i
  OBVIOUS
<1> HIDE DEF X
<1>5. Range(Sublist(s, X)) = Range(s) \cap X
  BY <1>2, SublistHas
<1>6. ASSUME NEW x \in X PROVE x \in Range(s)
  <2>1. PICK i \in 1 .. Len(m) : x = Len(log) + i
    BY <1>4
  <2> QED
    BY <1>2, <2>1, RangeOf
<1> QED
  BY <1>1, <1>2, <1>3, <1>4, <1>5, <1>6, SublistIncreases

\* A snapshot has the flag exactly where it is the first of its symbol on its
\* connection, and that is not the first one.
Marked(n) ==
  log[n].boundary <=>
    /\ log[n].connection > 1
    /\ \A k \in Snapshots : k < n /\ log[k].symbol = log[n].symbol
         => log[k].connection < log[n].connection

SeenNow(y) == \E k \in Snapshots : log[k].symbol = y /\ log[k].connection = feed.connection

LogInv ==
  /\ log \in Seq(SnapshotRecord)
  /\ feed \in FeedRecord
  /\ feed.stage \in {"subscribing", "live"} => feed.connection >= 1
  /\ \A n \in Snapshots : 1 <= log[n].connection /\ log[n].connection <= feed.connection
  /\ \A n, k \in Snapshots : n <= k => log[n].connection <= log[k].connection
  /\ \A y \in Symbols : y \in feed.seen <=> SeenNow(y)
  /\ \A n \in Snapshots : Marked(n)

\* What a message adds to the log.
LEMMA LogGrows ==
  ASSUME log \in Seq(SnapshotRecord), feed \in FeedRecord, NEW m \in Messages, Message(m)
  PROVE  /\ m \in Seq(Symbols) /\ Len(log) \in Nat /\ Len(m) \in Nat
         /\ log' \in Seq(SnapshotRecord) /\ Len(log') = Len(log) + Len(m)
         /\ \A n \in Snapshots : n \in Snapshots' /\ log'[n] = log[n]
         /\ \A i \in 1 .. Len(m) :
              /\ Len(log) + i \in Snapshots'
              /\ log'[Len(log) + i].symbol = m[i]
              /\ log'[Len(log) + i].connection = feed.connection
              /\ log'[Len(log) + i].boundary <=> feed.connection > 1 /\ FirstSeen(m, i)
         /\ \A n \in Snapshots' : n \in Snapshots \/ \E i \in 1 .. Len(m) : n = Len(log) + i
<1>1. m \in Seq(Symbols \cup {Malformed}) /\ Readable(m)
  BY InputsAreSymbols DEF Message
<1>2. m \in Seq(Symbols) /\ Len(m) \in Nat /\ Len(log) \in Nat
  <2>1. \A i \in 1 .. Len(m) : m[i] \in Symbols
    BY <1>1 DEF Readable
  <2> QED
    BY <1>1, <2>1
<1> DEFINE added == Published(m)
<1>3. /\ added \in Seq(SnapshotRecord) /\ Len(added) = Len(m)
      /\ \A i \in 1 .. Len(m) : added[i] = [ symbol |-> m[i], connection |-> feed.connection,
                                             boundary |-> feed.connection > 1 /\ FirstSeen(m, i) ]
  <2>1. \A i \in 1 .. Len(m) : m[i] \in Symbols
    BY <1>2
  <2>2. \A i \in 1 .. Len(m) :
          [ symbol |-> m[i], connection |-> feed.connection,
            boundary |-> feed.connection > 1 /\ FirstSeen(m, i) ] \in SnapshotRecord
    BY <2>1 DEF SnapshotRecord, FeedRecord
  <2>3. added = [i \in 1 .. Len(m) |-> [ symbol |-> m[i], connection |-> feed.connection,
                                          boundary |-> feed.connection > 1 /\ FirstSeen(m, i) ]]
    BY DEF Published
  <2> HIDE DEF added
  <2> QED
    BY <1>2, <2>2, <2>3
<1>4. log' = log \o added
  BY DEF Message
<1> HIDE DEF added
<1>5. /\ log' \in Seq(SnapshotRecord) /\ Len(log') = Len(log) + Len(m)
      /\ \A n \in Snapshots : n \in Snapshots' /\ log'[n] = log[n]
      /\ \A i \in 1 .. Len(m) : Len(log) + i \in Snapshots' /\ log'[Len(log) + i] = added[i]
  <2>1. /\ log' \in Seq(SnapshotRecord) /\ Len(log') = Len(log) + Len(m)
        /\ \A n \in 1 .. Len(log) : log'[n] = log[n]
        /\ \A i \in 1 .. Len(m) : log'[Len(log) + i] = added[i]
    <3>1. added \in Seq(SnapshotRecord) /\ Len(added) = Len(m)
      BY <1>3
    <3>2. log \in Seq(SnapshotRecord)
      OBVIOUS
    <3> QED
      BY <1>3, <1>4, <3>1, <3>2, Concatenated
  <2>2. Snapshots = 1 .. Len(log) /\ Snapshots' = 1 .. Len(log')
    BY DEF Snapshots
  <2> QED
    BY <1>2, <2>1, <2>2
<1>6. ASSUME NEW n \in Snapshots', n \notin Snapshots
      PROVE  \E i \in 1 .. Len(m) : n = Len(log) + i
  <2> DEFINE i == n - Len(log)
  <2>1. i \in 1 .. Len(m) /\ n = Len(log) + i
    BY <1>2, <1>5, <1>6 DEF Snapshots
  <2> QED
    BY <2>1
<1>7. ASSUME NEW i \in 1 .. Len(m)
      PROVE  /\ log'[Len(log) + i].symbol = m[i]
             /\ log'[Len(log) + i].connection = feed.connection
             /\ log'[Len(log) + i].boundary <=> feed.connection > 1 /\ FirstSeen(m, i)
  <2>1. log'[Len(log) + i] = [ symbol |-> m[i], connection |-> feed.connection,
                               boundary |-> feed.connection > 1 /\ FirstSeen(m, i) ]
    BY <1>3, <1>5
  <2> DEFINE y == m[i]
             c == feed.connection
             b == feed.connection > 1 /\ FirstSeen(m, i)
  <2> HIDE DEF y, c, b
  <2>2. log'[Len(log) + i] = [symbol |-> y, connection |-> c, boundary |-> b]
    BY <2>1 DEF y, c, b
  <2>3. /\ log'[Len(log) + i].symbol = y /\ log'[Len(log) + i].connection = c
        /\ log'[Len(log) + i].boundary = b
    BY <2>2
  <2> QED
    BY <2>3 DEF y, c, b
<1> QED
  BY <1>2, <1>5, <1>6, <1>7

\* The connections of the log are those of the feed, so far.
LEMMA ConnectionsSoFar ==
  ASSUME LogInv, NEW n \in Snapshots
  PROVE  /\ log[n].connection \in Nat /\ n <= Len(log) /\ n \in Nat
         /\ 1 <= log[n].connection /\ log[n].connection <= feed.connection
<1>1. n \in 1 .. Len(log) /\ Len(log) \in Nat
  BY DEF Snapshots, LogInv
<1>2. log[n] \in SnapshotRecord
  BY <1>1 DEF LogInv
<1>3. log[n].connection \in Nat
  BY <1>2 DEF SnapshotRecord
<1> QED
  BY <1>1, <1>3 DEF LogInv

\* What a message publishes is marked, and keeps the log in order.
LEMMA MessagesAreMarked ==
  ASSUME LogInv, NEW m \in Messages, Message(m)
  PROVE  LogInv'
<1> DEFINE new(i) == Len(log) + i
<1>1. /\ m \in Seq(Symbols) /\ Len(log) \in Nat /\ Len(m) \in Nat
      /\ log' \in Seq(SnapshotRecord) /\ Len(log') = Len(log) + Len(m)
      /\ \A n \in Snapshots : n \in Snapshots' /\ log'[n] = log[n]
      /\ \A i \in 1 .. Len(m) :
           /\ Len(log) + i \in Snapshots'
           /\ log'[Len(log) + i].symbol = m[i]
           /\ log'[Len(log) + i].connection = feed.connection
           /\ log'[Len(log) + i].boundary <=> feed.connection > 1 /\ FirstSeen(m, i)
      /\ \A n \in Snapshots' : n \in Snapshots \/ \E i \in 1 .. Len(m) : n = Len(log) + i
  BY LogGrows DEF LogInv
<1>2. /\ feed.stage = "live" /\ feed.connection \in Nat /\ feed.connection >= 1
      /\ feed' = [feed EXCEPT !.failures = 0, !.seen = @ \cup Range(m)]
  BY DEF Message, LogInv, FeedRecord
<1>3. /\ feed' \in FeedRecord /\ feed'.connection = feed.connection
      /\ feed'.stage = feed.stage /\ feed'.seen = feed.seen \cup Range(m)
  <2>1. Range(m) \subseteq Symbols
    BY <1>1, RangeOf
  <2> DEFINE seen == feed.seen \cup Range(m)
  <2>2. seen \in SUBSET Symbols /\ feed \in FeedRecord /\ feed' = [feed EXCEPT !.failures = 0, !.seen = seen]
    BY <1>2, <2>1 DEF LogInv, FeedRecord
  <2> HIDE DEF seen
  <2>3. /\ feed'.connection = feed.connection
        /\ feed'.stage = feed.stage /\ feed'.seen = seen
    BY <2>2 DEF FeedRecord
  <2>4. feed' \in FeedRecord
    <3>1. 0 \in 0 .. 4
      OBVIOUS
    <3> QED
      BY <2>2, <3>1, Zenon DEF FeedRecord
  <2> QED
    BY <2>3, <2>4 DEF seen
<1>4. \A n \in Snapshots : /\ log[n].connection \in Nat /\ n <= Len(log) /\ n \in Nat
                           /\ 1 <= log[n].connection /\ log[n].connection <= feed.connection
  BY ConnectionsSoFar
<1>5. \A n \in Snapshots' : 1 <= log'[n].connection /\ log'[n].connection <= feed'.connection
  BY <1>1, <1>2, <1>3, <1>4
<1>6. ASSUME NEW n \in Snapshots', NEW k \in Snapshots', n <= k
      PROVE  log'[n].connection <= log'[k].connection
  <2>1. CASE n \in Snapshots /\ k \in Snapshots
    BY <1>1, <1>6, <2>1 DEF LogInv
  <2>2. CASE k \notin Snapshots
    <3>1. log'[k].connection = feed.connection
      BY <1>1, <2>2
    <3> QED
      BY <1>3, <1>5, <3>1
  <2>3. CASE n \notin Snapshots /\ k \in Snapshots
    <3>1. PICK i \in 1 .. Len(m) : n = Len(log) + i
      BY <1>1, <2>3
    <3> QED
      BY <1>1, <1>4, <1>6, <2>3, <3>1
  <2> QED
    BY <2>1, <2>2, <2>3
<1>7. ASSUME NEW y \in Symbols
      PROVE  y \in feed'.seen <=> SeenNow(y)'
  <2>1. ASSUME y \in feed.seen PROVE SeenNow(y)'
    <3>1. PICK k \in Snapshots : log[k].symbol = y /\ log[k].connection = feed.connection
      BY <2>1 DEF LogInv, SeenNow
    <3> QED
      BY <1>1, <1>3, <3>1 DEF SeenNow
  <2>2. ASSUME y \in Range(m) PROVE SeenNow(y)'
    <3>1. PICK i \in 1 .. Len(m) : m[i] = y
      BY <1>1, <2>2, RangeOf
    <3> QED
      BY <1>1, <1>3, <3>1 DEF SeenNow
  <2>3. ASSUME SeenNow(y)' PROVE y \in feed'.seen
    <3>1. PICK k \in Snapshots' : log'[k].symbol = y /\ log'[k].connection = feed.connection
      BY <1>3, <2>3 DEF SeenNow
    <3>2. CASE k \in Snapshots
      <4>1. log[k].symbol = y /\ log[k].connection = feed.connection
        BY <1>1, <3>1, <3>2
      <4>2. SeenNow(y)
        BY <3>2, <4>1 DEF SeenNow
      <4> QED
        BY <1>3, <4>2 DEF LogInv
    <3>3. CASE k \notin Snapshots
      <4>1. PICK i \in 1 .. Len(m) : k = Len(log) + i
        BY <1>1, <3>3
      <4>2. m[i] = y
        BY <1>1, <3>1, <4>1
      <4> QED
        BY <1>1, <1>3, <4>2, RangeOf
    <3> QED
      BY <3>2, <3>3
  <2> QED
    BY <1>3, <2>1, <2>2, <2>3
<1>8. ASSUME NEW n \in Snapshots' PROVE Marked(n)'
  <2>1. CASE n \in Snapshots
    <3>1. \A k \in Snapshots' : k < n => k \in Snapshots
      BY <1>1, <1>4, <2>1 DEF Snapshots
    <3>2. Marked(n)
      BY <2>1 DEF LogInv
    <3> QED
      BY <1>1, <2>1, <3>1, <3>2 DEF Marked
  <2>2. CASE n \notin Snapshots
    <3>1. PICK i \in 1 .. Len(m) : n = Len(log) + i
      BY <1>1, <2>2
    <3>2. /\ log'[n].symbol = m[i] /\ log'[n].connection = feed.connection
          /\ log'[n].boundary <=> feed.connection > 1 /\ FirstSeen(m, i)
          /\ m[i] \in Symbols
      BY <1>1, <3>1
    <3> DEFINE Before(k) == k \in Snapshots' /\ k < n /\ log'[k].symbol = m[i]
    <3>3. ASSUME FirstSeen(m, i), NEW k \in Snapshots', Before(k)
          PROVE  log'[k].connection < feed.connection
      <4>1. k \in Snapshots
        <5> SUFFICES ASSUME k \notin Snapshots PROVE FALSE
          OBVIOUS
        <5>1. PICK j \in 1 .. Len(m) : k = Len(log) + j
          BY <1>1
        <5>2. m[j] = m[i] /\ k < n
          BY <1>1, <3>3, <5>1
        <5>3. j \in 1 .. i - 1
          BY <1>1, <3>1, <5>1, <5>2
        <5> QED
          BY <3>3, <5>2, <5>3 DEF FirstSeen
      <4>2. log'[k] = log[k] /\ log[k].symbol = m[i]
        BY <1>1, <3>3, <4>1
      <4>3. log[k].connection # feed.connection
        BY <3>2, <3>3, <4>1, <4>2 DEF FirstSeen, LogInv, SeenNow
      <4> QED
        BY <1>2, <1>4, <4>1, <4>2, <4>3
    <3>4. ASSUME ~FirstSeen(m, i)
          PROVE  \E k \in Snapshots' : Before(k) /\ log'[k].connection = feed.connection
      <4>1. CASE m[i] \in feed.seen
        <5>1. PICK k \in Snapshots : log[k].symbol = m[i] /\ log[k].connection = feed.connection
          BY <3>2, <4>1 DEF LogInv, SeenNow
        <5>2. k < n
          BY <1>1, <1>4, <3>1, <5>1
        <5> QED
          BY <1>1, <5>1, <5>2
      <4>2. CASE m[i] \notin feed.seen
        <5>1. PICK j \in 1 .. i - 1 : m[j] = m[i]
          BY <3>4, <4>2 DEF FirstSeen
        <5>2. j \in 1 .. Len(m) /\ Len(log) + j < n
          BY <1>1, <3>1, <5>1
        <5> DEFINE k == Len(log) + j
        <5>3. /\ k \in Snapshots' /\ k < n
              /\ log'[k].symbol = m[i] /\ log'[k].connection = feed.connection
          BY <1>1, <5>1, <5>2
        <5> HIDE DEF k
        <5> QED
          BY <5>3
      <4> QED
        BY <4>1, <4>2
    <3>5. log'[n].boundary <=>
            feed.connection > 1 /\ \A k \in Snapshots' : Before(k) => log'[k].connection < feed.connection
      BY <1>2, <3>2, <3>3, <3>4
    <3> QED
      BY <3>2, <3>5 DEF Marked
  <2> QED
    BY <2>1, <2>2
<1> QED
  BY <1>1, <1>2, <1>3, <1>5, <1>6, <1>7, <1>8 DEF LogInv

\* The feed moves on without a snapshot.
LEMMA FeedMoves ==
  ASSUME LogInv, UNCHANGED log, feed' \in FeedRecord,
         feed'.connection = feed.connection, feed'.seen = feed.seen,
         feed'.stage \in {"subscribing", "live"} => feed.connection >= 1
  PROVE  LogInv'
<1>1. Snapshots' = Snapshots
  BY DEF Snapshots
<1>2. \A y : SeenNow(y)' <=> SeenNow(y)
  BY <1>1 DEF SeenNow
<1>3. \A n : Marked(n)' <=> Marked(n)
  BY <1>1 DEF Marked
<1> QED
  BY <1>1, <1>2, <1>3 DEF LogInv

\* A new connection has published nothing yet.
LEMMA ConnectionsBegin ==
  ASSUME LogInv, LoginEnds
  PROVE  LogInv'
<1> DEFINE c == feed.connection + 1
<1>1. feed \in FeedRecord /\ feed.connection \in Nat
  BY DEF LogInv, FeedRecord
<1>2. c \in Nat /\ c >= 1 /\ feed.connection < c
  BY <1>1
<1>3. feed' = [feed EXCEPT !.stage = "subscribing", !.connection = c, !.seen = {}] /\ UNCHANGED log
  BY DEF LoginEnds
<1> HIDE DEF c
<1>4. feed' \in FeedRecord /\ feed'.connection = c /\ feed'.seen = {}
  BY <1>1, <1>2, <1>3 DEF FeedRecord
<1>5. Snapshots' = Snapshots
  BY <1>3 DEF Snapshots
<1>6. \A n \in Snapshots : /\ log[n].connection \in Nat
                           /\ 1 <= log[n].connection /\ log[n].connection <= feed.connection
  BY ConnectionsSoFar
<1>7. \A n \in Snapshots : log[n].connection < c
  BY <1>1, <1>2, <1>6
<1>8. \A y : ~SeenNow(y)'
  BY <1>2, <1>3, <1>4, <1>5, <1>6, <1>7 DEF SeenNow
<1>9. \A n \in Snapshots : Marked(n)'
  BY <1>3, <1>5 DEF Marked, LogInv
<1> QED
  BY <1>2, <1>3, <1>4, <1>5, <1>6, <1>7, <1>8, <1>9 DEF LogInv

\* Every step keeps the marks of the log.
LEMMA LogSteps ==
  ASSUME LogInv, [Next]_vars
  PROVE  LogInv'
<1>1. feed \in FeedRecord
  BY DEF LogInv
<1>2. CASE Connect
  BY <1>1, <1>2, FeedMoves DEF Connect, FeedRecord
<1>3. CASE LoginEnds
  BY <1>3, ConnectionsBegin
<1>4. CASE SubscriptionEnds
  BY <1>1, <1>4, FeedMoves DEF SubscriptionEnds, FeedRecord, LogInv
<1>5. CASE FeedFails
  <2> DEFINE k == IF feed.failures < 4 THEN feed.failures + 1 ELSE feed.failures
  <2>1. k \in 0 .. 4
    BY <1>1 DEF FeedRecord
  <2>2. feed' = [feed EXCEPT !.stage = "backoff", !.failures = k]
    BY <1>5 DEF FeedFails, Failed
  <2> HIDE DEF k
  <2>3. /\ feed' \in FeedRecord /\ feed'.stage = "backoff"
        /\ feed'.connection = feed.connection /\ feed'.seen = feed.seen
    BY <1>1, <2>1, <2>2 DEF FeedRecord
  <2> QED
    BY <1>5, <2>3, FeedMoves DEF FeedFails
<1>6. CASE FeedStops
  BY <1>1, <1>6, FeedMoves DEF FeedStops, FeedRecord
<1>7. ASSUME NEW m \in Messages, Message(m) PROVE LogInv'
  BY <1>7, MessagesAreMarked
<1>8. ASSUME UNCHANGED <<log, feed>> PROVE LogInv'
  BY <1>1, <1>8, FeedMoves DEF LogInv
<1> QED
  BY <1>2, <1>3, <1>4, <1>5, <1>6, <1>7, <1>8
  DEF Next, vars, feedVars, Admit, PrepareFails, PrepareEnds, GetEnds, ReceiveEnds,
      HandlerResumes, SendEnds, StreamBreaks, CloseEnds

\* An empty log is well marked.
LEMMA LogInit == Init => LogInv
<1> SUFFICES ASSUME Init PROVE LogInv
  OBVIOUS
<1>1. log = <<>> /\ Snapshots = {} /\ log \in Seq(SnapshotRecord)
  BY DEF Init, Snapshots
<1>2. feed \in FeedRecord /\ feed.stage = "starting" /\ feed.seen = {}
  BY DEF Init, FeedRecord
<1> QED
  BY <1>1, <1>2 DEF LogInv, SeenNow
-----------------------------------------------------------------------------
(* The history of each symbol.                                             *)

\* The snapshots after number g of the symbols ys.
After(g, ys) == {n \in Snapshots : n > g /\ log[n].symbol \in ys}

HistoryInv ==
  /\ history = [y \in Symbols |-> history[y]]
  /\ \A y \in Symbols : HoldsNewest(history[y], After(0, {y}), HistoryLimit)

\* A message brings a list that holds the newest its own snapshots.
LEMMA NewsArrive ==
  ASSUME LogInv, NEW m \in Messages, Message(m), NEW ys, NEW g \in Nat, g <= Len(log),
         NEW limit \in Nat \ {0}, NEW q, HoldsNewest(q, After(g, ys), limit)
  PROVE  HoldsNewest(Newest(q \o News(m, ys), limit), After(g, ys)', limit)
<1> DEFINE t == News(m, ys)
           D == After(g, ys)
<1>1. /\ m \in Seq(Symbols) /\ Len(log) \in Nat /\ Len(log') = Len(log) + Len(m)
      /\ \A n \in Snapshots : n \in Snapshots' /\ log'[n] = log[n]
      /\ \A i \in 1 .. Len(m) : Len(log) + i \in Snapshots' /\ log'[Len(log) + i].symbol = m[i]
      /\ \A n \in Snapshots' : n \in Snapshots \/ \E i \in 1 .. Len(m) : n = Len(log) + i
  BY LogGrows DEF LogInv
<1>2. /\ t \in Seq(Nat) /\ Increasing(t)
      /\ \A x : x \in Range(t) <=> \E i \in 1 .. Len(m) : m[i] \in ys /\ x = Len(log) + i
  BY <1>1, NewsAreNumbered
<1> HIDE DEF t
<1>3. D \in SUBSET Nat /\ \A n \in D : n <= Len(log)
  BY <1>1 DEF After, Snapshots
<1>4. ASSUME NEW n \in D, NEW i \in 1 .. Len(t) PROVE n < t[i]
  <2>1. t[i] \in Range(t)
    BY <1>2, RangeOf
  <2> QED
    BY <1>1, <1>2, <1>3, <2>1
<1>5. D' = D \cup Range(t)
  <2>1. ASSUME NEW n \in D' PROVE n \in D \cup Range(t)
    <3>1. n \in Snapshots' /\ n > g /\ log'[n].symbol \in ys
      BY <2>1 DEF After
    <3>2. CASE n \in Snapshots
      BY <1>1, <3>1, <3>2 DEF After
    <3>3. CASE n \notin Snapshots
      <4>1. PICK i \in 1 .. Len(m) : n = Len(log) + i
        BY <1>1, <3>1, <3>3
      <4>2. m[i] \in ys
        BY <1>1, <3>1, <4>1
      <4> QED
        BY <1>2, <4>1, <4>2
    <3> QED
      BY <3>2, <3>3
  <2>2. ASSUME NEW n \in D PROVE n \in D'
    BY <1>1, <2>2 DEF After
  <2>3. ASSUME NEW n \in Range(t) PROVE n \in D'
    <3>1. PICK i \in 1 .. Len(m) : m[i] \in ys /\ n = Len(log) + i
      BY <1>2, <2>3
    <3>2. n \in Snapshots' /\ log'[n].symbol \in ys
      BY <1>1, <3>1
    <3>3. n > g
      BY <1>1, <3>1
    <3> QED
      BY <3>2, <3>3 DEF After
  <2> QED
    BY <2>1, <2>2, <2>3
<1>6. HoldsNewest(Newest(q \o t, limit), D \cup Range(t), limit)
  <2> HIDE DEF D
  <2>1. HoldsNewest(q, D, limit)
    BY DEF D
  <2> QED
    BY <1>2, <1>3, <1>4, <2>1, NewestOfMore
<1> QED
  BY <1>5, <1>6 DEF t

\* Every step keeps the newest snapshots of each symbol.
LEMMA HistorySteps ==
  ASSUME LogInv, HistoryInv, [Next]_vars
  PROVE  HistoryInv'
<1>1. ASSUME NEW m \in Messages, Message(m) PROVE HistoryInv'
  <2>1. history' = [y \in Symbols |-> Newest(history[y] \o News(m, {y}), HistoryLimit)]
    BY <1>1 DEF Message
  <2>2. ASSUME NEW y \in Symbols
        PROVE  HoldsNewest(history'[y], After(0, {y})', HistoryLimit)
    <3>1. /\ history'[y] = Newest(history[y] \o News(m, {y}), HistoryLimit)
          /\ HoldsNewest(history[y], After(0, {y}), HistoryLimit)
      BY <2>1 DEF HistoryInv
    <3>2. 0 \in Nat /\ 0 <= Len(log) /\ HistoryLimit \in Nat \ {0}
      BY LimitsArePositive DEF LogInv
    <3> QED
      BY <1>1, <3>1, <3>2, NewsArrive
  <2> QED
    BY <2>1, <2>2 DEF HistoryInv
<1>2. ASSUME UNCHANGED <<log, history>> PROVE HistoryInv'
  <2>1. \A y : After(0, {y})' = After(0, {y})
    BY <1>2 DEF After, Snapshots
  <2> QED
    BY <1>2, <2>1 DEF HistoryInv
<1> QED
  BY <1>1, <1>2
  DEF Next, vars, feedVars, Connect, LoginEnds, SubscriptionEnds, FeedFails, FeedStops,
      Admit, PrepareFails, PrepareEnds, GetEnds, ReceiveEnds, HandlerResumes, SendEnds,
      StreamBreaks, CloseEnds

\* Nothing holds the newest of nothing.
LEMMA NothingHoldsNothing ==
  ASSUME NEW limit \in Nat
  PROVE  HoldsNewest(<<>>, {}, limit)
<1>1. <<>> \in Seq(Nat) /\ Len(<<>>) = 0 /\ Range(<<>>) = {}
  BY DEF Range
<1> QED
  BY <1>1 DEF HoldsNewest, Follows, Increasing

\* An empty history holds the newest of nothing.
LEMMA HistoryInit == Init => HistoryInv
<1> SUFFICES ASSUME Init PROVE HistoryInv
  OBVIOUS
<1>1. \A y : After(0, {y}) = {}
  BY DEF Init, After, Snapshots
<1>2. history = [y \in Symbols |-> <<>>] /\ HistoryLimit \in Nat
  BY LimitsArePositive DEF Init
<1> QED
  BY <1>1, <1>2, NothingHoldsNothing DEF HistoryInv
-----------------------------------------------------------------------------
(* The queue of each stream, and what it was sent.                         *)

\* What the record of every handler is, wherever the handler is.
IsStream(rec) ==
  /\ rec \in StreamRecord
  /\ rec.since <= rec.got /\ rec.got <= Len(log) /\ rec.held <= Len(log)
  /\ \A y \in Symbols : rec.received[y] <= Len(log)

QueueIsNewest(rec) ==
  HoldsNewest(rec.queue, After(rec.got, Range(rec.symbols)), QueueLimit)

\* Once the greeting is over, what was sent of a symbol was sent from the queue or
\* was published before; the snapshot at hand is the last one taken from the queue.
SentBefore(rec) ==
  /\ rec.held # 0 => rec.held = rec.got
  /\ \A y \in Symbols :
       \/ rec.received[y] <= rec.greeted
       \/ rec.received[y] < rec.got
       \/ rec.received[y] = rec.got /\ rec.held = 0

HandlerInv(rec) ==
  /\ IsStream(rec)
  /\ rec.stage = "preparing" => rec.queue = <<>>
  /\ rec.stage \in {"greeting", "sending"} => rec.held \in Snapshots
  /\ rec.stage \in Listening => QueueIsNewest(rec)
  /\ rec.stage \in {"waiting", "sending"} => SentBefore(rec)

StreamInv ==
  /\ stream = [s \in Streams |-> stream[s]]
  /\ \A s \in Streams : HandlerInv(stream[s])

\* One handler moves while the log stays.
LEMMA OneHandlerMoves ==
  ASSUME StreamInv, UNCHANGED log, NEW s \in Streams, NEW rec, HandlerInv(rec),
         stream' = [stream EXCEPT ![s] = rec]
  PROVE  StreamInv'
<1>1. \A r : HandlerInv(r)' <=> HandlerInv(r)
  <2>1. Snapshots' = Snapshots /\ \A g, ys : After(g, ys)' = After(g, ys)
    BY DEF After, Snapshots
  <2> QED
    BY <2>1 DEF HandlerInv, IsStream, QueueIsNewest, SentBefore
<1>2. stream' = [q \in Streams |-> stream'[q]]
  BY DEF StreamInv
<1>3. ASSUME NEW q \in Streams PROVE HandlerInv(stream'[q])
  <2>1. stream'[q] = rec \/ stream'[q] = stream[q]
    BY DEF StreamInv
  <2> QED
    BY <2>1 DEF StreamInv
<1>4. ASSUME NEW q \in Streams PROVE HandlerInv(stream[q])'
  <2> DEFINE r == stream'[q]
  <2>1. HandlerInv(r)
    BY <1>3
  <2>2. PICK x : x = r
    OBVIOUS
  <2>3. HandlerInv(x)'
    BY <1>1, <2>1, <2>2
  <2> QED
    BY <2>2, <2>3
<1> QED
  BY <1>2, <1>4 DEF StreamInv

\* There is no handler, or it is closing its socket.
LEMMA NoStreamIsSound ==
  ASSUME LogInv, NEW stage \in {"none", "preparing", "closing"}, NEW symbols \in Seq(Symbols)
  PROVE  /\ HandlerInv(NoStream)
         /\ HandlerInv([NoStream EXCEPT !.stage = stage])
         /\ HandlerInv([NoStream EXCEPT !.stage = stage, !.symbols = symbols])
<1>1. NoStream \in StreamRecord
  BY DEF NoStream, StreamRecord
<1>2. Len(log) \in Nat
  BY DEF LogInv
<1> DEFINE one == [NoStream EXCEPT !.stage = stage]
           two == [NoStream EXCEPT !.stage = stage, !.symbols = symbols]
<1>3. one \in StreamRecord /\ two \in StreamRecord
  BY <1>1 DEF StreamRecord
<1>4. ASSUME NEW rec \in {NoStream, one, two}
      PROVE  /\ rec.stage \in {"none", "preparing", "closing"}
             /\ rec.since = 0 /\ rec.got = 0 /\ rec.held = 0 /\ rec.queue = <<>>
             /\ \A y \in Symbols : rec.received[y] = 0
  <2>1. CASE rec = NoStream
    BY <2>1 DEF NoStream
  <2>2. CASE rec = one
    BY <2>2 DEF NoStream
  <2>3. CASE rec = two
    BY <2>3 DEF NoStream
  <2> QED
    BY <2>1, <2>2, <2>3
<1> HIDE DEF one, two
<1>5. ASSUME NEW rec \in {NoStream, one, two} PROVE HandlerInv(rec)
  BY <1>1, <1>2, <1>3, <1>4 DEF HandlerInv, IsStream, Listening
<1> QED
  BY <1>5 DEF one, two

\* What the handler does next once it has greeted, and after each greeting sent.
LEMMA GreetedIsSound ==
  ASSUME LogInv, HistoryInv, NEW rec, IsStream(rec), QueueIsNewest(rec)
  PROVE  HandlerInv(Greeted(rec))
<1> DEFINE known == {i \in DOMAIN rec.toGreet : history[rec.toGreet[i]] # <<>>}
           next  == CHOOSE i \in known : \A k \in known : i <= k
           rest  == SubSeq(rec.toGreet, next + 1, Len(rec.toGreet))
           held  == Last(history[rec.toGreet[next]])
           done  == [rec EXCEPT !.stage = "waiting", !.toGreet = <<>>, !.held = 0, !.greeted = Len(log)]
           on    == [rec EXCEPT !.stage = "greeting", !.toGreet = rest, !.held = held]
<1>1. Greeted(rec) = IF known = {} THEN done ELSE on
  BY DEF Greeted
<1>2. Len(log) \in Nat /\ rec \in StreamRecord /\ rec.toGreet \in Seq(Symbols)
  BY DEF LogInv, IsStream, StreamRecord
<1>3. HandlerInv(done)
  <2>1. done \in StreamRecord
    <3> DEFINE n == Len(log)
    <3>1. n \in Nat /\ <<>> \in Seq(Symbols)
      BY <1>2
    <3>2. done = [rec EXCEPT !.stage = "waiting", !.toGreet = <<>>, !.held = 0, !.greeted = n]
      OBVIOUS
    <3> HIDE DEF n, done
    <3> QED
      BY <1>2, <3>1, <3>2 DEF StreamRecord
  <2>2. /\ done.stage = "waiting" /\ done.held = 0 /\ done.greeted = Len(log)
        /\ done.since = rec.since /\ done.got = rec.got /\ done.queue = rec.queue
        /\ done.symbols = rec.symbols /\ done.received = rec.received
    BY <1>2 DEF StreamRecord
  <2> HIDE DEF done
  <2>3. IsStream(done) /\ QueueIsNewest(done)
    BY <1>2, <2>1, <2>2 DEF IsStream, QueueIsNewest
  <2>4. SentBefore(done)
    BY <2>2 DEF SentBefore, IsStream
  <2> QED
    BY <2>2, <2>3, <2>4 DEF HandlerInv
<1>4. ASSUME known # {} PROVE HandlerInv(on)
  <2>1. known \in SUBSET Nat /\ \A i \in known : i \in 1 .. Len(rec.toGreet)
    BY <1>2
  <2>2. next \in known
    <3> HIDE DEF known
    <3>1. \E i \in known : \A k \in known : i <= k
      BY <1>4, <2>1, LeastMember
    <3> QED
      BY <3>1
  <2>3. next \in 1 .. Len(rec.toGreet) /\ history[rec.toGreet[next]] # <<>>
    BY <2>1, <2>2
  <2> HIDE DEF known, next
  <2> DEFINE y == rec.toGreet[next]
             h == history[y]
  <2>4. y \in Symbols
    BY <1>2, <2>3
  <2>5. h \in Seq(Nat) /\ Range(h) \subseteq Snapshots /\ h # <<>>
    BY <2>3, <2>4 DEF HistoryInv, HoldsNewest, Follows, After
  <2>6. held \in Snapshots /\ held \in Nat /\ held <= Len(log)
    <3> HIDE DEF h
    <3>1. Len(h) \in 1 .. Len(h) /\ Last(h) = h[Len(h)]
      BY <2>5 DEF Last
    <3>2. Last(h) \in Snapshots
      BY <2>5, <3>1, RangeOf
    <3> QED
      BY <1>2, <3>2 DEF h, Snapshots
  <2>7. rest \in Seq(Symbols)
    BY <1>2, <2>3
  <2> HIDE DEF rest, held, y, h
  <2>8. on \in StreamRecord
    BY <1>2, <2>6, <2>7 DEF StreamRecord
  <2>9. /\ on.stage = "greeting" /\ on.held = held
        /\ on.since = rec.since /\ on.got = rec.got /\ on.queue = rec.queue
        /\ on.symbols = rec.symbols /\ on.received = rec.received
    BY <1>2 DEF StreamRecord
  <2> HIDE DEF on
  <2>10. IsStream(on) /\ QueueIsNewest(on)
    BY <2>6, <2>8, <2>9 DEF IsStream, QueueIsNewest
  <2> QED
    BY <2>6, <2>9, <2>10 DEF HandlerInv
<1> HIDE DEF known, done, on
<1> QED
  BY <1>1, <1>3, <1>4

\* A snapshot that was sent is received.
LEMMA ReceivedIsSound ==
  ASSUME LogInv, NEW rec, IsStream(rec), rec.held \in Snapshots
  PROVE  /\ IsStream(Received(rec)) /\ log[rec.held].symbol \in Symbols
         /\ Received(rec).received[log[rec.held].symbol] = rec.held
         /\ \A y \in Symbols \ {log[rec.held].symbol} : Received(rec).received[y] = rec.received[y]
         /\ \A x \in {"stage", "symbols", "toGreet", "queue", "held", "message", "since",
                      "got", "greeted"} : Received(rec)[x] = rec[x]
<1> DEFINE y == log[rec.held].symbol
           received == [rec.received EXCEPT ![y] = rec.held]
           new == [rec EXCEPT !.received = received]
<1>1. y \in Symbols
  <2>1. log[rec.held] \in SnapshotRecord
    BY DEF LogInv, Snapshots
  <2> QED
    BY <2>1 DEF SnapshotRecord
<1>2. rec \in StreamRecord /\ rec.received \in [Symbols -> Nat] /\ rec.held \in Nat
  BY DEF IsStream, StreamRecord
<1>3. Received(rec) = new
  BY DEF Received
<1> HIDE DEF y
<1>4. /\ received \in [Symbols -> Nat] /\ received[y] = rec.held
      /\ \A x \in Symbols \ {y} : received[x] = rec.received[x]
  BY <1>1, <1>2
<1> HIDE DEF received
<1>5. /\ new \in StreamRecord /\ new.received = received
      /\ \A x \in {"stage", "symbols", "toGreet", "queue", "held", "message", "since",
                   "got", "greeted"} : new[x] = rec[x]
  BY <1>2, <1>4 DEF StreamRecord
<1> HIDE DEF new
<1>7. IsStream(new)
  BY <1>1, <1>4, <1>5 DEF IsStream
<1> QED
  BY <1>1, <1>3, <1>4, <1>5, <1>7 DEF y

\* The fields that a sent snapshot or a message of the client leaves alone.
LEMMA SameQueue ==
  ASSUME NEW rec, QueueIsNewest(rec), NEW new, new.queue = rec.queue, new.got = rec.got,
         new.symbols = rec.symbols
  PROVE  QueueIsNewest(new)
BY DEF QueueIsNewest

\* A stream subscribes: what is published from now on is for it.
LEMMA SubscriptionIsSound ==
  ASSUME LogInv, HistoryInv, NEW rec, HandlerInv(rec), rec.stage = "preparing"
  PROVE  HandlerInv(Greeted([rec EXCEPT !.toGreet = rec.symbols, !.since = Len(log), !.got = Len(log)]))
<1> DEFINE n   == Len(log)
           new == [rec EXCEPT !.toGreet = rec.symbols, !.since = n, !.got = n]
<1>1. n \in Nat /\ rec \in StreamRecord /\ rec.symbols \in Seq(Symbols) /\ rec.queue = <<>>
  BY DEF LogInv, HandlerInv, IsStream, StreamRecord
<1>2. \A ys : After(n, ys) = {}
  BY <1>1 DEF After, Snapshots
<1> HIDE DEF n
<1>3. /\ new \in StreamRecord
      /\ new.since = n /\ new.got = n /\ new.queue = <<>> /\ new.held = rec.held
      /\ new.received = rec.received
  BY <1>1 DEF StreamRecord
<1> HIDE DEF new
<1>4. IsStream(new)
  BY <1>1, <1>3 DEF HandlerInv, IsStream, n
<1>5. QueueIsNewest(new)
  BY <1>2, <1>3, LimitsArePositive, NothingHoldsNothing DEF QueueIsNewest
<1> QED
  BY <1>4, <1>5, GreetedIsSound DEF new, n

\* The first of the queue is newer than what was taken before.
LEMMA TakingIsSound ==
  ASSUME LogInv, NEW rec, HandlerInv(rec), rec.stage = "waiting", rec.held = 0,
         rec.queue # <<>>
  PROVE  HandlerInv([rec EXCEPT !.held = Head(rec.queue), !.got = Head(rec.queue),
                                !.queue = Taken(rec.queue)])
<1> DEFINE first == Head(rec.queue)
           rest  == Tail(rec.queue)
           new   == [rec EXCEPT !.held = first, !.got = first, !.queue = rest]
           ys    == Range(rec.symbols)
           D     == After(rec.got, ys)
<1>1. /\ IsStream(rec) /\ QueueIsNewest(rec) /\ SentBefore(rec)
      /\ rec \in StreamRecord /\ Len(log) \in Nat
  BY DEF HandlerInv, IsStream, Listening, LogInv
<1>2. /\ D \in SUBSET Nat /\ QueueLimit \in Nat \ {0} /\ HoldsNewest(rec.queue, D, QueueLimit)
      /\ \A n \in D : n \in 1 .. Len(log) /\ n > rec.got
  BY <1>1, LimitsArePositive DEF QueueIsNewest, After, Snapshots
<1>3. first \in D /\ HoldsNewest(rest, {n \in D : n > first}, QueueLimit)
  <2> HIDE DEF D
  <2> QED
    BY <1>2, RestHoldsNewest
<1>4. first \in Nat /\ first \in 1 .. Len(log) /\ rec.got < first /\ rec.got \in Nat
  BY <1>1, <1>2, <1>3 DEF StreamRecord
<1>5. {n \in D : n > first} = After(first, ys)
  <2> HIDE DEF first, ys
  <2>1. \A n \in Snapshots : n \in Nat
    BY <1>1 DEF Snapshots
  <2> QED
    BY <1>4, <2>1 DEF After
<1>6. rest \in Seq(Nat)
  BY <1>3 DEF HoldsNewest, Follows
<1> HIDE DEF first, rest, D
<1>7. /\ new \in StreamRecord
      /\ new.stage = "waiting" /\ new.held = first /\ new.got = first /\ new.queue = rest
      /\ new.since = rec.since /\ new.symbols = rec.symbols
      /\ new.greeted = rec.greeted /\ new.received = rec.received
  BY <1>1, <1>4, <1>6 DEF StreamRecord
<1> HIDE DEF new
<1>8. IsStream(new)
  <2>1. rec.since \in Nat /\ rec.since <= rec.got
    BY <1>1 DEF IsStream, StreamRecord
  <2> QED
    BY <1>1, <1>4, <1>7, <2>1 DEF IsStream
<1>9. QueueIsNewest(new)
  BY <1>3, <1>5, <1>7 DEF QueueIsNewest
<1>10. SentBefore(new)
  <2> SUFFICES ASSUME NEW y \in Symbols
               PROVE  new.received[y] <= new.greeted \/ new.received[y] < new.got
    BY <1>7 DEF SentBefore
  <2>1. rec.received[y] \in Nat
    BY <1>1 DEF StreamRecord
  <2> QED
    BY <1>1, <1>4, <1>7, <2>1 DEF SentBefore
<1>11. HandlerInv(new)
  BY <1>7, <1>8, <1>9, <1>10 DEF HandlerInv
<1> QED
  BY <1>11 DEF new, first, rest, Taken

\* The client sends a message, which the handler sees and forgets.
LEMMA MessageIsSound ==
  ASSUME NEW rec, HandlerInv(rec), rec.stage = "waiting", LogInv,
         NEW message \in {"none", "close", "other"},
         NEW stage \in {"waiting", "sending"}, stage = "sending" => rec.held # 0
  PROVE  HandlerInv([rec EXCEPT !.message = message, !.stage = stage])
<1> DEFINE new == [rec EXCEPT !.message = message, !.stage = stage]
<1>1. /\ IsStream(rec) /\ QueueIsNewest(rec) /\ SentBefore(rec)
      /\ rec \in StreamRecord /\ Len(log) \in Nat
  BY DEF HandlerInv, IsStream, Listening, LogInv
<1>2. /\ new \in StreamRecord
      /\ new.stage = stage /\ new.held = rec.held /\ new.got = rec.got /\ new.queue = rec.queue
      /\ new.since = rec.since /\ new.symbols = rec.symbols
      /\ new.greeted = rec.greeted /\ new.received = rec.received
  BY <1>1 DEF StreamRecord
<1> HIDE DEF new
<1>3. IsStream(new) /\ SentBefore(new)
  BY <1>1, <1>2 DEF IsStream, SentBefore
<1>4. QueueIsNewest(new)
  BY <1>1, <1>2, SameQueue
<1>5. stage = "sending" => new.held \in Snapshots
  <2>1. rec.held \in Nat /\ rec.held <= Len(log)
    BY <1>1 DEF IsStream, StreamRecord
  <2> QED
    BY <1>1, <1>2, <2>1 DEF Snapshots
<1>6. HandlerInv(new)
  BY <1>2, <1>3, <1>4, <1>5 DEF HandlerInv
<1> QED
  BY <1>6 DEF new

\* A snapshot was sent: as a greeting, which goes on, or from the queue.
LEMMA SendingIsSound ==
  ASSUME LogInv, HistoryInv, NEW rec, HandlerInv(rec), rec.stage \in {"greeting", "sending"}
  PROVE  HandlerInv(IF rec.stage = "greeting" THEN Greeted(Received(rec))
                    ELSE [Received(rec) EXCEPT !.stage = "waiting", !.held = 0])
<1> DEFINE got == Received(rec)
           y   == log[rec.held].symbol
<1>1. IsStream(rec) /\ QueueIsNewest(rec) /\ rec.held \in Snapshots
  BY DEF HandlerInv, Listening
<1>2. /\ IsStream(got) /\ y \in Symbols
      /\ got.received[y] = rec.held
      /\ \A x \in Symbols \ {y} : got.received[x] = rec.received[x]
      /\ got.queue = rec.queue /\ got.got = rec.got /\ got.symbols = rec.symbols
      /\ got.greeted = rec.greeted /\ got.held = rec.held /\ got.since = rec.since
  BY <1>1, ReceivedIsSound
<1> HIDE DEF got
<1>3. QueueIsNewest(got)
  BY <1>1, <1>2, SameQueue
<1>4. CASE rec.stage = "greeting"
  BY <1>2, <1>3, <1>4, GreetedIsSound DEF got
<1>5. CASE rec.stage = "sending"
  <2> DEFINE new == [got EXCEPT !.stage = "waiting", !.held = 0]
  <2>1. got \in StreamRecord
    BY <1>2 DEF IsStream
  <2>2. /\ new \in StreamRecord
        /\ new.stage = "waiting" /\ new.held = 0 /\ new.got = got.got /\ new.queue = got.queue
        /\ new.since = got.since /\ new.symbols = got.symbols
        /\ new.greeted = got.greeted /\ new.received = got.received
    BY <2>1 DEF StreamRecord
  <2> HIDE DEF new
  <2>3. IsStream(new)
    BY <1>2, <2>2 DEF IsStream, LogInv
  <2>4. QueueIsNewest(new)
    BY <1>3, <2>2, SameQueue
  <2>5. SentBefore(new)
    <3>1. SentBefore(rec) /\ rec.held # 0
      BY <1>1, <1>5 DEF HandlerInv, Snapshots
    <3> QED
      BY <1>2, <2>2, <3>1 DEF SentBefore
  <2>6. HandlerInv(new)
    BY <2>2, <2>3, <2>4, <2>5 DEF HandlerInv
  <2> QED
    BY <1>5, <2>6 DEF new, got
<1> QED
  BY <1>4, <1>5

\* A message reaches the queue of every stream that listens, and no other.
LEMMA MessagesReachStreams ==
  ASSUME CountInv, LogInv, StreamInv, NEW m \in Messages, Message(m)
  PROVE  StreamInv'
<1>1. /\ Len(log) \in Nat /\ Len(log') \in Nat /\ Len(log) <= Len(log')
      /\ Snapshots \subseteq Snapshots'
  BY LogGrows DEF LogInv
<1>2. stream' = [s \in Streams |-> stream'[s]]
  BY DEF Message
<1>3. ASSUME NEW rec, IsStream(rec) PROVE IsStream(rec)'
  BY <1>1, <1>3 DEF IsStream, StreamRecord
<1>4. ASSUME NEW s \in Streams PROVE HandlerInv(stream[s])'
  <2> DEFINE queue == Newest(stream[s].queue \o News(m, Range(stream[s].symbols)), QueueLimit)
  <2>1. PICK rec, q, new : rec = stream[s] /\ q = queue /\ new = stream'[s]
    OBVIOUS
  <2>2. HandlerInv(rec) /\ IsStream(rec) /\ rec \in StreamRecord
    BY <2>1 DEF StreamInv, HandlerInv, IsStream
  <2>3. s \in subscribed <=> rec.stage \in Listening
    BY <2>1 DEF CountInv, StreamsAreCounted, Listening
  <2>4. CASE s \notin subscribed
    <3>1. new = rec
      BY <2>1, <2>4 DEF Message
    <3>2. rec.stage \notin {"greeting", "waiting", "sending"}
      BY <2>3, <2>4 DEF Listening
    <3>3. HandlerInv(new)'
      BY <1>3, <2>2, <3>1, <3>2 DEF HandlerInv, Listening
    <3> QED
      BY <2>1, <3>3
  <2>5. CASE s \in subscribed
    <3> DEFINE ys == Range(rec.symbols)
               more == Newest(rec.queue \o News(m, ys), QueueLimit)
    <3>1. QueueIsNewest(rec) /\ rec.got \in Nat /\ rec.got <= Len(log)
      BY <2>2, <2>3, <2>5 DEF HandlerInv, IsStream, StreamRecord
    <3>2. HoldsNewest(more, After(rec.got, ys)', QueueLimit)
      BY <3>1, LimitsArePositive, NewsArrive DEF QueueIsNewest
    <3>3. new = [rec EXCEPT !.queue = q] /\ q = more
      BY <2>1, <2>5 DEF Message
    <3>4. q \in Seq(Nat)
      BY <3>2, <3>3 DEF HoldsNewest, Follows
    <3>5. /\ new \in StreamRecord /\ new.queue = q
          /\ new.stage = rec.stage /\ new.held = rec.held /\ new.got = rec.got
          /\ new.since = rec.since /\ new.symbols = rec.symbols
          /\ new.greeted = rec.greeted /\ new.received = rec.received
      BY <2>2, <3>3, <3>4 DEF StreamRecord
    <3>6. IsStream(new)
      BY <2>2, <3>5 DEF IsStream
    <3>7. IsStream(new)'
      BY <1>3, <3>6
    <3>8. QueueIsNewest(new)'
      <4> HIDE DEF more
      <4>1. HoldsNewest(new.queue, After(new.got, Range(new.symbols))', QueueLimit)
        BY <3>2, <3>3, <3>5
      <4> QED
        BY <4>1 DEF QueueIsNewest
    <3>9. rec.stage \in {"waiting", "sending"} => SentBefore(new)'
      BY <2>2, <3>5 DEF HandlerInv, SentBefore
    <3>10. rec.stage # "preparing"
      BY <2>3, <2>5 DEF Listening
    <3>11. rec.stage \in {"greeting", "sending"} => rec.held \in Snapshots'
      BY <1>1, <2>2 DEF HandlerInv
    <3>12. HandlerInv(new)'
      BY <3>5, <3>7, <3>8, <3>9, <3>10, <3>11 DEF HandlerInv
    <3> QED
      BY <2>1, <3>12
  <2> QED
    BY <2>4, <2>5
<1> QED
  BY <1>2, <1>4 DEF StreamInv

\* Every step of a handler keeps what its queue holds and what it was sent.
LEMMA HandlerSteps ==
  ASSUME LogInv, HistoryInv, StreamInv, NEW s \in Streams,
         \/ \E symbols \in Requested : Admit(s, symbols)
         \/ PrepareFails(s) \/ PrepareEnds(s) \/ GetEnds(s)
         \/ \E message \in {"close", "other"} : ReceiveEnds(s, message)
         \/ HandlerResumes(s) \/ SendEnds(s) \/ StreamBreaks(s) \/ CloseEnds(s)
  PROVE  StreamInv'
<1> DEFINE is == stream[s]
<1>1. HandlerInv(is) /\ is \in StreamRecord /\ s \in DOMAIN stream
  BY DEF StreamInv, HandlerInv, IsStream
<1>2. <<>> \in Seq(Symbols)
  OBVIOUS
<1>3. HandlerInv(NoStream) /\ HandlerInv(Closing(is))
  <2>1. "closing" \in {"none", "preparing", "closing"}
    OBVIOUS
  <2> QED
    BY <1>2, <2>1, NoStreamIsSound DEF Closing
<1>4. UNCHANGED log
  BY DEF Admit, PrepareFails, PrepareEnds, GetEnds, ReceiveEnds, HandlerResumes, SendEnds,
         StreamBreaks, CloseEnds, feedVars
<1>5. SUFFICES ASSUME NEW x, x = stream'[s]
               PROVE  stream' = [stream EXCEPT ![s] = x] /\ HandlerInv(x)
  BY <1>4, OneHandlerMoves
<1>6. ASSUME NEW new, stream' = [stream EXCEPT ![s] = new], HandlerInv(new)
      PROVE  stream' = [stream EXCEPT ![s] = x] /\ HandlerInv(x)
  BY <1>1, <1>5, <1>6
<1>7. CASE \E symbols \in Requested : Admit(s, symbols)
  <2>1. PICK symbols \in Requested : Admit(s, symbols)
    BY <1>7
  <2>2. symbols \in Seq(Symbols) /\ "preparing" \in {"none", "preparing", "closing"}
    BY InputsAreSymbols
  <2>3. HandlerInv([NoStream EXCEPT !.stage = "preparing", !.symbols = symbols])
    BY <2>2, NoStreamIsSound
  <2> QED
    BY <1>6, <2>1, <2>3 DEF Admit
<1>8. CASE PrepareFails(s) \/ CloseEnds(s)
  BY <1>3, <1>6, <1>8 DEF PrepareFails, CloseEnds
<1>9. CASE StreamBreaks(s)
  BY <1>3, <1>6, <1>9 DEF StreamBreaks
<1>10. CASE PrepareEnds(s)
  <2> DEFINE new == Greeted([is EXCEPT !.toGreet = is.symbols, !.since = Len(log), !.got = Len(log)])
  <2>1. is.stage = "preparing" /\ stream' = [stream EXCEPT ![s] = new]
    BY <1>10 DEF PrepareEnds
  <2>2. HandlerInv(new)
    BY <1>1, <2>1, SubscriptionIsSound
  <2> HIDE DEF new
  <2> QED
    BY <1>6, <2>1, <2>2
<1>11. CASE GetEnds(s)
  <2> DEFINE new == [is EXCEPT !.held = Head(is.queue), !.got = Head(is.queue),
                               !.queue = Taken(is.queue)]
  <2>1. is.stage = "waiting" /\ is.held = 0 /\ is.queue # <<>>
    BY <1>11 DEF GetEnds
  <2>2. stream' = [stream EXCEPT ![s] = new]
    <3> DEFINE first == Head(is.queue)
               rest  == Taken(is.queue)
    <3>1. stream' = [stream EXCEPT ![s].held = first, ![s].got = first, ![s].queue = rest]
      BY <1>1, <1>11 DEF GetEnds, StreamRecord
    <3> HIDE DEF first, rest
    <3>2. stream' = [stream EXCEPT ![s] = [is EXCEPT !.held = first, !.got = first, !.queue = rest]]
      BY <1>1, <3>1 DEF StreamRecord
    <3> QED
      BY <3>2 DEF first, rest
  <2>3. HandlerInv(new)
    BY <1>1, <2>1, TakingIsSound
  <2> HIDE DEF new
  <2> QED
    BY <1>6, <2>2, <2>3
<1>12. CASE \E message \in {"close", "other"} : ReceiveEnds(s, message)
  <2>1. PICK message \in {"close", "other"} : ReceiveEnds(s, message)
    BY <1>12
  <2> DEFINE new == [is EXCEPT !.message = message, !.stage = "waiting"]
  <2>2. is.stage = "waiting"
    BY <2>1 DEF ReceiveEnds
  <2>3. new = [is EXCEPT !.message = message]
    BY <1>1, <2>2 DEF StreamRecord
  <2>4. stream' = [stream EXCEPT ![s] = [is EXCEPT !.message = message]]
    BY <2>1 DEF ReceiveEnds
  <2>5. HandlerInv(new)
    BY <1>1, <2>2, MessageIsSound
  <2> HIDE DEF new
  <2> QED
    BY <1>6, <2>3, <2>4, <2>5
<1>13. CASE HandlerResumes(s)
  <2>1. CASE is.message = "close"
    BY <1>3, <1>6, <1>13, <2>1 DEF HandlerResumes
  <2>2. CASE is.message # "close"
    <3> DEFINE stage == IF is.held # 0 THEN "sending" ELSE is.stage
               new   == [is EXCEPT !.message = "none", !.stage = stage]
    <3>1. is.stage = "waiting" /\ stage \in {"waiting", "sending"} /\ (stage = "sending" => is.held # 0)
      BY <1>13 DEF HandlerResumes
    <3>2. stream' = [stream EXCEPT ![s] = new]
      BY <1>13, <2>2 DEF HandlerResumes
    <3> HIDE DEF stage
    <3>3. HandlerInv(new)
      BY <1>1, <3>1, MessageIsSound
    <3> HIDE DEF new
    <3> QED
      BY <1>6, <3>2, <3>3
  <2> QED
    BY <2>1, <2>2
<1>14. CASE SendEnds(s)
  <2> DEFINE new == IF is.stage = "greeting" THEN Greeted(Received(is))
                    ELSE [Received(is) EXCEPT !.stage = "waiting", !.held = 0]
  <2>1. is.stage \in {"greeting", "sending"} /\ stream' = [stream EXCEPT ![s] = new]
    BY <1>14 DEF SendEnds
  <2>2. HandlerInv(new)
    BY <1>1, <2>1, SendingIsSound
  <2> HIDE DEF new
  <2> QED
    BY <1>6, <2>1, <2>2
<1> QED
  BY <1>7, <1>8, <1>9, <1>10, <1>11, <1>12, <1>13, <1>14

\* What the log, the histories and the queues hold is kept by every step.
OrderInv == CountInv /\ LogInv /\ HistoryInv /\ StreamInv

FeedStates == feedState \in {"unconfigured", "connecting", "connected", "disconnected"}

\* No handler has sent anything.
LEMMA StreamInit == Init => StreamInv
<1> SUFFICES ASSUME Init PROVE StreamInv
  OBVIOUS
<1>1. <<>> \in Seq(Symbols) /\ "none" \in {"none", "preparing", "closing"}
  OBVIOUS
<1>2. HandlerInv(NoStream)
  BY <1>1, LogInit, NoStreamIsSound
<1> QED
  BY <1>2 DEF Init, StreamInv

\* Every step keeps the log, the histories and the queues.
LEMMA OrderSteps ==
  ASSUME OrderInv, [Next]_vars
  PROVE  OrderInv'
<1>1. CountInv' /\ LogInv' /\ HistoryInv'
  BY CountSteps, LogSteps, HistorySteps DEF OrderInv
<1>2. ASSUME NEW m \in Messages, Message(m) PROVE StreamInv'
  BY <1>2, MessagesReachStreams DEF OrderInv
<1>3. ASSUME NEW s \in Streams,
             \/ \E symbols \in Requested : Admit(s, symbols)
             \/ PrepareFails(s) \/ PrepareEnds(s) \/ GetEnds(s)
             \/ \E message \in {"close", "other"} : ReceiveEnds(s, message)
             \/ HandlerResumes(s) \/ SendEnds(s) \/ StreamBreaks(s) \/ CloseEnds(s)
      PROVE  StreamInv'
  BY <1>3, HandlerSteps DEF OrderInv
<1>4. ASSUME UNCHANGED <<log, stream>> PROVE StreamInv'
  <2>1. Snapshots' = Snapshots /\ \A g, ys : After(g, ys)' = After(g, ys)
    BY <1>4 DEF After, Snapshots
  <2>2. StreamInv
    BY DEF OrderInv
  <2> QED
    BY <1>4, <2>1, <2>2 DEF StreamInv, HandlerInv, IsStream, QueueIsNewest, SentBefore
<1>5. CASE Connect \/ LoginEnds \/ SubscriptionEnds \/ FeedFails \/ FeedStops \/ UNCHANGED vars
  <2>1. UNCHANGED <<log, stream>>
    BY <1>5 DEF Connect, LoginEnds, SubscriptionEnds, FeedFails, FeedStops, vars
  <2>2. StreamInv'
    BY <1>4, <2>1
  <2> QED
    BY <1>1, <2>2 DEF OrderInv
<1>6. CASE \E m \in Messages : Message(m)
  BY <1>1, <1>2, <1>6 DEF OrderInv
<1>7. CASE \E s \in Streams :
             \/ \E symbols \in Requested : Admit(s, symbols)
             \/ PrepareFails(s) \/ PrepareEnds(s) \/ GetEnds(s)
             \/ \E message \in {"close", "other"} : ReceiveEnds(s, message)
             \/ HandlerResumes(s) \/ SendEnds(s) \/ StreamBreaks(s) \/ CloseEnds(s)
  BY <1>1, <1>3, <1>7 DEF OrderInv
<1> QED
  BY <1>5, <1>6, <1>7 DEF Next

\* The log, the histories and the queues agree always.
LEMMA OrderIsInductive == Spec => []OrderInv
<1>1. Init => OrderInv
  BY CountInit, LogInit, HistoryInit, StreamInit DEF OrderInv
<1> QED
  BY <1>1, OrderSteps, PTL DEF Spec

\* "isolate slow subscribers with bounded queues": what waits for a stream is the newest of what
\* was published for it since it subscribed and since it last took one, in order,
\* whatever its handler was doing meanwhile, for any limits.
THEOREM QueuesHoldTheNewest == Spec => []QueueHoldsNewest
<1>1. OrderInv => QueueHoldsNewest
  <2> SUFFICES ASSUME OrderInv, NEW s \in subscribed
               PROVE  LET due   == {n \in Snapshots : n > stream[s].got
                                      /\ log[n].symbol \in Range(stream[s].symbols)}
                          queue == stream[s].queue
                      IN  /\ stream[s].got >= stream[s].since
                          /\ Range(queue) = {n \in due : Cardinality({m \in due : m > n}) < QueueLimit}
                          /\ \A i, k \in DOMAIN queue : i < k => queue[i] < queue[k]
    BY DEF QueueHoldsNewest
  <2> DEFINE due   == {n \in Snapshots : n > stream[s].got
                         /\ log[n].symbol \in Range(stream[s].symbols)}
             queue == stream[s].queue
  <2>1. s \in Streams /\ stream[s].stage \in Listening
    BY DEF OrderInv, CountInv, StreamsAreCounted, Listening
  <2>2. IsStream(stream[s]) /\ QueueIsNewest(stream[s]) /\ Len(log) \in Nat
    BY <2>1 DEF OrderInv, StreamInv, HandlerInv, LogInv
  <2>3. due = After(stream[s].got, Range(stream[s].symbols)) /\ due \in SUBSET (1 .. Len(log))
    BY DEF After, Snapshots
  <2>4. HoldsNewest(queue, due, QueueLimit)
    BY <2>2, <2>3 DEF QueueIsNewest
  <2> HIDE DEF due
  <2>5. Range(queue) = {n \in due : Cardinality({m \in due : m > n}) < QueueLimit}
    <3> HIDE DEF queue
    <3>1. QueueLimit \in Nat \ {0}
      BY LimitsArePositive
    <3>2. due \in SUBSET (1 .. Len(log)) /\ Len(log) \in Nat
      BY <2>2, <2>3
    <3>3. Range(queue) = NewestOf(due, QueueLimit)
      BY <2>4, <3>1, <3>2, NewestAreFew, Zenon
    <3> QED
      BY <3>3 DEF NewestOf
  <2>6. queue \in Seq(Nat) /\ Increasing(queue)
    BY <2>4 DEF HoldsNewest, Follows
  <2>7. \A i, k \in DOMAIN queue : i < k => queue[i] < queue[k]
    BY <2>6 DEF Increasing
  <2>8. stream[s].got >= stream[s].since
    BY <2>2 DEF IsStream, StreamRecord
  <2> QED
    BY <2>5, <2>7, <2>8 DEF due
<1> QED
  BY <1>1, OrderIsInductive, PTL

\* The last of a symbol's snapshots before a given one.
LEMMA LastOne ==
  ASSUME NEW N \in Nat, NEW S \in SUBSET (1 .. N), S # {}
  PROVE  \E n \in S : \A k \in S : k <= n
<1> DEFINE T == {N - n : n \in S}
<1>1. T \in SUBSET Nat /\ T # {}
  <2>1. \A n \in S : N - n \in Nat
    OBVIOUS
  <2>2. PICK n \in S : TRUE
    OBVIOUS
  <2>3. N - n \in T
    OBVIOUS
  <2> QED
    BY <2>1, <2>3
<1>2. PICK t \in T : \A u \in T : t <= u
  <2> HIDE DEF T
  <2> QED
    BY <1>1, LeastMember
<1>3. PICK n \in S : t = N - n
  BY <1>2
<1>4. ASSUME NEW k \in S PROVE k <= n
  <2>1. N - k \in T
    OBVIOUS
  <2>2. t <= N - k
    BY <1>2, <2>1
  <2>3. k \in 1 .. N /\ n \in 1 .. N
    OBVIOUS
  <2> QED
    BY <1>3, <2>2, <2>3
<1> QED
  BY <1>4

\* "Treat connection_id as a continuity boundary": the flag is set exactly where the
\* connection changed between two snapshots of a symbol, and a symbol's history is
\* the run of its newest snapshots.
THEOREM BoundariesHold == Spec => []BoundariesAreMarked
<1> DEFINE of(y) == {n \in Snapshots : log[n].symbol = y}
           before(n) == {k \in of(log[n].symbol) : k < n}
           last(n) == CHOOSE k \in before(n) : \A j \in before(n) : j <= k
<1>1. ASSUME OrderInv, NEW n \in Snapshots
      PROVE  log[n].boundary <=>
               IF before(n) = {} THEN log[n].connection > 1
               ELSE log[n].connection > log[last(n)].connection
  <2> DEFINE S == before(n)
             k == last(n)
  <2>1. LogInv /\ Len(log) \in Nat /\ Marked(n)
    BY <1>1 DEF OrderInv, LogInv
  <2>2. S \in SUBSET (1 .. Len(log))
    BY DEF Snapshots
  <2>3. CASE S = {}
    BY <2>1, <2>3 DEF Marked
  <2>4. CASE S # {}
    <3>1. k \in S /\ \A j \in S : j <= k
      <4> HIDE DEF S
      <4>1. \E i \in S : \A j \in S : j <= i
        BY <2>1, <2>2, <2>4, LastOne
      <4> QED
        BY <4>1 DEF S
    <3> HIDE DEF k
    <3>2. k \in Snapshots /\ \A j \in Snapshots : j < n /\ log[j].symbol = log[n].symbol => j <= k
      BY <3>1
    <3>3. /\ log[k].connection \in Nat /\ 1 <= log[k].connection
          /\ log[n].connection \in Nat
          /\ \A j \in Snapshots : log[j].connection \in Nat
      BY <2>1, <3>2, ConnectionsSoFar
    <3>4. \A j \in Snapshots : j < n /\ log[j].symbol = log[n].symbol
            => log[j].connection <= log[k].connection
      BY <2>1, <3>2 DEF LogInv
    <3>5. k < n /\ log[k].symbol = log[n].symbol
      BY <3>1
    <3>6. log[n].boundary <=> log[n].connection > log[k].connection
      BY <2>1, <3>2, <3>3, <3>4, <3>5 DEF Marked
    <3> QED
      BY <2>4, <3>6 DEF k
  <2> QED
    BY <2>3, <2>4
<1>2. ASSUME OrderInv, NEW y \in Symbols
      PROVE  Range(history[y]) = {n \in of(y) : Cardinality({m \in of(y) : m > n}) < HistoryLimit}
  <2> DEFINE D == of(y)
  <2>1. Len(log) \in Nat
    BY <1>2 DEF OrderInv, LogInv
  <2>2. D = After(0, {y}) /\ D \in SUBSET (1 .. Len(log))
    BY <2>1 DEF After, Snapshots
  <2>3. HoldsNewest(history[y], D, HistoryLimit)
    BY <1>2, <2>2 DEF OrderInv, HistoryInv
  <2> HIDE DEF D
  <2>4. Range(history[y]) = {n \in D : Cardinality({m \in D : m > n}) < HistoryLimit}
    <3>1. HistoryLimit \in Nat \ {0}
      BY LimitsArePositive
    <3>2. D \in SUBSET (1 .. Len(log))
      BY <2>2
    <3>3. Range(history[y]) = NewestOf(D, HistoryLimit)
      BY <2>1, <2>3, <3>1, <3>2, NewestAreFew, Zenon
    <3> QED
      BY <3>3 DEF NewestOf
  <2> QED
    BY <2>4 DEF D
<1>3. OrderInv => BoundariesAreMarked
  BY <1>1, <1>2 DEF BoundariesAreMarked
<1> QED
  BY <1>3, OrderIsInductive, PTL

\* A stream subscribes before it greets, so that it misses nothing; what it is sent
\* again was published before the greeting ended.
THEOREM OnlyTheGreetingIsRepeated == Spec => OnlyTheGreetingRepeats
<1> DEFINE Once ==
      \A s \in Streams :
        stream[s].stage = "sending" /\ stream'[s].stage = "waiting"
        /\ stream[s].held <= stream[s].received[log[stream[s].held].symbol]
          => stream[s].held <= stream[s].greeted
<1>1. ASSUME OrderInv, NEW s \in Streams, stream[s].stage = "sending",
             stream[s].held <= stream[s].received[log[stream[s].held].symbol]
      PROVE  stream[s].held <= stream[s].greeted
  <2> DEFINE rec == stream[s]
             y   == log[rec.held].symbol
  <2>1. HandlerInv(rec) /\ IsStream(rec) /\ LogInv
    BY <1>1 DEF OrderInv, StreamInv, HandlerInv
  <2>2. rec.held \in Snapshots /\ SentBefore(rec)
    BY <1>1, <2>1 DEF HandlerInv
  <2>3. y \in Symbols
    BY <2>1, <2>2, ReceivedIsSound
  <2>4. /\ rec.held \in Nat /\ rec.held # 0 /\ rec.received[y] \in Nat
        /\ rec.greeted \in Nat /\ rec.got \in Nat
    BY <2>1, <2>2, <2>3 DEF IsStream, StreamRecord, Snapshots
  <2> QED
    BY <1>1, <2>2, <2>3, <2>4 DEF SentBefore
<1>2. OrderInv /\ [Next]_vars => [Once]_vars
  BY <1>1
<1> HIDE DEF Once
<1>3. Spec => [][Once]_vars
  BY <1>2, OrderIsInductive, PTL DEF Spec
<1> QED
  BY <1>3 DEF OnlyTheGreetingRepeats, Once

\* Every variable of the order book keeps its type, and no count goes below zero.
THEOREM OrderBookTypesHold == Spec => []TypeOK
<1>1. OrderInv /\ FeedStates => TypeOK
  <2> SUFFICES ASSUME OrderInv, FeedStates PROVE TypeOK
    OBVIOUS
  <2>1. log \in Seq(SnapshotRecord) /\ feed \in FeedRecord
    BY DEF OrderInv, LogInv
  <2>2. history \in [Symbols -> Seq(Snapshots)]
    <3>1. ASSUME NEW y \in Symbols PROVE history[y] \in Seq(Snapshots)
      <4>1. history[y] \in Seq(Nat) /\ Range(history[y]) \subseteq Snapshots
        BY DEF OrderInv, HistoryInv, HoldsNewest, Follows, After
      <4>2. \A i \in 1 .. Len(history[y]) : history[y][i] \in Snapshots
        BY <4>1, RangeOf
      <4> QED
        BY <4>1, <4>2
    <3> QED
      BY <3>1 DEF OrderInv, HistoryInv
  <2>3. stream \in [Streams -> StreamRecord]
    BY DEF OrderInv, StreamInv, HandlerInv, IsStream
  <2>4. subscribed \subseteq Streams
    BY DEF OrderInv, CountInv, StreamsAreCounted
  <2>5. active \in [Classes -> Nat]
    BY OpenIsFinite DEF OrderInv, CountInv, StreamsAreCounted, Open
  <2> QED
    BY <2>1, <2>2, <2>3, <2>4, <2>5 DEF TypeOK, FeedStates
<1>2. Init => FeedStates
  BY DEF Init, FeedStates
<1>3. FeedStates /\ [Next]_vars => FeedStates'
  BY DEF FeedStates, Next, vars, feedVars, Connect, LoginEnds, SubscriptionEnds, FeedFails,
         FeedIsLost, FeedStops, Message, Admit, PrepareFails, PrepareEnds, GetEnds, ReceiveEnds,
         HandlerResumes, SendEnds, StreamBreaks, CloseEnds
<1>4. Spec => []FeedStates
  BY <1>2, <1>3, PTL DEF Spec
<1> QED
  BY <1>1, <1>4, OrderIsInductive, PTL
=============================================================================
