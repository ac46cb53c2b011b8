-------------------------- MODULE SessionHistoryCache --------------------------
(***************************************************************************)
(* DirectSchwabSessionHistoryUpstream: one calendar day's bars, split into *)
(* the regular and the extended session, and kept for ever once the day is *)
(* over in New York.  Reads of one session are not coalesced.              *)
(*                                                                         *)
(* A day has two halves: while it is open Schwab has the bars of the first *)
(* half, once it is closed those of both, and it may leave out any of them *)
(* in an answer without saying so.  A read of one symbol is enough: a      *)
(* symbol is one more part of the key.                                     *)
(***************************************************************************)
EXTENDS LruCache

CONSTANTS
  Reads,         \* calls of get_session_history
  LastDay,       \* days are 1 .. LastDay
  Holidays,      \* days without a session: regular_session_end is None
  MaxEntries,    \* cache_max_entries
  MaxBytes,      \* cache_max_bytes
  Sizes          \* payload sizes of normalized sessions

ASSUME BoundsArePositive ==
  /\ {LastDay, MaxEntries, MaxBytes} \subseteq Nat \ {0}
  /\ Sizes \subseteq Nat \ {0}

Days == 1 .. LastDay
Sessions == {"regular", "extended"}
Halves == {1, 2}
Keys == [date : Days, session : Sessions]

\* A candle: a bar of one session of one day, or one that cannot be read.
Bar(d, s, h) == [date |-> d, session |-> s, half |-> h]
Malformed == Bar(0, "none", 0)

VARIABLES
  cache,        \* _cache: entries of a key, a payload size and the bars; history: the
                \* halves Schwab had by then, and whether a candle was dropped
  cacheBytes,   \* _cache_bytes
  clock,        \* New York's date, and whether trading is over that day
  read          \* the coroutine of each call

vars == <<cache, cacheBytes, clock, read>>

\* Of an answer: what the normalizer keeps, whether it drops a candle, the halves of the
\* day there were when it was put together, and whether the clock has moved since.
NoRead == [state |-> "none", key |-> [date |-> 1, session |-> "regular"],
           bars |-> {}, dropped |-> FALSE, had |-> {}, late |-> FALSE]

Init ==
  /\ cache = <<>>
  /\ cacheBytes = 0
  /\ clock = [day |-> 1, closed |-> FALSE]
  /\ read = [r \in Reads |-> NoRead]
-----------------------------------------------------------------------------
(* What Schwab returns, and what the normalizer keeps of it.               *)

HalvesSoFar(d) ==
  IF clock.day > d \/ (clock.day = d /\ clock.closed) THEN Halves
  ELSE IF clock.day = d THEN {1}
  ELSE {}

BarsOf(d) ==
  IF d \in Holidays THEN {}
  ELSE {Bar(d, s, h) : s \in Sessions, h \in HalvesSoFar(d)}

\* Any of the bars there are, perhaps with a malformed one, or bars of another day.
Payloads(d) ==
  {bars \cup junk : bars \in SUBSET BarsOf(d), junk \in {{}, {Malformed}}}
    \cup {BarsOf(e) : e \in {d - 1} \cap Days}

\* The bars of the session asked for; a holiday has no session.
SessionBars(candles, k) ==
  {b \in candles \ {Malformed} :
     b.date = k.date /\ k.date \notin Holidays /\ b.session = k.session}

\* mutant: today's session is kept
OverToday(q) == q.key.date <= clock.day /\ q.bars # {} /\ ~q.dropped
\* _is_completed_session
IsCompletedSession(q) == q.key.date < clock.day /\ q.bars # {} /\ ~q.dropped

ReplacedUncharged(k) == 0              \* mutant: a replaced payload stays charged
Replaced(k) == BytesOf(cache, k)

\* _store
Store(q, bytes) ==
  IF ~IsCompletedSession(q) \/ bytes > MaxBytes
  THEN UNCHANGED <<cache, cacheBytes>>
  ELSE LET k       == q.key
           entry   == [key |-> k, bytes |-> bytes, bars |-> q.bars,
                       dropped |-> q.dropped, had |-> q.had]
           stored  == Append(Without(cache, k), entry)
           charged == cacheBytes - Replaced(k) + bytes
           n       == Evictions(stored, charged, MaxEntries, MaxBytes)
       IN  /\ cache' = Kept(stored, n)
           /\ cacheBytes' = charged - Weight(SubSeq(stored, 1, n))
-----------------------------------------------------------------------------
Cached(k) == k \in CachedKeys(cache)

\* cached_session_history finds it, before the queue or at the start of
\* get_session_history.
Hit(k) ==
  /\ Cached(k)
  /\ cache' = Touched(cache, k)
  /\ UNCHANGED <<cacheBytes, clock, read>>

\* get_session_history misses and awaits the provider.
Send(r, k) ==
  /\ read[r].state = "none"
  /\ ~Cached(k)
  /\ read' = [read EXCEPT ![r].state = "sent", ![r].key = k]
  /\ UNCHANGED <<cache, cacheBytes, clock>>

\* Schwab puts its answer together.  What the normalizer will make of it does not depend
\* on the clock any more.
Schwab(r) ==
  /\ read[r].state = "sent"
  /\ \E candles \in Payloads(read[r].key.date) :
       read' = [read EXCEPT ![r].state = "answered",
                            ![r].bars = SessionBars(candles, read[r].key),
                            ![r].dropped = Malformed \in candles,
                            ![r].had = HalvesSoFar(read[r].key.date)]
  /\ UNCHANGED <<cache, cacheBytes, clock>>

\* The answer is received: received_at is read only now.
Receive(r, bytes) ==
  /\ read[r].state = "answered"
  /\ Store(read[r], bytes)
  /\ read' = [read EXCEPT ![r] = NoRead]
  /\ UNCHANGED clock

\* The provider fails, or its answer is not a list.
Fail(r) ==
  /\ read[r].state # "none"
  /\ read' = [read EXCEPT ![r] = NoRead]
  /\ UNCHANGED <<cache, cacheBytes, clock>>

\* Trading ends, or midnight passes.  The provider's timeouts are seconds and
\* the hours after trading are not, so an answer sees at most one of the two.
ClockMoves ==
  /\ \A r \in Reads : ~read[r].late
  /\ \/ ~clock.closed /\ clock' = [clock EXCEPT !.closed = TRUE]
     \/ clock.closed /\ clock.day < LastDay
        /\ clock' = [day |-> clock.day + 1, closed |-> FALSE]
  /\ read' = [r \in Reads |-> [read[r] EXCEPT !.late = read[r].state = "answered"]]
  /\ UNCHANGED <<cache, cacheBytes>>

Next ==
  \/ \E k \in Keys : Hit(k)
  \/ \E r \in Reads :
       \/ \E k \in Keys : Send(r, k)
       \/ Schwab(r)
       \/ \E bytes \in Sizes : Receive(r, bytes)
       \/ Fail(r)
  \/ ClockMoves

Spec == Init /\ [][Next]_vars
-----------------------------------------------------------------------------
(* Properties.                                                             *)

\* The byte counter is the weight of what is kept and both bounds hold, also
\* when two reads of one session end one after the other.
CacheWithinBounds ==
  /\ cacheBytes = Weight(cache)
  /\ cacheBytes <= MaxBytes
  /\ Len(cache) <= MaxEntries
  /\ \A i, j \in DOMAIN cache : cache[i].key = cache[j].key => i = j

\* "their bars can no longer change": what is kept for ever comes from an answer that
\* Schwab put together once that day's trading was over and of which nothing was dropped,
\* also when it was read before trading ended or before midnight and received after.
\* Whether Schwab left a bar out of that answer, nothing checks.
KeptSessionsAreFinal ==
  \A i \in DOMAIN cache :
    /\ cache[i].had = Halves
    /\ ~cache[i].dropped
    /\ cache[i].bars # {}
    /\ \A b \in cache[i].bars :
         b.date = cache[i].key.date /\ b.session = cache[i].key.session
=============================================================================
