----------------------- MODULE SessionHistoryCacheProofs -----------------------
(***************************************************************************)
(* Proofs about the session-history cache, for any days, holidays, sizes   *)
(* and reads: its books balance, and what it keeps for ever is final.      *)
(***************************************************************************)
EXTENDS SessionHistoryCache, SequenceLemmas

Bars == [date : Nat, session : Sessions \cup {"none"}, half : 0 .. 2]

\* Bars of the key's day and session.
OfKey(bars, k) == \A b \in bars : b.date = k.date /\ b.session = k.session

\* An entry that comes from one clean answer of after the end of trading.
FinalEntry ==
  {e \in [key : Keys, bytes : Nat, bars : SUBSET Bars, dropped : BOOLEAN, had : SUBSET Halves] :
     e.had = Halves /\ ~e.dropped /\ e.bars # {} /\ OfKey(e.bars, e.key)}

ReadRecord == [state : {"none", "sent", "answered"}, key : Keys, bars : SUBSET Bars,
               dropped : BOOLEAN, had : SUBSET Halves, late : BOOLEAN]

ReadTypes ==
  /\ clock \in [day : Days, closed : BOOLEAN]
  /\ read \in [Reads -> ReadRecord]

\* The clock has moved under no read but one that is answered; an answer it has
\* not moved under is as of now, and one of a day that is over was put together
\* when trading had ended.
Sound(q) ==
  /\ q.late => q.state = "answered"
  /\ q.state = "answered" =>
       /\ OfKey(q.bars, q.key)
       /\ ~q.late => q.had = HalvesSoFar(q.key.date)
       /\ q.key.date < clock.day => q.had = Halves

AnswersAge == \A r \in Reads : Sound(read[r])

CacheInv == cache \in Seq(FinalEntry) /\ CacheWithinBounds

Inv == ReadTypes /\ AnswersAge /\ CacheInv
-----------------------------------------------------------------------------
(* What Schwab returns.                                                    *)

\* A bar is its date, its session and its half of the day.
LEMMA BarFields ==
  ASSUME NEW d, NEW s, NEW h
  PROVE  /\ Bar(d, s, h).date = d /\ Bar(d, s, h).session = s /\ Bar(d, s, h).half = h
         /\ d \in Nat /\ s \in Sessions /\ h \in Halves => Bar(d, s, h) \in Bars
BY DEF Bar, Bars, Halves

\* The bars of a day are of that day, and of one of the two sessions.
LEMMA BarsOfADay ==
  ASSUME NEW d \in Nat
  PROVE  /\ BarsOf(d) \subseteq Bars
         /\ \A b \in BarsOf(d) : b.date = d /\ b.session \in Sessions
<1>1. HalvesSoFar(d) \subseteq Halves
  BY DEF HalvesSoFar, Halves
<1>2. ASSUME NEW b \in BarsOf(d) PROVE b \in Bars /\ b.date = d /\ b.session \in Sessions
  <2>1. PICK s \in Sessions, h \in Halves : b = Bar(d, s, h)
    BY <1>1 DEF BarsOf
  <2> QED
    BY <2>1, BarFields
<1> QED
  BY <1>2

\* What may be returned has its type.
LEMMA PayloadsAreBars ==
  ASSUME NEW d \in Days, NEW candles \in Payloads(d)
  PROVE  candles \in SUBSET Bars
<1>1. d \in Nat /\ Malformed \in Bars
  BY BoundsArePositive DEF Days, Malformed, Bar, Bars
<1>2. BarsOf(d) \subseteq Bars
  BY <1>1, BarsOfADay
<1>3. \A e \in Days : BarsOf(e) \subseteq Bars
  BY BarsOfADay, BoundsArePositive DEF Days
<1> QED
  BY <1>1, <1>2, <1>3 DEF Payloads

\* What the normalizer keeps of it are bars of the session asked for.
LEMMA KeptBars ==
  ASSUME NEW k \in Keys, NEW candles \in Payloads(k.date)
  PROVE  /\ SessionBars(candles, k) \in SUBSET Bars
         /\ OfKey(SessionBars(candles, k), k)
<1>1. candles \in SUBSET Bars
  BY PayloadsAreBars DEF Keys
<1> QED
  BY <1>1 DEF SessionBars, OfKey

\* There are no halves but the two, and both are there once the day is over.
LEMMA HalvesOfADay ==
  ASSUME ReadTypes, NEW d \in Days
  PROVE  /\ HalvesSoFar(d) \in SUBSET Halves
         /\ d < clock.day \/ (d = clock.day /\ clock.closed) => HalvesSoFar(d) = Halves
BY BoundsArePositive DEF HalvesSoFar, Halves, ReadTypes, Days
-----------------------------------------------------------------------------
(* The steps.                                                              *)

\* A read that has not arrived is a record.
LEMMA NoReadIsARead == NoRead \in ReadRecord /\ Sound(NoRead)
<1>1. 1 \in Days
  BY BoundsArePositive DEF Days
<1> QED
  BY <1>1 DEF NoRead, ReadRecord, Keys, Sessions, Sound

\* An entry weighs a natural number of bytes.
LEMMA Measurable == Measured(FinalEntry)
BY DEF Measured, FinalEntry

\* CacheWithinBounds in the words of the lemmas.
LEMMA BoundsOfTheCache ==
  /\ CacheWithinBounds <=> WithinBounds(cache, cacheBytes, MaxEntries, MaxBytes)
  /\ CacheWithinBounds' <=> WithinBounds(cache', cacheBytes', MaxEntries, MaxBytes)
BY DEF CacheWithinBounds, WithinBounds, DistinctKeys

\* What leaves the cache alone keeps its bounds.
LEMMA CacheStutters ==
  ASSUME CacheInv, UNCHANGED <<cache, cacheBytes>>
  PROVE  CacheInv'
BY DEF CacheInv, CacheWithinBounds

\* cached_session_history moves the entry it finds.
LEMMA HitKeepsTheCache ==
  ASSUME CacheInv, NEW k \in Keys, Hit(k)
  PROVE  CacheInv'
<1>1. /\ cache \in Seq(FinalEntry) /\ WithinBounds(cache, cacheBytes, MaxEntries, MaxBytes)
      /\ k \in CachedKeys(cache) /\ MaxEntries \in Nat /\ MaxBytes \in Nat
  BY BoundsOfTheCache, BoundsArePositive DEF CacheInv, Hit, Cached
<1>2. cache' = Touched(cache, k) /\ cacheBytes' = cacheBytes
  BY DEF Hit
<1>3. cache' \in Seq(FinalEntry) /\ WithinBounds(cache', cacheBytes', MaxEntries, MaxBytes)
  BY <1>1, <1>2, Measurable, TouchingKeepsTheBounds
<1> QED
  BY <1>3, BoundsOfTheCache DEF CacheInv

\* _store keeps a session that is over, and the bounds.
LEMMA StoreKeepsTheCache ==
  ASSUME CacheInv, NEW q \in ReadRecord, q.state = "answered", Sound(q),
         NEW bytes \in Sizes, Store(q, bytes)
  PROVE  CacheInv'
<1> DEFINE k == q.key
           entry == [key |-> k, bytes |-> bytes, bars |-> q.bars,
                     dropped |-> q.dropped, had |-> q.had]
<1>1. CASE ~IsCompletedSession(q) \/ bytes > MaxBytes
  BY <1>1, CacheStutters DEF Store
<1>2. CASE ~(~IsCompletedSession(q) \/ bytes > MaxBytes)
  <2>1. entry.key = k /\ entry.bytes = bytes /\ k \in Keys
    BY DEF ReadRecord
  <2>2. entry \in FinalEntry
    <3>1. q.had = Halves /\ ~q.dropped /\ q.bars # {} /\ OfKey(q.bars, k)
      BY <1>2 DEF IsCompletedSession, Sound
    <3>2. bytes \in Nat
      BY BoundsArePositive
    <3> QED
      BY <3>1, <3>2 DEF FinalEntry, ReadRecord
  <2> DEFINE stored == Append(Without(cache, k), entry)
             charged == cacheBytes - BytesOf(cache, k) + bytes
             n == Evictions(stored, charged, MaxEntries, MaxBytes)
  <2>3. cache' = Kept(stored, n) /\ cacheBytes' = charged - Weight(SubSeq(stored, 1, n))
    BY <1>2 DEF Store, Replaced
  <2>4. /\ cache \in Seq(FinalEntry) /\ DistinctKeys(cache) /\ cacheBytes = Weight(cache)
        /\ MaxEntries \in Nat /\ MaxBytes \in Nat
    BY BoundsOfTheCache, BoundsArePositive DEF CacheInv, WithinBounds
  <2> HIDE DEF entry, k
  <2>5. /\ Kept(stored, n) \in Seq(FinalEntry)
        /\ WithinBounds(Kept(stored, n), charged - Weight(SubSeq(stored, 1, n)), MaxEntries, MaxBytes)
    BY <2>1, <2>2, <2>4, Measurable, StoringKeepsTheBounds
  <2> QED
    BY <2>3, <2>5, BoundsOfTheCache DEF CacheInv
<1> QED
  BY <1>1, <1>2

\* What is said of a read while the clock stands still.
LEMMA ClockStands ==
  ASSUME clock' = clock, NEW r \in Reads, NEW q, read'[r] = q, Sound(q)
  PROVE  Sound(read[r])'
BY DEF Sound, OfKey, HalvesSoFar

\* What leaves the reads and the clock alone keeps what the answers say.
LEMMA NothingMoves ==
  ASSUME ReadTypes, AnswersAge, UNCHANGED <<clock, read>>
  PROVE  ReadTypes' /\ AnswersAge'
<1>1. ASSUME NEW r \in Reads PROVE Sound(read[r])'
  <2>1. PICK q : q = read'[r]
    OBVIOUS
  <2> QED
    BY <2>1, ClockStands DEF AnswersAge
<1> QED
  BY <1>1 DEF ReadTypes, AnswersAge

\* One read moves, and the clock does not.
LEMMA OneRead ==
  ASSUME ReadTypes, AnswersAge, NEW r \in Reads, NEW q \in ReadRecord, Sound(q),
         read' = [read EXCEPT ![r] = q], clock' = clock
  PROVE  ReadTypes' /\ AnswersAge'
<1>1. ReadTypes'
  BY DEF ReadTypes
<1>2. ASSUME NEW s \in Reads PROVE Sound(read[s])'
  <2>1. PICK p : p = read'[s]
    OBVIOUS
  <2>2. p = q \/ p = read[s]
    BY <2>1 DEF ReadTypes
  <2>3. Sound(p)
    BY <2>2 DEF AnswersAge
  <2> QED
    BY <2>1, <2>3, ClockStands
<1> QED
  BY <1>1, <1>2 DEF AnswersAge

\* The clock moves under every answer that is as of now: if its day is over after that,
\* trading had ended before.
LEMMA ClockSteps ==
  ASSUME ReadTypes, AnswersAge, ClockMoves
  PROVE  ReadTypes' /\ AnswersAge'
<1>1. /\ \A r \in Reads : ~read[r].late
      /\ read' = [r \in Reads |-> [read[r] EXCEPT !.late = read[r].state = "answered"]]
  BY DEF ClockMoves
<1>2. \A r \in Reads :
        /\ read'[r] \in ReadRecord /\ read'[r].state = read[r].state
        /\ read'[r].key = read[r].key /\ read'[r].bars = read[r].bars
        /\ read'[r].had = read[r].had
        /\ read'[r].late <=> read[r].state = "answered"
  BY <1>1 DEF ReadTypes, ReadRecord
<1>3. clock \in [day : Days, closed : BOOLEAN] /\ LastDay \in Nat
  BY BoundsArePositive DEF ReadTypes
<1>4. ReadTypes'
  <2>2. CASE clock' = [clock EXCEPT !.closed = TRUE]
    BY <1>1, <1>2, <1>3, <2>2 DEF ReadTypes
  <2>3. CASE clock.day < LastDay /\ clock' = [day |-> clock.day + 1, closed |-> FALSE]
    <3>1. clock.day + 1 \in Days
      BY <1>3, <2>3 DEF Days
    <3> QED
      BY <1>1, <1>2, <2>3, <3>1 DEF ReadTypes
  <2> QED
    BY <2>2, <2>3 DEF ClockMoves
<1>5. clock'.day = clock.day \/ (clock.closed /\ clock'.day = clock.day + 1)
  BY <1>3 DEF ClockMoves
<1>6. ASSUME NEW r \in Reads, read[r].state = "answered", read[r].key.date < clock'.day
      PROVE  read[r].had = Halves
  <2> DEFINE d == read[r].key.date
  <2>1. d \in Days /\ d \in Nat /\ clock.day \in Nat
    BY <1>3, BoundsArePositive DEF ReadTypes, ReadRecord, Keys, Days
  <2>2. d < clock.day \/ (d = clock.day /\ clock.closed)
    BY <1>5, <1>6, <2>1
  <2>3. read[r].had = HalvesSoFar(d)
    BY <1>1, <1>6 DEF AnswersAge, Sound
  <2> QED
    BY <2>1, <2>2, <2>3, HalvesOfADay
<1>7. ASSUME NEW r \in Reads PROVE Sound(read[r])'
  <2>1. read[r].state = "answered" => OfKey(read[r].bars, read[r].key)
    BY DEF AnswersAge, Sound
  <2> QED
    BY <1>2, <1>6, <2>1 DEF Sound, OfKey
<1> QED
  BY <1>4, <1>7 DEF AnswersAge

\* The cache starts empty.
LEMMA InitInv == Init => Inv
<1> SUFFICES ASSUME Init PROVE Inv
  OBVIOUS
<1>1. ReadTypes /\ AnswersAge
  BY NoReadIsARead, BoundsArePositive DEF Init, ReadTypes, AnswersAge, Sound, Days
<1>2. CacheInv
  BY EmptyWeighsNothing, BoundsArePositive DEF Init, CacheInv, CacheWithinBounds
<1> QED
  BY <1>1, <1>2 DEF Inv

\* Every step keeps the bounds of the cache and the sessions in it final.
LEMMA NextInv ==
  ASSUME Inv, Next
  PROVE  Inv'
<1> USE DEF Inv
<1>1. ASSUME NEW k \in Keys, Hit(k) PROVE Inv'
  <2>1. CacheInv'
    BY <1>1, HitKeepsTheCache
  <2>2. ReadTypes' /\ AnswersAge'
    BY <1>1, NothingMoves DEF Hit
  <2> QED
    BY <2>1, <2>2
<1>2. ASSUME NEW r \in Reads, NEW k \in Keys, Send(r, k) PROVE Inv'
  <2> DEFINE q == [read[r] EXCEPT !.state = "sent", !.key = k]
  <2>1. q \in ReadRecord /\ Sound(q)
    <3>1. read[r] \in ReadRecord /\ ~read[r].late
      BY <1>2 DEF Send, ReadTypes, AnswersAge, Sound
    <3> QED
      BY <3>1 DEF ReadRecord, Sound
  <2>2. read' = [read EXCEPT ![r] = q] /\ clock' = clock /\ UNCHANGED <<cache, cacheBytes>>
    BY <1>2 DEF Send
  <2> HIDE DEF q
  <2> QED
    BY <2>1, <2>2, OneRead, CacheStutters
<1>3. ASSUME NEW r \in Reads, Schwab(r) PROVE Inv'
  <2> DEFINE k == read[r].key
  <2>1. PICK candles \in Payloads(k.date) :
          read' = [read EXCEPT ![r].state = "answered", ![r].bars = SessionBars(candles, k),
                               ![r].dropped = Malformed \in candles,
                               ![r].had = HalvesSoFar(k.date)]
    BY <1>3 DEF Schwab
  <2> DEFINE q == [read[r] EXCEPT !.state = "answered", !.bars = SessionBars(candles, k),
                                  !.dropped = Malformed \in candles,
                                  !.had = HalvesSoFar(k.date)]
  <2>2. read[r] \in ReadRecord /\ k \in Keys /\ k.date \in Days /\ ~read[r].late
    BY <1>3 DEF Schwab, ReadTypes, ReadRecord, Keys, AnswersAge, Sound
  <2>3. SessionBars(candles, k) \in SUBSET Bars /\ OfKey(SessionBars(candles, k), k)
    BY <2>2, KeptBars
  <2>4. /\ HalvesSoFar(k.date) \in SUBSET Halves
        /\ k.date < clock.day => HalvesSoFar(k.date) = Halves
    BY <2>2, HalvesOfADay
  <2>5. q \in ReadRecord
    <3>1. PICK bars, dropped, had :
            /\ bars = SessionBars(candles, k) /\ had = HalvesSoFar(k.date)
            /\ dropped = (Malformed \in candles)
      OBVIOUS
    <3>2. bars \in SUBSET Bars /\ had \in SUBSET Halves /\ dropped \in BOOLEAN
      BY <2>3, <2>4, <3>1
    <3>3. q = [read[r] EXCEPT !.state = "answered", !.bars = bars, !.dropped = dropped,
                              !.had = had]
      BY <3>1
    <3> HIDE DEF q
    <3> QED
      BY <2>2, <3>2, <3>3 DEF ReadRecord
  <2>6. Sound(q)
    BY <2>2, <2>3, <2>4 DEF Sound, ReadRecord
  <2>7. read' = [read EXCEPT ![r] = q] /\ clock' = clock /\ UNCHANGED <<cache, cacheBytes>>
    BY <1>3, <2>1 DEF Schwab
  <2> HIDE DEF q
  <2> QED
    BY <2>5, <2>6, <2>7, OneRead, CacheStutters
<1>4. ASSUME NEW r \in Reads, NEW bytes \in Sizes, Receive(r, bytes) PROVE Inv'
  <2>1. /\ read[r].state = "answered" /\ read[r] \in ReadRecord /\ Sound(read[r])
        /\ Store(read[r], bytes)
        /\ read' = [read EXCEPT ![r] = NoRead] /\ clock' = clock
    BY <1>4 DEF Receive, ReadTypes, AnswersAge
  <2>2. CacheInv'
    BY <2>1, StoreKeepsTheCache
  <2>3. ReadTypes' /\ AnswersAge'
    BY <2>1, NoReadIsARead, OneRead
  <2> QED
    BY <2>2, <2>3
<1>5. ASSUME NEW r \in Reads, Fail(r) PROVE Inv'
  BY <1>5, NoReadIsARead, OneRead, CacheStutters DEF Fail
<1>6. CASE ClockMoves
  BY <1>6, ClockSteps, CacheStutters DEF ClockMoves
<1> QED
  BY <1>1, <1>2, <1>3, <1>4, <1>5, <1>6 DEF Next

\* The invariant of every state.
LEMMA Invariant == Spec => []Inv
<1>1. ASSUME Inv, UNCHANGED vars PROVE Inv'
  <2>1. CacheInv'
    BY <1>1, CacheStutters DEF Inv, vars
  <2>2. ReadTypes' /\ AnswersAge'
    BY <1>1, NothingMoves DEF Inv, vars
  <2> QED
    BY <2>1, <2>2 DEF Inv
<1>2. Inv /\ [Next]_vars => Inv'
  BY <1>1, NextInv
<1> QED
  BY InitInv, <1>2, PTL DEF Spec

\* The byte counter is the weight of what is kept and both bounds hold, however
\* many reads of one session end one after the other.
THEOREM TheCacheIsBounded == Spec => []CacheWithinBounds
<1>1. Inv => CacheWithinBounds
  BY DEF Inv, CacheInv
<1> QED
  BY Invariant, <1>1, PTL

\* "their bars can no longer change": what is kept for ever comes from one answer that
\* was put together after the end of trading and of which nothing was dropped, also when
\* it was asked for before trading ended or before midnight and received after.
THEOREM OnlyFinalSessionsAreKept == Spec => []KeptSessionsAreFinal
<1>1. Inv => KeptSessionsAreFinal
  BY DEF Inv, CacheInv, FinalEntry, OfKey, KeptSessionsAreFinal
<1> QED
  BY Invariant, <1>1, PTL
=============================================================================
