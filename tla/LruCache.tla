------------------------------- MODULE LruCache -------------------------------
(***************************************************************************)
(* The OrderedDict that both read caches keep: a sequence of entries with  *)
(* the least recently used first, next to a byte counter that the code     *)
(* adjusts by hand at every change.  An entry has fields key and bytes.    *)
(***************************************************************************)
EXTENDS Integers, Sequences, SequencesExt, Sublists

CachedKeys(c) == {c[i].key : i \in DOMAIN c}

Position(c, k) == CHOOSE i \in DOMAIN c : c[i].key = k
Entry(c, k) == c[Position(c, k)]

\* The sum of the entries' sizes, what the byte counter should read.
Weight(c) ==
  LET upTo[n \in 0 .. Len(c)] == IF n = 0 THEN 0 ELSE upTo[n - 1] + c[n].bytes
  IN  upTo[Len(c)]

\* OrderedDict.pop(key)
Without(c, k) == IF k \in CachedKeys(c) THEN RemoveAt(c, Position(c, k)) ELSE c
BytesOf(c, k) == IF k \in CachedKeys(c) THEN Entry(c, k).bytes ELSE 0

\* OrderedDict.move_to_end(key)
Touched(c, k) == Append(Without(c, k), Entry(c, k))

\* mutant: the loop looks at the number of entries only
FitsEntries(c, bytes, n, maxEntries, maxBytes) == Len(c) - n <= maxEntries

\* The bounds hold once the n least recently used entries are gone.
Fits(c, bytes, n, maxEntries, maxBytes) ==
  /\ Len(c) - n <= maxEntries
  /\ bytes - Weight(SubSeq(c, 1, n)) <= maxBytes

\* The number of entries the eviction loop pops before its condition fails.
Evictions(c, bytes, maxEntries, maxBytes) ==
  CHOOSE n \in 0 .. Len(c) :
    /\ n = Len(c) \/ Fits(c, bytes, n, maxEntries, maxBytes)
    /\ \A m \in 0 .. n - 1 : ~Fits(c, bytes, m, maxEntries, maxBytes)

Kept(c, n) == SubSeq(c, n + 1, Len(c))
=============================================================================
