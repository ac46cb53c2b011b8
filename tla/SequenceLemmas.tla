----------------------------- MODULE SequenceLemmas -----------------------------
(***************************************************************************)
(* Facts about the sequences that the models are built from: induction on  *)
(* a length, what Sublist selects, what a cache weighs, and that storing,  *)
(* touching and pruning keep a cache within its bounds.  They hold for     *)
(* sequences of any length and entries of any kind.                        *)
(***************************************************************************)
EXTENDS LruCache, SequenceTheorems, WellFoundedInduction, TLAPS

\* Every nonempty set of naturals has a least member.
LEMMA LeastMember ==
  ASSUME NEW S \in SUBSET Nat, S # {}
  PROVE  \E n \in S : \A m \in S : n <= m
<1>1. PICK n \in S : \A m \in S : ~(<<m, n>> \in OpToRel(<, Nat))
  BY WFMin, NatLessThanWellFounded, Zenon
<1>2. \A m \in S : ~(m < n)
  BY <1>1 DEF OpToRel
<1> QED
  BY <1>2

\* Induction up to N: a set that has 0 and, with any length below N, the next.
LEMMA UpTo ==
  ASSUME NEW N \in Nat, NEW T, 0 \in T, \A n \in 1 .. N : n - 1 \in T => n \in T
  PROVE  0 .. N \subseteq T
<1> DEFINE Missing == (0 .. N) \ T
<1> SUFFICES ASSUME Missing # {} PROVE FALSE
  OBVIOUS
<1>0. Missing \in SUBSET Nat
  OBVIOUS
<1>1. PICK n \in Missing : \A m \in Missing : n <= m
  <2> HIDE DEF Missing
  <2> QED
    BY <1>0, LeastMember
<1>2. n \in 1 .. N /\ n - 1 \in 0 .. N
  OBVIOUS
<1>3. n - 1 \in T
  BY <1>1, <1>2
<1> QED
  BY <1>2, <1>3

\* g is the function that primitive recursion defines up to N.
Computes(g, V, N, base, F) ==
  /\ g \in [0 .. N -> V]
  /\ g[0] = base
  /\ \A n \in 1 .. N : g[n] = F[g[n - 1]][n]

\* There is one, whatever the step.
LEMMA Recursion ==
  ASSUME NEW N \in Nat, NEW base, NEW F
  PROVE  \E V, g : Computes(g, V, N, base, F)
<1> DEFINE Good(k, V, g) ==
             /\ g \in [0 .. k -> V]
             /\ g[0] = base
             /\ \A n \in 1 .. k : g[n] = F[g[n - 1]][n]
           T == {k \in 0 .. N : \E V : \E g : Good(k, V, g)}
<1>1. 0 \in T
  <2>1. Good(0, {base}, [n \in 0 .. 0 |-> base])
    OBVIOUS
  <2> HIDE DEF Good
  <2> QED
    BY <2>1
<1>2. ASSUME NEW k \in 1 .. N, k - 1 \in T
      PROVE  k \in T
  <2>1. PICK V, g : Good(k - 1, V, g)
    BY <1>2
  <2> DEFINE e == F[g[k - 1]][k]
             h == [n \in 0 .. k |-> IF n = k THEN e ELSE g[n]]
  <2>2. h[k] = e /\ \A n \in 0 .. k - 1 : h[n] = g[n]
    OBVIOUS
  <2>3. h \in [0 .. k -> V \cup {e}]
    <3>1. \A n \in 0 .. k : n # k => g[n] \in V
      BY <2>1
    <3> HIDE DEF e
    <3> QED
      BY <3>1
  <2> HIDE DEF h
  <2>4. ASSUME NEW n \in 1 .. k PROVE h[n] = F[h[n - 1]][n]
    <3>0. n - 1 \in 0 .. k - 1
      OBVIOUS
    <3>1. CASE n = k
      BY <2>2, <3>0, <3>1
    <3>2. CASE n # k
      <4>1. n \in 1 .. k - 1 /\ n \in 0 .. k - 1
        BY <3>2
      <4>2. g[n] = F[g[n - 1]][n]
        BY <2>1, <4>1
      <4> QED
        BY <2>2, <3>0, <4>1, <4>2
    <3> QED
      BY <3>1, <3>2
  <2>5. h[0] = base
    BY <2>1, <2>2
  <2>6. Good(k, V \cup {e}, h)
    BY <2>3, <2>4, <2>5
  <2> HIDE DEF Good
  <2> QED
    BY <2>6
<1> HIDE DEF T
<1>3. N \in T
  BY <1>1, <1>2, UpTo
<1> QED
  BY <1>3 DEF T, Computes

-----------------------------------------------------------------------------
(* What a cache weighs.                                                    *)

\* g holds the weights of the prefixes of c.
Sums(g, c) ==
  /\ g[0] = 0
  /\ \A n \in 1 .. Len(c) : g[n] = g[n - 1] + c[n].bytes

Measured(S) == \A e \in S : e.bytes \in Nat

\* The recursive function in Weight exists and adds up the sizes.
LEMMA WeightIsASum ==
  ASSUME NEW S, Measured(S), NEW c \in Seq(S)
  PROVE  \E g \in [0 .. Len(c) -> Nat] : Sums(g, c) /\ Weight(c) = g[Len(c)]
<1> DEFINE N == Len(c)
           f == CHOOSE g : g = [n \in 0 .. N |-> IF n = 0 THEN 0 ELSE g[n - 1] + c[n].bytes]
           F == [v \in Nat |-> [n \in 1 .. N |-> v + c[n].bytes]]
<1>1. N \in Nat /\ \A n \in 1 .. N : c[n].bytes \in Nat
  BY DEF Measured
<1>2. PICK V, g : Computes(g, V, N, 0, F)
  <2> HIDE DEF F, N
  <2> QED
    BY <1>1, Recursion
<1>3. /\ g \in [0 .. N -> V]
      /\ g[0] = 0
      /\ \A n \in 1 .. N : g[n] = F[g[n - 1]][n]
  BY <1>2 DEF Computes
<1>4. ASSUME NEW n \in 1 .. N, g[n - 1] \in Nat
      PROVE  g[n] = g[n - 1] + c[n].bytes
  <2>1. g[n] = F[g[n - 1]][n]
    BY <1>3
  <2> HIDE DEF N
  <2> QED
    BY <1>4, <2>1
<1>5. \A n \in 0 .. N : g[n] \in Nat
  <2> DEFINE T == {n \in 0 .. N : g[n] \in Nat}
  <2>1. 0 \in T
    BY <1>1, <1>3
  <2>2. \A n \in 1 .. N : n - 1 \in T => n \in T
    BY <1>1, <1>4
  <2> HIDE DEF T, N
  <2>3. 0 .. N \subseteq T
    BY <1>1, <2>1, <2>2, UpTo
  <2> QED
    BY <2>3 DEF T
<1>6. g \in [0 .. N -> Nat] /\ \A n \in 1 .. N : g[n] = g[n - 1] + c[n].bytes
  <2>1. \A n \in 1 .. N : g[n - 1] \in Nat
    BY <1>1, <1>5
  <2> HIDE DEF N, F
  <2> QED
    BY <1>3, <1>4, <1>5, <2>1
<1>7. g = [n \in 0 .. N |-> IF n = 0 THEN 0 ELSE g[n - 1] + c[n].bytes]
  <2> HIDE DEF N, F
  <2> QED
    BY <1>1, <1>3, <1>6
<1>8. f = [n \in 0 .. N |-> IF n = 0 THEN 0 ELSE f[n - 1] + c[n].bytes]
  BY <1>7
<1>9. f[0] = 0 /\ \A n \in 1 .. N : f[n] = f[n - 1] + c[n].bytes
  <2> HIDE DEF N, f
  <2> QED
    BY <1>1, <1>8
<1>10. f[N] = g[N]
  <2> DEFINE T == {n \in 0 .. N : f[n] = g[n]}
  <2>1. 0 \in T
    BY <1>1, <1>3, <1>9
  <2>2. \A n \in 1 .. N : n - 1 \in T => n \in T
    <3> HIDE DEF N, f
    <3> QED
      BY <1>6, <1>9
  <2> HIDE DEF T, N, f
  <2>3. 0 .. N \subseteq T
    BY <1>1, <2>1, <2>2, UpTo
  <2> QED
    BY <1>1, <2>3 DEF T
<1>11. Weight(c) = f[N]
  BY DEF Weight
<1> QED
  BY <1>3, <1>6, <1>10, <1>11 DEF Sums

\* Whatever adds up the sizes ends with the weight.
LEMMA SumsEndWithTheWeight ==
  ASSUME NEW S, Measured(S), NEW c \in Seq(S), NEW h \in [0 .. Len(c) -> Int], Sums(h, c)
  PROVE  Weight(c) = h[Len(c)]
<1>1. PICK g \in [0 .. Len(c) -> Nat] : Sums(g, c) /\ Weight(c) = g[Len(c)]
  BY WeightIsASum
<1> DEFINE T == {n \in 0 .. Len(c) : h[n] = g[n]}
<1>2. 0 \in T
  BY <1>1 DEF Sums
<1>3. \A n \in 1 .. Len(c) : n - 1 \in T => n \in T
  BY <1>1 DEF Sums
<1>4. Len(c) \in T
  <2> HIDE DEF T
  <2>1. Len(c) \in Nat /\ Len(c) \in 0 .. Len(c)
    OBVIOUS
  <2>2. 0 .. Len(c) \subseteq T
    BY <1>2, <1>3, <2>1, UpTo
  <2> QED
    BY <2>1, <2>2
<1> QED
  BY <1>1, <1>4

\* The weight is a natural number.
LEMMA WeightIsNat ==
  ASSUME NEW S, Measured(S), NEW c \in Seq(S)
  PROVE  Weight(c) \in Nat
BY WeightIsASum

\* An empty sequence weighs nothing.
LEMMA EmptyWeighsNothing ==
  Weight(<<>>) = 0
<1>1. Measured({}) /\ <<>> \in Seq({})
  BY DEF Measured
<1>2. PICK g \in [0 .. Len(<<>>) -> Nat] : Sums(g, <<>>) /\ Weight(<<>>) = g[Len(<<>>)]
  BY <1>1, WeightIsASum
<1> QED
  BY <1>2 DEF Sums

\* One more entry at the end adds its size.
LEMMA WeightOfAppend ==
  ASSUME NEW S, Measured(S), NEW c \in Seq(S), NEW e \in S
  PROVE  Weight(Append(c, e)) = Weight(c) + e.bytes
<1> DEFINE d == Append(c, e)
<1>1. d \in Seq(S) /\ Len(d) = Len(c) + 1 /\ d[Len(d)] = e
      /\ \A n \in 1 .. Len(c) : d[n] = c[n]
  OBVIOUS
<1> HIDE DEF d
<1>2. PICK g \in [0 .. Len(d) -> Nat] : Sums(g, d) /\ Weight(d) = g[Len(d)]
  BY <1>1, WeightIsASum
<1> DEFINE h == [n \in 0 .. Len(c) |-> g[n]]
<1>3. h \in [0 .. Len(c) -> Int] /\ \A n \in 0 .. Len(c) : h[n] = g[n]
  BY <1>1
<1> HIDE DEF h
<1>4. Sums(h, c)
  <2>1. ASSUME NEW n \in 1 .. Len(c) PROVE h[n] = h[n - 1] + c[n].bytes
    <3>1. n \in 0 .. Len(c) /\ n - 1 \in 0 .. Len(c) /\ n \in 1 .. Len(d)
      BY <1>1
    <3> QED
      BY <1>1, <1>2, <1>3, <3>1 DEF Sums
  <2>2. h[0] = 0
    BY <1>2, <1>3 DEF Sums
  <2> QED
    BY <2>1, <2>2 DEF Sums
<1>5. Weight(c) = g[Len(c)]
  BY <1>3, <1>4, SumsEndWithTheWeight
<1>6. g[Len(d)] = g[Len(c)] + e.bytes
  BY <1>1, <1>2 DEF Sums
<1> QED
  BY <1>2, <1>5, <1>6 DEF d

\* The weight is a matter of the sizes alone.
LEMMA SameSizesSameWeight ==
  ASSUME NEW S, Measured(S), NEW c \in Seq(S), NEW d \in Seq(S), Len(d) = Len(c),
         \A n \in 1 .. Len(c) : d[n].bytes = c[n].bytes
  PROVE  Weight(d) = Weight(c)
<1>1. PICK g \in [0 .. Len(c) -> Nat] : Sums(g, c) /\ Weight(c) = g[Len(c)]
  BY WeightIsASum
<1>2. Sums(g, d)
  BY <1>1 DEF Sums
<1>3. g \in [0 .. Len(d) -> Int]
  OBVIOUS
<1> QED
  BY <1>1, <1>2, <1>3, SumsEndWithTheWeight

\* Where the difference is taken does not matter.
LEMMA Moved ==
  ASSUME NEW x \in Nat, NEW y \in Nat, NEW z \in Nat
  PROVE  (x + y) - z = (x - z) + y
OBVIOUS

\* The positions behind position k.
LEMMA Shifted ==
  ASSUME NEW L \in Nat, NEW k \in 0 .. L, NEW n \in 1 .. L - k
  PROVE  /\ n \in 0 .. L - k /\ n - 1 \in 0 .. L - k
         /\ n + k \in 1 .. L /\ (n - 1) + k = (n + k) - 1
OBVIOUS

\* A sequence weighs as much as its two parts.
LEMMA WeightOfParts ==
  ASSUME NEW S, Measured(S), NEW c \in Seq(S), NEW k \in 0 .. Len(c)
  PROVE  Weight(c) = Weight(SubSeq(c, 1, k)) + Weight(SubSeq(c, k + 1, Len(c)))
<1> DEFINE a == SubSeq(c, 1, k)
           b == SubSeq(c, k + 1, Len(c))
<1>1. a \in Seq(S) /\ Len(a) = k /\ \A n \in 1 .. k : a[n] = c[n]
  OBVIOUS
<1>2. b \in Seq(S) /\ Len(b) = Len(c) - k /\ \A n \in 1 .. Len(c) - k : b[n] = c[n + k]
  OBVIOUS
<1> HIDE DEF a, b
<1>3. PICK g \in [0 .. Len(c) -> Nat] : Sums(g, c) /\ Weight(c) = g[Len(c)]
  BY WeightIsASum
<1> DEFINE ga == [n \in 0 .. Len(a) |-> g[n]]
           gb == [n \in 0 .. Len(b) |-> g[n + k] - g[k]]
<1>4. ga \in [0 .. Len(a) -> Int] /\ \A n \in 0 .. k : ga[n] = g[n]
  BY <1>1
<1>5. gb \in [0 .. Len(b) -> Int] /\ \A n \in 0 .. Len(b) : gb[n] = g[n + k] - g[k]
  BY <1>2
<1> HIDE DEF ga, gb
<1>6. Sums(ga, a)
  <2>1. ga[0] = 0
    BY <1>3, <1>4 DEF Sums
  <2>2. ASSUME NEW n \in 1 .. Len(a) PROVE ga[n] = ga[n - 1] + a[n].bytes
    <3>1. n \in 1 .. Len(c) /\ n \in 0 .. k /\ n - 1 \in 0 .. k /\ n \in 1 .. k
      BY <1>1
    <3> QED
      BY <1>1, <1>3, <1>4, <3>1 DEF Sums
  <2> QED
    BY <2>1, <2>2 DEF Sums
<1>7. Sums(gb, b)
  <2>1. gb[0] = 0
    BY <1>2, <1>5
  <2>2. ASSUME NEW n \in 1 .. Len(b) PROVE gb[n] = gb[n - 1] + b[n].bytes
    <3>1. /\ n \in 0 .. Len(b) /\ n - 1 \in 0 .. Len(b) /\ n \in 1 .. Len(c) - k
          /\ n + k \in 1 .. Len(c) /\ (n - 1) + k = (n + k) - 1
      BY <1>2, Shifted
    <3>2. PICK m \in 1 .. Len(c) : m = n + k /\ m - 1 = (n - 1) + k
      BY <3>1
    <3>3. g[m] = g[m - 1] + c[m].bytes /\ b[n] = c[m] /\ c[m] \in S
      BY <1>2, <1>3, <3>1, <3>2 DEF Sums
    <3>4. gb[n] = g[m] - g[k] /\ gb[n - 1] = g[m - 1] - g[k]
      BY <1>5, <3>1, <3>2
    <3>5. g[m - 1] \in Nat /\ g[k] \in Nat /\ b[n].bytes \in Nat
      <4>1. m - 1 \in 0 .. Len(c)
        BY <3>2
      <4> QED
        BY <3>3, <4>1 DEF Measured
    <3>6. g[m] = g[m - 1] + b[n].bytes
      BY <3>3
    <3>7. (g[m - 1] + b[n].bytes) - g[k] = (g[m - 1] - g[k]) + b[n].bytes
      BY <3>5, Moved
    <3>8. gb[n] = (g[m - 1] + b[n].bytes) - g[k]
      BY <3>4, <3>6, Zenon
    <3> QED
      BY <3>4, <3>7, <3>8, Zenon
  <2> QED
    BY <2>1, <2>2 DEF Sums
<1>8. Weight(a) = g[k]
  BY <1>1, <1>4, <1>6, SumsEndWithTheWeight
<1>9. Weight(b) = g[Len(c)] - g[k]
  <2>1. Weight(b) = gb[Len(b)]
    BY <1>2, <1>5, <1>7, SumsEndWithTheWeight
  <2>2. Len(b) \in 0 .. Len(b) /\ Len(b) + k = Len(c)
    BY <1>2
  <2>3. gb[Len(b)] = g[Len(b) + k] - g[k]
    BY <1>5, <2>2, Zenon
  <2> QED
    BY <2>1, <2>2, <2>3, Zenon
<1> QED
  BY <1>3, <1>8, <1>9 DEF a, b

\* Two sequences in a row weigh what they weigh apart.
LEMMA WeightOfConcat ==
  ASSUME NEW S, Measured(S), NEW a \in Seq(S), NEW b \in Seq(S)
  PROVE  Weight(a \o b) = Weight(a) + Weight(b)
<1> DEFINE d == a \o b
<1>1. d \in Seq(S) /\ Len(d) = Len(a) + Len(b) /\ Len(a) \in 0 .. Len(d)
  OBVIOUS
<1>2. SubSeq(d, 1, Len(a)) = a
  <2>1. SubSeq(d, 1, Len(a)) \in Seq(S) /\ Len(SubSeq(d, 1, Len(a))) = Len(a)
        /\ \A n \in 1 .. Len(a) : SubSeq(d, 1, Len(a))[n] = a[n]
    OBVIOUS
  <2> HIDE DEF d
  <2> QED
    BY <2>1, SeqEqual
<1>3. SubSeq(d, Len(a) + 1, Len(d)) = b
  <2> DEFINE t == SubSeq(d, Len(a) + 1, Len(d))
  <2>1. t \in Seq(S) /\ Len(t) = Len(b)
        /\ \A n \in 1 .. Len(b) : t[n] = b[n]
    OBVIOUS
  <2> HIDE DEF t
  <2>2. t = b
    BY <2>1, SeqEqual
  <2> QED
    BY <2>2 DEF t
<1> HIDE DEF d
<1>4. Weight(d) = Weight(SubSeq(d, 1, Len(a))) + Weight(SubSeq(d, Len(a) + 1, Len(d)))
  BY <1>1, WeightOfParts
<1> QED
  BY <1>2, <1>3, <1>4 DEF d

\* What removing one element leaves.
LEMMA RemovedAt ==
  ASSUME NEW S, NEW c \in Seq(S), NEW i \in 1 .. Len(c)
  PROVE  /\ RemoveAt(c, i) \in Seq(S)
         /\ Len(RemoveAt(c, i)) = Len(c) - 1
         /\ \A n \in 1 .. Len(c) - 1 : RemoveAt(c, i)[n] = IF n < i THEN c[n] ELSE c[n + 1]
<1> DEFINE a == SubSeq(c, 1, i - 1)
           b == SubSeq(c, i + 1, Len(c))
<1>1. a \in Seq(S) /\ Len(a) = i - 1 /\ \A n \in 1 .. i - 1 : a[n] = c[n]
  OBVIOUS
<1>2. b \in Seq(S) /\ Len(b) = Len(c) - i /\ \A n \in 1 .. Len(c) - i : b[n] = c[n + i]
  OBVIOUS
<1>3. RemoveAt(c, i) = a \o b
  BY DEF RemoveAt
<1> HIDE DEF a, b
<1>4. /\ a \o b \in Seq(S)
      /\ Len(a \o b) = Len(c) - 1
      /\ \A n \in 1 .. Len(c) - 1 : (a \o b)[n] = IF n <= i - 1 THEN a[n] ELSE b[n - (i - 1)]
  <2>1. /\ a \o b \in Seq(S) /\ Len(a \o b) = Len(a) + Len(b)
        /\ \A n \in 1 .. Len(a) + Len(b) : (a \o b)[n] = IF n <= Len(a) THEN a[n] ELSE b[n - Len(a)]
    BY <1>1, <1>2, ConcatProperties
  <2>2. Len(a) + Len(b) = Len(c) - 1 /\ Len(a) = i - 1
    BY <1>1, <1>2
  <2> QED
    BY <2>1, <2>2
<1>5. ASSUME NEW n \in 1 .. Len(c) - 1
      PROVE  (a \o b)[n] = IF n < i THEN c[n] ELSE c[n + 1]
  <2>1. CASE n < i
    BY <1>1, <1>4, <2>1
  <2>2. CASE ~(n < i)
    <3>1. n - (i - 1) \in 1 .. Len(c) - i /\ (n - (i - 1)) + i = n + 1
      BY <2>2
    <3> QED
      BY <1>2, <1>4, <2>2, <3>1
  <2> QED
    BY <2>1, <2>2
<1> QED
  BY <1>3, <1>4, <1>5

\* It takes its size along.
LEMMA WeightOfRemoveAt ==
  ASSUME NEW S, Measured(S), NEW c \in Seq(S), NEW i \in 1 .. Len(c)
  PROVE  Weight(RemoveAt(c, i)) = Weight(c) - c[i].bytes
<1> DEFINE a == SubSeq(c, 1, i - 1)
           b == SubSeq(c, i + 1, Len(c))
           u == SubSeq(c, 1, i)
<1>1. a \in Seq(S) /\ b \in Seq(S) /\ u \in Seq(S) /\ c[i] \in S
  OBVIOUS
<1>2. u = Append(a, c[i])
  <2>1. Append(a, c[i]) \in Seq(S) /\ Len(u) = i /\ Len(Append(a, c[i])) = i
    OBVIOUS
  <2>2. \A n \in 1 .. i : u[n] = Append(a, c[i])[n]
    OBVIOUS
  <2> DEFINE v == Append(a, c[i])
  <2> HIDE DEF u, v
  <2>3. u = v
    BY <1>1, <2>1, <2>2, SeqEqual DEF v
  <2> QED
    BY <2>3 DEF v
<1>3. RemoveAt(c, i) = a \o b
  BY DEF RemoveAt
<1> HIDE DEF a, b, u
<1>4. Weight(RemoveAt(c, i)) = Weight(a) + Weight(b)
  BY <1>1, <1>3, WeightOfConcat
<1>5. Weight(u) = Weight(a) + c[i].bytes
  BY <1>1, <1>2, WeightOfAppend
<1>6. Weight(c) = Weight(u) + Weight(b)
  BY WeightOfParts DEF u, b
<1>7. Weight(a) \in Nat /\ Weight(b) \in Nat /\ c[i].bytes \in Nat
  BY <1>1, WeightIsNat DEF Measured
<1> QED
  BY <1>4, <1>5, <1>6, <1>7

-----------------------------------------------------------------------------
(* What Sublist selects.                                                   *)

\* g holds what is selected from the prefixes of s.
Selections(g, s, X) ==
  /\ g[0] = <<>>
  /\ \A n \in 1 .. Len(s) :
       g[n] = IF s[n] \in X THEN Append(g[n - 1], s[n]) ELSE g[n - 1]

\* The recursive function in Sublist exists and selects them.
LEMMA SublistSelects ==
  ASSUME NEW S, NEW s \in Seq(S), NEW X
  PROVE  \E g \in [0 .. Len(s) -> Seq(S)] : Selections(g, s, X) /\ Sublist(s, X) = g[Len(s)]
<1> DEFINE N == Len(s)
           Step(v, n) == IF s[n] \in X THEN Append(v, s[n]) ELSE v
           f == CHOOSE g : g = [n \in 0 .. N |-> IF n = 0 THEN <<>> ELSE Step(g[n - 1], n)]
           F == [v \in Seq(S) |-> [n \in 1 .. N |-> Step(v, n)]]
<1>1. N \in Nat /\ \A n \in 1 .. N : s[n] \in S
  OBVIOUS
<1>2. PICK V, g : Computes(g, V, N, <<>>, F)
  <2> HIDE DEF F, N
  <2> QED
    BY <1>1, Recursion
<1>3. /\ g \in [0 .. N -> V]
      /\ g[0] = <<>>
      /\ \A n \in 1 .. N : g[n] = F[g[n - 1]][n]
  BY <1>2 DEF Computes
<1>4. ASSUME NEW n \in 1 .. N, g[n - 1] \in Seq(S)
      PROVE  g[n] = Step(g[n - 1], n)
  <2>1. g[n] = F[g[n - 1]][n]
    BY <1>3
  <2> HIDE DEF N, Step
  <2> QED
    BY <1>4, <2>1
<1>5. \A n \in 0 .. N : g[n] \in Seq(S)
  <2> DEFINE T == {n \in 0 .. N : g[n] \in Seq(S)}
  <2>1. 0 \in T
    <3>1. <<>> \in Seq(S) /\ 0 \in 0 .. N
      BY <1>1
    <3> QED
      BY <1>3, <3>1
  <2>2. ASSUME NEW n \in 1 .. N, n - 1 \in T PROVE n \in T
    <3>1. g[n - 1] \in Seq(S) /\ s[n] \in S
      BY <1>1, <2>2
    <3>2. g[n] \in Seq(S)
      <4>1. g[n] = Step(g[n - 1], n)
        BY <1>4, <3>1
      <4> DEFINE v == g[n - 1]
                 a == s[n]
      <4>2. Append(v, a) \in Seq(S) /\ v \in Seq(S)
        <5> HIDE DEF v, a
        <5> QED
          BY <3>1 DEF v, a
      <4> QED
        BY <4>1, <4>2
    <3> QED
      BY <3>2
  <2> HIDE DEF T, N
  <2>3. 0 .. N \subseteq T
    BY <1>1, <2>1, <2>2, UpTo
  <2> QED
    BY <2>3 DEF T
<1>6. /\ g \in [0 .. N -> Seq(S)]
      /\ \A n \in 1 .. N : g[n] = Step(g[n - 1], n)
  <2>1. \A n \in 1 .. N : g[n - 1] \in Seq(S)
    BY <1>1, <1>5
  <2> HIDE DEF N, F, Step
  <2> QED
    BY <1>3, <1>4, <1>5, <2>1
<1>7. g = [n \in 0 .. N |-> IF n = 0 THEN <<>> ELSE Step(g[n - 1], n)]
  <2> HIDE DEF N, F, Step
  <2> QED
    BY <1>1, <1>3, <1>6
<1>8. f = [n \in 0 .. N |-> IF n = 0 THEN <<>> ELSE Step(f[n - 1], n)]
  BY <1>7
<1>9. /\ f[0] = <<>>
      /\ \A n \in 1 .. N : f[n] = Step(f[n - 1], n)
  <2> HIDE DEF N, f, Step
  <2> QED
    BY <1>1, <1>8
<1>10. f[N] = g[N]
  <2> DEFINE T == {n \in 0 .. N : f[n] = g[n]}
  <2>1. 0 \in T
    BY <1>1, <1>3, <1>9
  <2>2. \A n \in 1 .. N : n - 1 \in T => n \in T
    <3> HIDE DEF N, f, Step
    <3> QED
      BY <1>6, <1>9
  <2> HIDE DEF T, N, f
  <2>3. 0 .. N \subseteq T
    BY <1>1, <2>1, <2>2, UpTo
  <2> QED
    BY <1>1, <2>3 DEF T
<1>11. Sublist(s, X) = f[N]
  BY DEF Sublist
<1> QED
  BY <1>3, <1>6, <1>10, <1>11 DEF Selections

\* What was selected and what was not weigh what the sequence weighs.
LEMMA WeightOfSublists ==
  ASSUME NEW S, Measured(S), NEW c \in Seq(S), NEW X, NEW Y,
         \A i \in 1 .. Len(c) : c[i] \in X <=> c[i] \notin Y
  PROVE  Weight(Sublist(c, X)) + Weight(Sublist(c, Y)) = Weight(c)
<1> DEFINE N == Len(c)
<1>1. PICK gx \in [0 .. N -> Seq(S)] : Selections(gx, c, X) /\ Sublist(c, X) = gx[N]
  BY SublistSelects
<1>2. PICK gy \in [0 .. N -> Seq(S)] : Selections(gy, c, Y) /\ Sublist(c, Y) = gy[N]
  BY SublistSelects
<1> DEFINE h == [n \in 0 .. N |-> Weight(gx[n]) + Weight(gy[n])]
<1>3. N \in Nat /\ \A n \in 1 .. N : n \in 0 .. N /\ n - 1 \in 0 .. N /\ c[n] \in S
  OBVIOUS
<1>4. \A n \in 0 .. N : /\ gx[n] \in Seq(S) /\ gy[n] \in Seq(S)
                        /\ Weight(gx[n]) \in Nat /\ Weight(gy[n]) \in Nat
  <2> HIDE DEF N
  <2> QED
    BY <1>1, <1>2, WeightIsNat
<1>5. h \in [0 .. N -> Int] /\ \A n \in 0 .. N : h[n] = Weight(gx[n]) + Weight(gy[n])
  <2> HIDE DEF N
  <2> QED
    BY <1>4
<1> HIDE DEF h
<1>6. ASSUME NEW n \in 1 .. N PROVE h[n] = h[n - 1] + c[n].bytes
  <2> DEFINE x == gx[n - 1]
             y == gy[n - 1]
  <2>0. x \in Seq(S) /\ y \in Seq(S) /\ c[n] \in S /\ c[n].bytes \in Nat
    BY <1>3, <1>4 DEF Measured
  <2>1. /\ Weight(x) \in Nat /\ Weight(y) \in Nat
        /\ h[n - 1] = Weight(x) + Weight(y) /\ h[n] = Weight(gx[n]) + Weight(gy[n])
    <3> HIDE DEF N
    <3> QED
      BY <1>3, <1>4, <1>5
  <2>2. /\ gx[n] = IF c[n] \in X THEN Append(x, c[n]) ELSE x
        /\ gy[n] = IF c[n] \in Y THEN Append(y, c[n]) ELSE y
    BY <1>1, <1>2 DEF Selections
  <2> HIDE DEF x, y
  <2>3. /\ Weight(Append(x, c[n])) = Weight(x) + c[n].bytes
        /\ Weight(Append(y, c[n])) = Weight(y) + c[n].bytes
    BY <2>0, WeightOfAppend
  <2>4. CASE c[n] \in X /\ c[n] \notin Y
    BY <2>0, <2>1, <2>2, <2>3, <2>4
  <2>5. CASE c[n] \notin X /\ c[n] \in Y
    BY <2>0, <2>1, <2>2, <2>3, <2>5
  <2> QED
    BY <2>4, <2>5
<1>7. h[0] = 0
  <2>1. gx[0] = <<>> /\ gy[0] = <<>> /\ 0 \in 0 .. N
    BY <1>1, <1>2, <1>3 DEF Selections
  <2> HIDE DEF N
  <2> QED
    BY <1>5, <2>1, EmptyWeighsNothing
<1>8. Weight(c) = h[N]
  <2>1. Sums(h, c)
    BY <1>6, <1>7 DEF Sums
  <2> QED
    BY <1>5, <2>1, SumsEndWithTheWeight
<1>9. N \in 0 .. N
  BY <1>3
<1> QED
  BY <1>1, <1>2, <1>5, <1>8, <1>9

\* e says where in s, up to position n, the elements of t come from.
Embeds(e, t, s, X, n) ==
  /\ e \in [1 .. Len(t) -> 1 .. n]
  /\ \A i \in 1 .. Len(t) : t[i] = s[e[i]] /\ s[e[i]] \in X
  /\ \A i, j \in 1 .. Len(t) : i < j => e[i] < e[j]
  /\ \A j \in 1 .. n : s[j] \in X => \E i \in 1 .. Len(t) : e[i] = j

\* Sublist keeps the elements that are in the set, all of them and in their order.
LEMMA SublistEmbeds ==
  ASSUME NEW S, NEW s \in Seq(S), NEW X
  PROVE  Sublist(s, X) \in Seq(S) /\ \E e : Embeds(e, Sublist(s, X), s, X, Len(s))
<1>1. PICK g \in [0 .. Len(s) -> Seq(S)] : Selections(g, s, X) /\ Sublist(s, X) = g[Len(s)]
  BY SublistSelects
<1> DEFINE T == {n \in 0 .. Len(s) : \E e : Embeds(e, g[n], s, X, n)}
<1>2. 0 \in T
  <2> DEFINE e == [i \in 1 .. 0 |-> i]
  <2>1. g[0] = <<>> /\ Len(g[0]) = 0
    BY <1>1 DEF Selections
  <2>2. Embeds(e, g[0], s, X, 0)
    BY <2>1 DEF Embeds
  <2> QED
    BY <2>2
<1>3. ASSUME NEW n \in 1 .. Len(s), n - 1 \in T PROVE n \in T
  <2>1. PICK e : Embeds(e, g[n - 1], s, X, n - 1)
    BY <1>3
  <2> DEFINE t == g[n - 1]
             u == g[n]
  <2>2. t \in Seq(S) /\ Len(t) \in Nat /\ u = IF s[n] \in X THEN Append(t, s[n]) ELSE t
    <3>1. n - 1 \in 0 .. Len(s)
      OBVIOUS
    <3>2. t \in Seq(S)
      BY <1>1, <3>1, Zenon
    <3>3. u = IF s[n] \in X THEN Append(t, s[n]) ELSE t
      BY <1>1 DEF Selections
    <3> HIDE DEF t
    <3>4. Len(t) \in Nat
      BY <3>2
    <3> QED
      BY <3>2, <3>3, <3>4
  <2>3. /\ e \in [1 .. Len(t) -> 1 .. n - 1]
        /\ \A i \in 1 .. Len(t) : t[i] = s[e[i]] /\ s[e[i]] \in X
        /\ \A i, j \in 1 .. Len(t) : i < j => e[i] < e[j]
        /\ \A j \in 1 .. n - 1 : s[j] \in X => \E i \in 1 .. Len(t) : e[i] = j
    BY <2>1 DEF Embeds
  <2> HIDE DEF t, u
  <2>4. CASE s[n] \notin X
    <3>1. u = t /\ Len(t) \in Nat
      BY <2>2, <2>4
    <3>2. e \in [1 .. Len(t) -> 1 .. n]
      <4>1. \A i \in 1 .. Len(t) : e[i] \in 1 .. n
        BY <2>3
      <4> QED
        BY <2>3, <4>1
    <3>3. ASSUME NEW j \in 1 .. n, s[j] \in X PROVE \E i \in 1 .. Len(t) : e[i] = j
      <4>1. j \in 1 .. n - 1
        BY <2>4, <3>3
      <4> QED
        BY <2>3, <3>3, <4>1
    <3>4. Embeds(e, t, s, X, n)
      BY <2>3, <3>2, <3>3 DEF Embeds
    <3> QED
      BY <3>1, <3>4 DEF u
  <2>5. CASE s[n] \in X
    <3> DEFINE m == Len(t) + 1
               d == [i \in 1 .. m |-> IF i = m THEN n ELSE e[i]]
    <3>1. /\ u \in Seq(S) /\ Len(u) = m /\ u[m] = s[n]
          /\ \A i \in 1 .. Len(t) : u[i] = t[i]
      BY <2>2, <2>5
    <3>2. /\ d \in [1 .. m -> 1 .. n] /\ d[m] = n
          /\ \A i \in 1 .. Len(t) : d[i] = e[i] /\ d[i] \in 1 .. n - 1
      <4>1. m \in 1 .. m /\ n \in 1 .. n /\ \A i \in 1 .. m : i # m => i \in 1 .. Len(t)
        BY <2>2
      <4>2. \A i \in 1 .. Len(t) : e[i] \in 1 .. n - 1 /\ e[i] \in 1 .. n
        BY <2>3
      <4> HIDE DEF m
      <4>3. \A i \in 1 .. m : (IF i = m THEN n ELSE e[i]) \in 1 .. n
        BY <4>1, <4>2
      <4>4. d \in [1 .. m -> 1 .. n]
        BY <4>3
      <4>5. d[m] = n
        BY <4>1
      <4>6. ASSUME NEW i \in 1 .. Len(t) PROVE d[i] = e[i]
        <5>1. i \in 1 .. m /\ i # m
          BY <2>2 DEF m
        <5> QED
          BY <5>1
      <4> QED
        BY <4>2, <4>4, <4>5, <4>6
    <3> HIDE DEF d
    <3>3. \A i \in 1 .. m : u[i] = s[d[i]] /\ s[d[i]] \in X
      BY <2>2, <2>3, <2>5, <3>1, <3>2
    <3>4. ASSUME NEW i \in 1 .. m, NEW j \in 1 .. m, i < j PROVE d[i] < d[j]
      <4>1. i \in 1 .. Len(t) /\ d[i] = e[i] /\ d[i] \in 1 .. n - 1
        BY <2>2, <3>2, <3>4
      <4>2. CASE j = m
        BY <3>2, <4>1, <4>2
      <4>3. CASE j # m
        <5>1. j \in 1 .. Len(t) /\ d[j] = e[j]
          BY <2>2, <3>2, <4>3
        <5>2. e[i] < e[j]
          BY <2>3, <3>4, <4>1, <5>1
        <5> QED
          BY <4>1, <5>1, <5>2
      <4> QED
        BY <4>2, <4>3
    <3>5. ASSUME NEW j \in 1 .. n, s[j] \in X PROVE \E i \in 1 .. m : d[i] = j
      <4>1. CASE j = n
        BY <2>2, <3>2, <4>1
      <4>2. CASE j # n
        <5>1. PICK i \in 1 .. Len(t) : e[i] = j
          BY <2>3, <3>5, <4>2
        <5> QED
          BY <2>2, <3>2, <5>1
      <4> QED
        BY <4>1, <4>2
    <3>6. Embeds(d, u, s, X, n)
      BY <3>1, <3>2, <3>3, <3>4, <3>5 DEF Embeds
    <3> QED
      BY <3>6 DEF u
  <2> QED
    BY <2>4, <2>5
<1>4. Len(s) \in T
  <2> HIDE DEF T
  <2>1. Len(s) \in Nat /\ Len(s) \in 0 .. Len(s)
    OBVIOUS
  <2>2. 0 .. Len(s) \subseteq T
    BY <1>2, <1>3, <2>1, UpTo
  <2> QED
    BY <2>1, <2>2
<1> QED
  BY <1>1, <1>4

\* The elements that are selected, as a set and as the type of the sequence.
LEMMA SublistHas ==
  ASSUME NEW S, NEW s \in Seq(S), NEW X
  PROVE  /\ Sublist(s, X) \in Seq(S \cap X)
         /\ Range(Sublist(s, X)) = Range(s) \cap X
         /\ Len(Sublist(s, X)) <= Len(s)
<1> DEFINE t == Sublist(s, X)
<1>1. t \in Seq(S)
  BY SublistEmbeds
<1>2. PICK e : Embeds(e, t, s, X, Len(s))
  BY SublistEmbeds
<1> HIDE DEF t
<1>3. /\ e \in [1 .. Len(t) -> 1 .. Len(s)]
      /\ \A i \in 1 .. Len(t) : t[i] = s[e[i]] /\ s[e[i]] \in X
      /\ \A i, j \in 1 .. Len(t) : i < j => e[i] < e[j]
      /\ \A j \in 1 .. Len(s) : s[j] \in X => \E i \in 1 .. Len(t) : e[i] = j
  BY <1>2 DEF Embeds
<1>4. Len(t) \in Nat /\ Len(s) \in Nat
  BY <1>1
<1>5. t \in Seq(S \cap X)
  <2>1. \A i \in 1 .. Len(t) : t[i] \in S \cap X
    BY <1>1, <1>3
  <2> QED
    BY <1>1, <1>4, <2>1
<1>6. Range(t) = Range(s) \cap X
  <2>1. DOMAIN t = 1 .. Len(t) /\ DOMAIN s = 1 .. Len(s)
    BY <1>1
  <2>2. \A x : x \in Range(t) <=> \E i \in 1 .. Len(t) : t[i] = x
    BY <2>1 DEF Range
  <2>3. \A x : x \in Range(s) <=> \E i \in 1 .. Len(s) : s[i] = x
    BY <2>1 DEF Range
  <2>4. ASSUME NEW x \in Range(t) PROVE x \in Range(s) \cap X
    <3>1. PICK i \in 1 .. Len(t) : t[i] = x
      BY <2>2
    <3>2. e[i] \in 1 .. Len(s) /\ x = s[e[i]] /\ x \in X
      BY <1>3, <3>1
    <3> QED
      BY <2>3, <3>2
  <2>5. ASSUME NEW x \in Range(s) \cap X PROVE x \in Range(t)
    <3>1. PICK j \in 1 .. Len(s) : s[j] = x
      BY <2>3
    <3>2. PICK i \in 1 .. Len(t) : e[i] = j
      BY <1>3, <3>1
    <3>3. t[i] = x
      BY <1>3, <3>1, <3>2
    <3> QED
      BY <2>2, <3>3
  <2> QED
    BY <2>4, <2>5
<1>7. Len(t) <= Len(s)
  <2> DEFINE U == {n \in 0 .. Len(t) : n = 0 \/ n <= e[n]}
  <2>1. 0 \in U
    BY <1>4
  <2>2. ASSUME NEW n \in 1 .. Len(t), n - 1 \in U PROVE n \in U
    <3>1. e[n] \in 1 .. Len(s)
      BY <1>3
    <3>2. CASE n = 1
      BY <3>1, <3>2
    <3>3. CASE n # 1
      <4>1. n - 1 \in 1 .. Len(t) /\ n - 1 < n
        BY <3>3
      <4>2. e[n - 1] < e[n] /\ n - 1 <= e[n - 1] /\ e[n - 1] \in 1 .. Len(s)
        BY <1>3, <2>2, <4>1
      <4> QED
        BY <3>1, <4>2
    <3> QED
      BY <3>2, <3>3
  <2> HIDE DEF U
  <2>3. 0 .. Len(t) \subseteq U
    BY <1>4, <2>1, <2>2, UpTo
  <2>4. Len(t) \in U
    BY <1>4, <2>3
  <2>5. Len(t) = 0 \/ e[Len(t)] \in 1 .. Len(s)
    BY <1>3, <1>4
  <2> QED
    BY <1>4, <2>4, <2>5 DEF U
<1> QED
  BY <1>5, <1>6, <1>7 DEF t

-----------------------------------------------------------------------------
(* What the operations of a cache keep.                                    *)

DistinctKeys(c) == \A i, j \in DOMAIN c : c[i].key = c[j].key => i = j

WithinBounds(c, bytes, maxEntries, maxBytes) ==
  /\ bytes = Weight(c)
  /\ bytes <= maxBytes
  /\ Len(c) <= maxEntries
  /\ DistinctKeys(c)

OtherKeys(S, k) == {e \in S : e.key # k}

\* A key that is not cached, as the type of the entries.
LEMMA KeyIsNotCached ==
  ASSUME NEW S, NEW c \in Seq(S), NEW k
  PROVE  k \notin CachedKeys(c) <=> c \in Seq(OtherKeys(S, k))
<1>1. DOMAIN c = 1 .. Len(c) /\ Len(c) \in Nat
  OBVIOUS
<1>2. ASSUME k \notin CachedKeys(c) PROVE c \in Seq(OtherKeys(S, k))
  <2>1. \A i \in 1 .. Len(c) : c[i] \in OtherKeys(S, k)
    BY <1>1, <1>2 DEF CachedKeys, OtherKeys
  <2> QED
    BY <1>1, <2>1
<1>3. ASSUME c \in Seq(OtherKeys(S, k)) PROVE k \notin CachedKeys(c)
  <2>1. \A i \in 1 .. Len(c) : c[i] \in OtherKeys(S, k)
    BY <1>3
  <2> QED
    BY <1>1, <2>1 DEF CachedKeys, OtherKeys
<1> QED
  BY <1>2, <1>3

\* The entry of a key that is cached.
LEMMA PositionOfKey ==
  ASSUME NEW S, NEW c \in Seq(S), NEW k \in CachedKeys(c)
  PROVE  Position(c, k) \in 1 .. Len(c) /\ Entry(c, k).key = k /\ Entry(c, k) \in S
BY DEF CachedKeys, Position, Entry

\* A key taken out is gone, with its size and no other.
LEMMA WithoutKey ==
  ASSUME NEW S, Measured(S), NEW c \in Seq(S), DistinctKeys(c), NEW k
  PROVE  /\ Without(c, k) \in Seq(OtherKeys(S, k))
         /\ Weight(Without(c, k)) = Weight(c) - BytesOf(c, k)
         /\ Len(Without(c, k)) = Len(c) - (IF k \in CachedKeys(c) THEN 1 ELSE 0)
         /\ DistinctKeys(Without(c, k))
<1>1. CASE k \notin CachedKeys(c)
  <2>1. Weight(c) \in Nat /\ Len(c) \in Nat
    BY WeightIsNat
  <2> QED
    BY <1>1, <2>1, KeyIsNotCached DEF Without, BytesOf
<1>2. CASE k \in CachedKeys(c)
  <2> DEFINE p == Position(c, k)
             d == RemoveAt(c, p)
  <2>1. p \in 1 .. Len(c) /\ c[p].key = k
    BY <1>2, PositionOfKey DEF Entry
  <2>2. Without(c, k) = d /\ BytesOf(c, k) = c[p].bytes
    BY <1>2 DEF Without, BytesOf, Entry
  <2> HIDE DEF p
  <2>3. /\ d \in Seq(S) /\ Len(d) = Len(c) - 1
        /\ \A n \in 1 .. Len(c) - 1 : d[n] = IF n < p THEN c[n] ELSE c[n + 1]
    BY <2>1, RemovedAt
  <2>4. Weight(d) = Weight(c) - c[p].bytes
    BY <2>1, WeightOfRemoveAt
  <2> HIDE DEF d
  <2>5. DOMAIN c = 1 .. Len(c) /\ Len(c) \in Nat /\ DOMAIN d = 1 .. Len(c) - 1
    BY <2>3
  <2>6. ASSUME NEW n \in 1 .. Len(c) - 1
        PROVE  d[n] = c[IF n < p THEN n ELSE n + 1]
               /\ (IF n < p THEN n ELSE n + 1) \in 1 .. Len(c) \ {p}
    BY <2>1, <2>3, <2>5
  <2>7. DistinctKeys(d)
    <3> SUFFICES ASSUME NEW i \in 1 .. Len(c) - 1, NEW j \in 1 .. Len(c) - 1,
                        d[i].key = d[j].key
                 PROVE  i = j
      BY <2>5 DEF DistinctKeys
    <3>1. (IF i < p THEN i ELSE i + 1) = (IF j < p THEN j ELSE j + 1)
      BY <2>5, <2>6 DEF DistinctKeys
    <3> QED
      BY <2>1, <2>5, <3>1
  <2>8. d \in Seq(OtherKeys(S, k))
    <3>1. ASSUME NEW n \in 1 .. Len(c) - 1 PROVE d[n] \in OtherKeys(S, k)
      <4> DEFINE m == IF n < p THEN n ELSE n + 1
      <4>1. d[n] = c[m] /\ m \in 1 .. Len(c) /\ m # p
        BY <2>6
      <4> HIDE DEF m
      <4>2. c[m] \in S /\ c[m].key # c[p].key
        BY <2>1, <2>5, <4>1 DEF DistinctKeys
      <4>3. d[n] \in S /\ d[n].key # k
        BY <2>1, <4>1, <4>2
      <4> QED
        BY <4>3 DEF OtherKeys
    <3> QED
      BY <2>3, <2>5, <3>1
  <2> QED
    BY <1>2, <2>2, <2>3, <2>4, <2>7, <2>8
<1> QED
  BY <1>1, <1>2

\* An entry of a new key at the end.
LEMMA AppendedKey ==
  ASSUME NEW S, NEW e \in S, NEW c \in Seq(OtherKeys(S, e.key)), DistinctKeys(c)
  PROVE  Append(c, e) \in Seq(S) /\ DistinctKeys(Append(c, e))
<1> DEFINE d == Append(c, e)
<1>1. /\ d \in Seq(S) /\ Len(d) = Len(c) + 1 /\ d[Len(c) + 1] = e
      /\ \A n \in 1 .. Len(c) : d[n] = c[n] /\ c[n].key # e.key
  BY DEF OtherKeys
<1>2. DOMAIN c = 1 .. Len(c) /\ Len(c) \in Nat /\ DOMAIN d = 1 .. Len(c) + 1
  BY <1>1
<1> HIDE DEF d
<1>3. DistinctKeys(d)
  BY <1>1, <1>2 DEF DistinctKeys
<1> QED
  BY <1>1, <1>3 DEF d

\* The eviction loop ends, within the bounds.
LEMMA EvictionLoop ==
  ASSUME NEW S, Measured(S), NEW c \in Seq(S), DistinctKeys(c),
         NEW maxEntries \in Nat, NEW maxBytes \in Nat
  PROVE  LET n == Evictions(c, Weight(c), maxEntries, maxBytes)
         IN  /\ n \in 0 .. Len(c)
             /\ Kept(c, n) \in Seq(S)
             /\ WithinBounds(Kept(c, n), Weight(c) - Weight(SubSeq(c, 1, n)), maxEntries, maxBytes)
<1> DEFINE Ends(m) == m = Len(c) \/ Fits(c, Weight(c), m, maxEntries, maxBytes)
           T == {m \in 0 .. Len(c) : Ends(m)}
           n == Evictions(c, Weight(c), maxEntries, maxBytes)
<1>1. Len(c) \in Nat /\ Weight(c) \in Nat
  BY WeightIsNat
<1>2. PICK m \in T : \A l \in T : m <= l
  <2>1. T \in SUBSET Nat /\ Len(c) \in T
    BY <1>1
  <2> HIDE DEF T
  <2> QED
    BY <2>1, LeastMember
<1>3. /\ m \in 0 .. Len(c) /\ Ends(m)
      /\ \A l \in 0 .. m - 1 : ~Fits(c, Weight(c), l, maxEntries, maxBytes)
  BY <1>1, <1>2
<1>4. n \in 0 .. Len(c) /\ Ends(n)
  BY <1>3 DEF Evictions
<1> HIDE DEF n
<1> DEFINE d == SubSeq(c, n + 1, Len(c))
<1>5. /\ d \in Seq(S) /\ Len(d) = Len(c) - n
      /\ \A i \in 1 .. Len(c) - n : d[i] = c[i + n]
  BY <1>1, <1>4
<1> HIDE DEF d
<1>6. Weight(c) = Weight(SubSeq(c, 1, n)) + Weight(d)
  BY <1>4, WeightOfParts DEF d
<1>7. Weight(d) \in Nat /\ Weight(SubSeq(c, 1, n)) \in Nat
  <2>1. SubSeq(c, 1, n) \in Seq(S)
    BY <1>1, <1>4
  <2> QED
    BY <1>5, <2>1, WeightIsNat
<1>8. Weight(d) = Weight(c) - Weight(SubSeq(c, 1, n))
  BY <1>1, <1>6, <1>7
<1>9. Weight(d) <= maxBytes /\ Len(d) <= maxEntries
  <2>1. CASE Fits(c, Weight(c), n, maxEntries, maxBytes)
    BY <1>5, <1>8, <2>1 DEF Fits
  <2>2. CASE n = Len(c)
    <3>1. d = <<>>
      BY <1>1, <1>5, <2>2
    <3> QED
      BY <1>1, <1>5, <2>2, <3>1, EmptyWeighsNothing
  <2> QED
    BY <1>4, <2>1, <2>2
<1>10. DistinctKeys(d)
  <2>1. DOMAIN c = 1 .. Len(c) /\ DOMAIN d = 1 .. Len(c) - n
    BY <1>5
  <2>2. SUFFICES ASSUME NEW i \in 1 .. Len(c) - n, NEW j \in 1 .. Len(c) - n, d[i].key = d[j].key
                 PROVE  i = j
    BY <2>1 DEF DistinctKeys
  <2>3. i + n \in 1 .. Len(c) /\ j + n \in 1 .. Len(c) /\ c[i + n].key = c[j + n].key
    <3>1. i + n \in 1 .. Len(c) /\ j + n \in 1 .. Len(c)
      BY <1>1, <1>4
    <3>2. d[i] = c[i + n] /\ d[j] = c[j + n]
      BY <1>5
    <3> QED
      BY <2>2, <3>1, <3>2
  <2>4. i + n = j + n
    BY <2>1, <2>3 DEF DistinctKeys
  <2> QED
    BY <1>1, <1>4, <2>4
<1>11. Kept(c, n) = d
  BY DEF Kept, d
<1> QED
  BY <1>4, <1>5, <1>8, <1>9, <1>10, <1>11 DEF n, WithinBounds

\* An entry that replaces the one of its key, and the evictions that follow.
LEMMA StoringKeepsTheBounds ==
  ASSUME NEW S, Measured(S), NEW c \in Seq(S), DistinctKeys(c), NEW e \in S,
         NEW maxEntries \in Nat, NEW maxBytes \in Nat
  PROVE  LET stored  == Append(Without(c, e.key), e)
             charged == Weight(c) - BytesOf(c, e.key) + e.bytes
             n       == Evictions(stored, charged, maxEntries, maxBytes)
         IN  /\ Kept(stored, n) \in Seq(S)
             /\ WithinBounds(Kept(stored, n), charged - Weight(SubSeq(stored, 1, n)),
                             maxEntries, maxBytes)
<1> DEFINE d == Without(c, e.key)
           stored == Append(d, e)
<1>1. d \in Seq(OtherKeys(S, e.key)) /\ DistinctKeys(d) /\ Weight(d) = Weight(c) - BytesOf(c, e.key)
  BY WithoutKey
<1>2. d \in Seq(S)
  BY <1>1 DEF OtherKeys
<1> HIDE DEF d
<1>3. stored \in Seq(S) /\ DistinctKeys(stored)
  BY <1>1, AppendedKey
<1>4. Weight(stored) = Weight(c) - BytesOf(c, e.key) + e.bytes
  BY <1>1, <1>2, WeightOfAppend
<1> HIDE DEF stored
<1> QED
  BY <1>3, <1>4, EvictionLoop DEF stored, d

\* An entry that becomes the most recently used.
LEMMA TouchingKeepsTheBounds ==
  ASSUME NEW S, Measured(S), NEW c \in Seq(S), NEW k \in CachedKeys(c), NEW bytes,
         NEW maxEntries \in Nat, NEW maxBytes \in Nat, WithinBounds(c, bytes, maxEntries, maxBytes)
  PROVE  Touched(c, k) \in Seq(S) /\ WithinBounds(Touched(c, k), bytes, maxEntries, maxBytes)
<1> DEFINE d == Without(c, k)
           e == Entry(c, k)
<1>1. e \in S /\ e.key = k /\ BytesOf(c, k) = e.bytes
  BY PositionOfKey DEF BytesOf
<1>2. /\ d \in Seq(OtherKeys(S, k)) /\ DistinctKeys(d)
      /\ Weight(d) = Weight(c) - BytesOf(c, k) /\ Len(d) = Len(c) - 1
  BY WithoutKey DEF WithinBounds
<1>3. d \in Seq(S)
  BY <1>2 DEF OtherKeys
<1> HIDE DEF d, e
<1>4. Append(d, e) \in Seq(S) /\ DistinctKeys(Append(d, e))
  BY <1>1, <1>2, AppendedKey
<1>5. Weight(c) \in Nat /\ e.bytes \in Nat /\ Len(c) \in Nat
  BY <1>1, WeightIsNat DEF Measured
<1>6. Weight(Append(d, e)) = Weight(c)
  BY <1>1, <1>2, <1>3, <1>5, WeightOfAppend
<1>7. Len(Append(d, e)) = Len(c)
  BY <1>2, <1>3, <1>5
<1>8. Touched(c, k) = Append(d, e)
  BY DEF Touched, d, e
<1> QED
  BY <1>4, <1>6, <1>7, <1>8 DEF WithinBounds

\* What is left when the entries that are in Y, and no others, are dropped.
LEMMA DroppingKeepsTheBounds ==
  ASSUME NEW S, Measured(S), NEW c \in Seq(S), NEW bytes, NEW maxEntries \in Nat, NEW maxBytes \in Nat,
         WithinBounds(c, bytes, maxEntries, maxBytes), NEW X, NEW Y,
         \A i \in 1 .. Len(c) : c[i] \in X <=> c[i] \notin Y
  PROVE  /\ Sublist(c, X) \in Seq(S)
         /\ WithinBounds(Sublist(c, X), bytes - Weight(Sublist(c, Y)), maxEntries, maxBytes)
<1> DEFINE d == Sublist(c, X)
           y == Sublist(c, Y)
<1>1. d \in Seq(S) /\ y \in Seq(S) /\ Len(d) <= Len(c)
  BY SublistEmbeds, SublistHas
<1>2. PICK f : Embeds(f, d, c, X, Len(c))
  BY SublistEmbeds
<1>3. Weight(d) + Weight(y) = Weight(c)
  BY WeightOfSublists
<1> HIDE DEF d, y
<1>4. Weight(d) \in Nat /\ Weight(y) \in Nat /\ Weight(c) \in Nat /\ Len(c) \in Nat /\ Len(d) \in Nat
  BY <1>1, WeightIsNat
<1>5. DistinctKeys(d)
  <2>1. DOMAIN c = 1 .. Len(c) /\ DOMAIN d = 1 .. Len(d)
    BY <1>1
  <2>2. SUFFICES ASSUME NEW i \in 1 .. Len(d), NEW j \in 1 .. Len(d), d[i].key = d[j].key
                 PROVE  i = j
    BY <2>1 DEF DistinctKeys
  <2>3. /\ f[i] \in 1 .. Len(c) /\ f[j] \in 1 .. Len(c)
        /\ d[i] = c[f[i]] /\ d[j] = c[f[j]]
        /\ i < j => f[i] < f[j]
        /\ j < i => f[j] < f[i]
    BY <1>2 DEF Embeds
  <2>4. f[i] = f[j]
    BY <2>1, <2>2, <2>3 DEF WithinBounds, DistinctKeys
  <2> QED
    BY <1>4, <2>3, <2>4
<1>6. bytes = Weight(c) /\ bytes <= maxBytes /\ Len(c) <= maxEntries
  BY DEF WithinBounds
<1>7. Weight(d) = bytes - Weight(y) /\ Weight(d) <= maxBytes /\ Len(d) <= maxEntries
  BY <1>1, <1>3, <1>4, <1>6
<1> QED
  BY <1>1, <1>5, <1>7 DEF WithinBounds, d, y

\* Entries that only age keep their keys and their sizes.
LEMMA AgeingKeepsTheBounds ==
  ASSUME NEW S, Measured(S), NEW c \in Seq(S), NEW d \in Seq(S), Len(d) = Len(c),
         \A n \in 1 .. Len(c) : d[n].bytes = c[n].bytes /\ d[n].key = c[n].key,
         NEW bytes, NEW maxEntries, NEW maxBytes, WithinBounds(c, bytes, maxEntries, maxBytes)
  PROVE  WithinBounds(d, bytes, maxEntries, maxBytes)
<1>1. Weight(d) = Weight(c)
  BY SameSizesSameWeight
<1>2. DOMAIN c = 1 .. Len(c) /\ DOMAIN d = 1 .. Len(c)
  OBVIOUS
<1> QED
  BY <1>1, <1>2 DEF WithinBounds, DistinctKeys
=============================================================================
