------------------------- MODULE SizedMRUCacheProofs -------------------------
(***************************************************************************)
(* What the operations of a SizedMRUCache do, for every list of entries:   *)
(* they keep the entries to a set that they were in, and keep the account  *)
(* of their sizes exact, within the limit and without a key that is there  *)
(* twice.                                                                  *)
(*                                                                         *)
(* The sum of the sizes is a fold, which the proofs reach through the      *)
(* sums of the prefixes of the list: they exist, because a least list      *)
(* without them would have one, and do not depend on the order.            *)
(***************************************************************************)
EXTENDS SizedMRUCache, FiniteCounting, TLAPS

-------------------------------------------------------------------------------
(* Finite sets, by what the proofs suppose about them.                     *)

LEMMA FiniteCardinality ==
    ASSUME Counting, NEW S, IsFiniteSet(S)
    PROVE  Cardinality(S) \in Nat
BY DEF Counting

LEMMA FiniteEmpty ==
    ASSUME Counting
    PROVE  /\ IsFiniteSet({}) /\ Cardinality({}) = 0
           /\ \A S : IsFiniteSet(S) => (Cardinality(S) = 0 <=> S = {})
BY Zenon DEF Counting

LEMMA FiniteRemove ==
    ASSUME Counting, NEW S, NEW x, IsFiniteSet(S)
    PROVE  /\ IsFiniteSet(S \ {x})
           /\ Cardinality(S \ {x}) = IF x \in S THEN Cardinality(S) - 1 ELSE Cardinality(S)
BY Zenon DEF Counting

LEMMA FiniteSubset ==
    ASSUME Counting, NEW S, IsFiniteSet(S), NEW T \in SUBSET S
    PROVE  /\ IsFiniteSet(T)
           /\ Cardinality(T) <= Cardinality(S)
           /\ Cardinality(S) = Cardinality(T) => S = T
BY Zenon DEF Counting

LEMMA FiniteInterval ==
    ASSUME Counting, NEW a \in Int, NEW b \in Int
    PROVE  /\ IsFiniteSet(a .. b)
           /\ Cardinality(a .. b) = IF a > b THEN 0 ELSE b - a + 1
BY Zenon DEF Counting

\* A set of numbers has a least member.
LEMMA LeastNumber ==
    ASSUME Counting, NEW T, T \subseteq Nat, T # {}
    PROVE  \E n \in T : \A m \in T : n <= m
BY Zenon DEF Counting

-------------------------------------------------------------------------------
(* Sequences, element by element.                                          *)

LEMMA ConcatElements ==
    ASSUME NEW S, NEW a \in Seq(S), NEW b \in Seq(S)
    PROVE  /\ a \o b \in Seq(S)
           /\ Len(a \o b) = Len(a) + Len(b)
           /\ \A i \in 1 .. Len(a) + Len(b) : (a \o b)[i] = IF i <= Len(a) THEN a[i] ELSE b[i - Len(a)]
OBVIOUS

LEMMA SubSeqElements ==
    ASSUME NEW S, NEW s \in Seq(S), NEW m \in 1 .. Len(s) + 1, NEW n \in m - 1 .. Len(s)
    PROVE  /\ SubSeq(s, m, n) \in Seq(S)
           /\ Len(SubSeq(s, m, n)) = n - m + 1
           /\ \A i \in 1 .. n - m + 1 : SubSeq(s, m, n)[i] = s[m + i - 1]
OBVIOUS

LEMMA SameElements ==
    ASSUME NEW S, NEW s \in Seq(S), NEW t \in Seq(S),
           Len(s) = Len(t), \A i \in 1 .. Len(s) : s[i] = t[i]
    PROVE  s = t
OBVIOUS

\* RemoveAt shifts the elements behind position i forward.
LEMMA RemoveAtElems ==
    ASSUME NEW S, NEW s \in Seq(S), NEW i \in 1..Len(s)
    PROVE  /\ RemoveAt(s, i) \in Seq(S)
           /\ Len(RemoveAt(s, i)) = Len(s) - 1
           /\ \A k \in 1..(Len(s) - 1) :
                  RemoveAt(s, i)[k] = IF k < i THEN s[k] ELSE s[k + 1]
<1> DEFINE a == SubSeq(s, 1, i - 1)
           b == SubSeq(s, i + 1, Len(s))
<1>1. /\ a \in Seq(S)
      /\ Len(a) = i - 1
      /\ \A k \in 1..(i - 1) : a[k] = s[k]
  BY SubSeqElements
<1>2. /\ b \in Seq(S)
      /\ Len(b) = Len(s) - i
      /\ \A k \in 1..(Len(s) - i) : b[k] = s[k + i]
  BY SubSeqElements
<1>3. RemoveAt(s, i) = a \o b
  BY DEF RemoveAt
<1> HIDE DEF a, b
<1>4. /\ a \o b \in Seq(S)
      /\ Len(a \o b) = Len(a) + Len(b)
      /\ \A k \in 1..(Len(a) + Len(b)) :
             (a \o b)[k] = IF k <= Len(a) THEN a[k] ELSE b[k - Len(a)]
  BY <1>1, <1>2, ConcatElements, Zenon
<1>5. ASSUME NEW k \in 1..(Len(s) - 1)
      PROVE  (a \o b)[k] = IF k < i THEN s[k] ELSE s[k + 1]
  <2>1. CASE k < i
    BY <2>1, <1>1, <1>2, <1>4
  <2>2. CASE ~(k < i)
    <3>1. k - (i - 1) \in 1..(Len(s) - i) /\ (k - (i - 1)) + i = k + 1
      BY <2>2
    <3>2. (a \o b)[k] = b[k - (i - 1)]
      BY <2>2, <1>1, <1>2, <1>4
    <3> QED BY <3>1, <3>2, <2>2, <1>2
  <2> QED BY <2>1, <2>2, Zenon
<1> QED BY <1>1, <1>2, <1>3, <1>4, <1>5

-------------------------------------------------------------------------------
\* The cache, with entries of any set.

\* A cache, as far as its entries are concerned.
IsCache(c, S) ==
    /\ c = [mMaximumTotalSize |-> c.mMaximumTotalSize, mCurrentSize |-> c.mCurrentSize,
            mStore |-> c.mStore]
    /\ c.mStore \in Seq(S)

\* A cache with another store and account.
LEMMA Updated ==
    ASSUME NEW S, NEW c, IsCache(c, S), NEW s \in Seq(S), NEW n
    PROVE  /\ IsCache([c EXCEPT !.mStore = s, !.mCurrentSize = n], S)
           /\ IsCache([c EXCEPT !.mStore = s], S)
<1> DEFINE d(t, k) == [mMaximumTotalSize |-> c.mMaximumTotalSize, mCurrentSize |-> k, mStore |-> t]
<1>1. c = d(c.mStore, c.mCurrentSize)
  BY DEF IsCache
<1>2. \A t, k : [d(t, k) EXCEPT !.mStore = s] = d(s, k)
  OBVIOUS
<1>3. \A t, k : [d(t, k) EXCEPT !.mCurrentSize = n] = d(t, n)
  OBVIOUS
<1>4. \A k : IsCache(d(s, k), S)
  BY DEF IsCache
<1> HIDE DEF d
<1>5. [c EXCEPT !.mStore = s] = d(s, c.mCurrentSize)
  BY <1>1, <1>2, Zenon
<1>6. [c EXCEPT !.mStore = s, !.mCurrentSize = n] = [[c EXCEPT !.mStore = s] EXCEPT !.mCurrentSize = n]
  BY Zenon
<1>7. [c EXCEPT !.mStore = s, !.mCurrentSize = n] = [d(s, c.mCurrentSize) EXCEPT !.mCurrentSize = n]
  BY <1>5, <1>6, Zenon
<1>8. [c EXCEPT !.mStore = s, !.mCurrentSize = n] = d(s, n)
  BY <1>3, <1>7, Zenon
<1>9. IsCache([c EXCEPT !.mStore = s, !.mCurrentSize = n], S)
  BY <1>4, <1>8, Zenon
<1>10. IsCache([c EXCEPT !.mStore = s], S)
  BY <1>4, <1>5, Zenon
<1> QED
  BY <1>9, <1>10

\* The Min of the library is an element of a set of naturals that has one.
LEMMA MinIsElement ==
    ASSUME Counting, NEW T \in SUBSET Nat, T # {}
    PROVE  Min(T) \in T
<1>1. PICK x \in T : \A y \in T : x <= y
  BY LeastNumber, Zenon
<1> QED
  BY <1>1, Zenon DEF Min

\* Taking the entry of a key out, and evicting, leave entries of S.
LEMMA PositionFound ==
    ASSUME NEW S, NEW c, IsCache(c, S), NEW key, Has(c, key)
    PROVE  /\ Position(c, key) \in 1 .. Len(c.mStore)
           /\ Peek(c, key) \in S
           /\ Peek(c, key).key = key
<1>1. DOMAIN c.mStore = 1 .. Len(c.mStore) /\ \A i \in DOMAIN c.mStore : c.mStore[i] \in S
  BY DEF IsCache
<1>2. Position(c, key) \in DOMAIN c.mStore /\ c.mStore[Position(c, key)].key = key
  BY DEF Has, Position
<1> QED
  BY <1>1, <1>2 DEF Peek

LEMMA OthersInSeq ==
    ASSUME NEW S, NEW c, IsCache(c, S), NEW key, Has(c, key)
    PROVE  Others(c, key) \in Seq(S)
<1> DEFINE s == c.mStore
           i == Position(c, key)
<1>1. s \in Seq(S) /\ i \in 1 .. Len(s)
  BY PositionFound DEF IsCache
<1>2. Others(c, key) = SubSeq(s, 1, i - 1) \o SubSeq(s, i + 1, Len(s))
  BY DEF Others, RemoveAt
<1> HIDE DEF s, i
<1>3. SubSeq(s, 1, i - 1) \in Seq(S) /\ SubSeq(s, i + 1, Len(s)) \in Seq(S)
  BY <1>1, SubSeqElements
<1> QED
  BY <1>2, <1>3, ConcatElements

LEMMA shrinkToSizeCache ==
    ASSUME Counting, NEW S, NEW c, IsCache(c, S), NEW limit
    PROVE  IsCache(shrinkToSize(c, limit), S)
<1> DEFINE len == Len(c.mStore)
           T == {n \in 0 .. len : Evict(c, n).mCurrentSize <= limit \/ n = len}
           n == Min(T)
<1>1. len \in Nat
  BY DEF IsCache
<1>2. len \in T /\ T \in SUBSET Nat
  <2> HIDE DEF len
  <2> QED BY <1>1
<1>3. n \in 0 .. len
  <2>1. n \in T
    <3> HIDE DEF T
    <3> QED BY <1>2, MinIsElement
  <2> QED BY <2>1
<1>4. shrinkToSize(c, limit) = Evict(c, n)
  BY DEF shrinkToSize
<1> HIDE DEF n, T
<1>5. SubSeq(c.mStore, 1, len - n) \in Seq(S)
  BY <1>1, <1>3, SubSeqElements DEF IsCache
<1>6. IsCache(Evict(c, n), S)
  BY <1>5, Updated, Zenon DEF Evict
<1> QED
  BY <1>4, <1>6

\* The operations of the cache keep entries of S, given entries of S.
LEMMA getCache ==
    ASSUME NEW S, NEW c, IsCache(c, S), NEW key
    PROVE  IsCache(get(c, key), S)
<1>1. CASE Has(c, key)
  <2>1. <<Peek(c, key)>> \in Seq(S) /\ Others(c, key) \in Seq(S)
    BY <1>1, PositionFound, OthersInSeq
  <2>2. <<Peek(c, key)>> \o Others(c, key) \in Seq(S)
    BY <2>1, ConcatElements
  <2>3. get(c, key) = [c EXCEPT !.mStore = <<Peek(c, key)>> \o Others(c, key)]
    BY <1>1, Zenon DEF get
  <2> QED
    BY <2>2, <2>3, Updated, Zenon
<1>2. CASE ~Has(c, key)
  BY <1>2, Zenon DEF get
<1> QED
  BY <1>1, <1>2

LEMMA eraseByKeyCache ==
    ASSUME NEW S, NEW c, IsCache(c, S), NEW key
    PROVE  IsCache(eraseByKey(c, key), S)
<1>1. CASE Has(c, key)
  <2>1. Others(c, key) \in Seq(S)
    BY <1>1, OthersInSeq
  <2> DEFINE n == c.mCurrentSize - Peek(c, key).size
             o == Others(c, key)
  <2>2. eraseByKey(c, key) = [c EXCEPT !.mStore = o, !.mCurrentSize = n]
    BY <1>1, Zenon DEF eraseByKey
  <2> HIDE DEF n, o
  <2>3. o \in Seq(S)
    BY <2>1 DEF o
  <2>4. IsCache([c EXCEPT !.mStore = o, !.mCurrentSize = n], S)
    BY <2>3, Updated, Zenon
  <2> QED
    BY <2>2, <2>4, Zenon
<1>2. CASE ~Has(c, key)
  BY <1>2, Zenon DEF eraseByKey
<1> QED
  BY <1>1, <1>2

LEMMA putCache ==
    ASSUME Counting, NEW S, NEW c, IsCache(c, S), NEW entry \in S
    PROVE  IsCache(put(c, entry), S)
<1> DEFINE e == eraseByKey(c, entry.key)
           d == [e EXCEPT !.mStore = <<entry>> \o @, !.mCurrentSize = @ + entry.size]
<1>1. IsCache(e, S)
  BY eraseByKeyCache, Zenon
<1>2. <<entry>> \o e.mStore \in Seq(S)
  <2>1. <<entry>> \in Seq(S) /\ e.mStore \in Seq(S)
    BY <1>1 DEF IsCache
  <2> QED
    BY <2>1, ConcatElements
<1>3. IsCache(d, S)
  <2> HIDE DEF e
  <2> QED BY <1>1, <1>2, Updated, Zenon
<1>4. put(c, entry) \in {c, shrinkToSize(d, c.mMaximumTotalSize)}
  BY Zenon DEF put
<1> HIDE DEF d
<1> QED
  BY <1>3, <1>4, shrinkToSizeCache, Zenon

LEMMA clearCache ==
    ASSUME NEW S, NEW c, IsCache(c, S), NEW limit
    PROVE  IsCache(clear(c), S) /\ IsCache(resize(c, limit), S)
<1>1. << >> \in Seq(S)
  OBVIOUS
<1>2. IsCache(clear(c), S)
  BY <1>1, Updated, Zenon DEF clear
<1>3. IsCache([clear(c) EXCEPT !.mMaximumTotalSize = limit], S)
  <2> DEFINE d == clear(c)
  <2> HIDE DEF d
  <2>1. d = [mMaximumTotalSize |-> d.mMaximumTotalSize, mCurrentSize |-> d.mCurrentSize,
             mStore |-> d.mStore] /\ d.mStore \in Seq(S)
    BY <1>2 DEF IsCache, d
  <2>2. [d EXCEPT !.mMaximumTotalSize = limit] =
            [mMaximumTotalSize |-> limit, mCurrentSize |-> d.mCurrentSize, mStore |-> d.mStore]
    BY <2>1
  <2>3. IsCache([d EXCEPT !.mMaximumTotalSize = limit], S)
    BY <2>1, <2>2 DEF IsCache
  <2> QED
    BY <2>3 DEF d
<1> QED
  BY <1>2, <1>3 DEF resize

-------------------------------------------------------------------------------
\* Sums over a finite set, in whatever order.

First(t) == CHOOSE x \in t : TRUE

\* Counting up to n.
LEMMA UpTo ==
    ASSUME Counting, NEW n \in Nat, NEW T, 0 \in T, \A k \in 0 .. n - 1 : k \in T => k + 1 \in T
    PROVE  \A k \in 0 .. n : k \in T
<1>. DEFINE B == {k \in 0 .. n : k \notin T}
<1>. SUFFICES ASSUME B # {} PROVE FALSE
  OBVIOUS
<1>1. B \subseteq Nat
  OBVIOUS
<1>2. PICK k \in B : \A j \in B : k <= j
  <2>. HIDE DEF B
  <2>. QED
    BY <1>1, LeastNumber, Zenon
<1>3. k \in 0 .. n /\ k # 0 /\ k \notin T
  BY <1>2
<1>4. k - 1 \in 0 .. n - 1 /\ k - 1 + 1 = k
  BY <1>3
<1>5. k - 1 \notin B
  BY <1>2, <1>4
<1>6. k - 1 \in T
  BY <1>4, <1>5
<1>. QED
  BY <1>3, <1>4, <1>6

LEMMA Without ==
    ASSUME Counting, NEW D, IsFiniteSet(D), NEW t \in SUBSET D, NEW x \in t
    PROVE  /\ t \ {x} \in SUBSET D /\ Cardinality(t) \in Nat
           /\ Cardinality(t \ {x}) \in Nat /\ Cardinality(t \ {x}) = Cardinality(t) - 1
<1>1. IsFiniteSet(t)
  BY FiniteSubset
<1>. QED
  BY <1>1, FiniteRemove, FiniteCardinality

\* The sums of w over the sets of up to n members, taking one member after another.
SumsTo(g, D, w, n) ==
    /\ g[{}] = 0
    /\ \A t \in SUBSET D : t # {} /\ Cardinality(t) <= n => g[t] = g[t \ {First(t)}] + w[First(t)]

Sums(g, D, w) ==
    /\ g \in [SUBSET D -> Nat] /\ g[{}] = 0
    /\ \A t \in SUBSET D : t # {} => g[t] = g[t \ {First(t)}] + w[First(t)]

LEMMA FirstIn ==
    ASSUME NEW t, t # {}
    PROVE  First(t) \in t
BY DEF First

LEMMA SumsLonger ==
    ASSUME Counting, NEW D, IsFiniteSet(D), NEW w \in [D -> Nat], NEW n \in Nat,
           NEW f \in [SUBSET D -> Nat], SumsTo(f, D, w, n)
    PROVE  \E g \in [SUBSET D -> Nat] : SumsTo(g, D, w, n + 1)
<1>. DEFINE g == [t \in SUBSET D |-> IF Cardinality(t) = n + 1 THEN f[t \ {First(t)}] + w[First(t)] ELSE f[t]]
<1>1. \A t \in SUBSET D : Cardinality(t) = n + 1 => t # {}
  <2>1. Cardinality({}) = 0
    BY FiniteEmpty
  <2>2. n + 1 # 0
    OBVIOUS
  <2>. QED
    BY <2>1, <2>2, Zenon
<1>2. \A t \in SUBSET D : t # {} =>
          /\ First(t) \in D /\ t \ {First(t)} \in SUBSET D
          /\ Cardinality(t) \in Nat /\ Cardinality(t \ {First(t)}) = Cardinality(t) - 1
  BY FirstIn, Without, Zenon
<1>3. g \in [SUBSET D -> Nat]
  <2>. SUFFICES ASSUME NEW t \in SUBSET D, Cardinality(t) = n + 1
                PROVE  f[t \ {First(t)}] + w[First(t)] \in Nat
    OBVIOUS
  <2>1. First(t) \in D /\ t \ {First(t)} \in SUBSET D
    BY <1>1, <1>2
  <2>2. f[t \ {First(t)}] \in Nat /\ w[First(t)] \in Nat
    BY <2>1
  <2>. QED
    BY <2>2
<1>4. g[{}] = 0
  <2>1. {} \in SUBSET D /\ Cardinality({}) # n + 1
    BY <1>1
  <2>. QED
    BY <2>1 DEF SumsTo
<1>5. ASSUME NEW t \in SUBSET D, t # {}, Cardinality(t) <= n + 1
      PROVE  g[t] = g[t \ {First(t)}] + w[First(t)]
  <2>1. t \ {First(t)} \in SUBSET D /\ Cardinality(t \ {First(t)}) # n + 1 /\ Cardinality(t) \in Nat
    <3>1. t \ {First(t)} \in SUBSET D /\ Cardinality(t) \in Nat
          /\ Cardinality(t \ {First(t)}) = Cardinality(t) - 1
      BY <1>2, <1>5, Zenon
    <3>. QED
      BY <1>5, <3>1
  <2>2. g[t \ {First(t)}] = f[t \ {First(t)}]
    BY <2>1
  <2>3. CASE Cardinality(t) = n + 1
    BY <2>2, <2>3
  <2>4. CASE Cardinality(t) # n + 1
    <3>1. Cardinality(t) <= n
      BY <1>5, <2>1, <2>4
    <3>2. g[t] = f[t]
      BY <2>4
    <3>. QED
      BY <1>5, <2>2, <3>1, <3>2 DEF SumsTo
  <2>. QED
    BY <2>3, <2>4
<1>. HIDE DEF g
<1>6. SumsTo(g, D, w, n + 1)
  BY <1>4, <1>5, Zenon DEF SumsTo
<1>. QED
  BY <1>3, <1>6

LEMMA SumsExist ==
    ASSUME Counting, NEW D, IsFiniteSet(D), NEW w \in [D -> Nat]
    PROVE  \E g : Sums(g, D, w)
<1>. DEFINE Some(n) == \E g \in [SUBSET D -> Nat] : SumsTo(g, D, w, n)
            T == {n \in Nat : Some(n)}
            c == Cardinality(D)
<1>1. Some(0)
  <2>. DEFINE f == [t \in SUBSET D |-> 0]
  <2>1. \A t \in SUBSET D : t # {} => ~(Cardinality(t) <= 0)
    <3>. SUFFICES ASSUME NEW t \in SUBSET D, t # {} PROVE ~(Cardinality(t) <= 0)
      OBVIOUS
    <3>1. Cardinality(t) \in Nat /\ Cardinality(t \ {First(t)}) \in Nat
          /\ Cardinality(t \ {First(t)}) = Cardinality(t) - 1
      BY FirstIn, Without, Zenon
    <3>. QED
      BY <3>1
  <2>2. f \in [SUBSET D -> Nat] /\ SumsTo(f, D, w, 0)
    BY <2>1 DEF SumsTo
  <2>. QED
    BY <2>2, Zenon
<1>2. ASSUME NEW n \in Nat, Some(n) PROVE Some(n + 1)
  BY <1>2, SumsLonger, Zenon
<1>. HIDE DEF Some
<1>3. c \in Nat
  BY FiniteCardinality
<1>4. 0 \in T /\ \A k \in 0 .. c - 1 : k \in T => k + 1 \in T
  BY <1>1, <1>2, <1>3
<1>5. c \in T
  <2>1. \A k \in 0 .. c : k \in T
    <3>. HIDE DEF T, c
    <3>. QED
      BY <1>3, <1>4, UpTo
  <2>. QED
    BY <1>3, <2>1
<1>6. PICK g \in [SUBSET D -> Nat] : SumsTo(g, D, w, c)
  BY <1>5, Zenon DEF Some
<1>7. \A t \in SUBSET D : Cardinality(t) <= c
  BY FiniteSubset
<1>8. Sums(g, D, w)
  BY <1>6, <1>7, Zenon DEF SumsTo, Sums
<1>. QED
  BY <1>8

\* Any member may be the one that is taken first.
AnyOrder(g, D, w) == \A t \in SUBSET D : \A x \in t : g[t] = g[t \ {x}] + w[x]

LEMMA AnyFirst ==
    ASSUME Counting, NEW D, IsFiniteSet(D), NEW w \in [D -> Nat], NEW g, Sums(g, D, w)
    PROVE  AnyOrder(g, D, w)
<1>. DEFINE Good(t) == \A x \in t : g[t] = g[t \ {x}] + w[x]
            T == {n \in Nat : \E t \in SUBSET D : Cardinality(t) = n /\ ~Good(t)}
<1>. SUFFICES ASSUME NEW t0 \in SUBSET D, ~Good(t0) PROVE FALSE
  BY Zenon DEF AnyOrder
<1>1. T # {} /\ T \subseteq Nat
  <2>1. Cardinality(t0) \in Nat
    BY Without, Zenon
  <2>. QED
    BY <2>1
<1>2. PICK n \in T : \A m \in T : n <= m
  <2>. HIDE DEF T
  <2>. QED
    BY <1>1, LeastNumber, Zenon
<1>3. PICK t \in SUBSET D : Cardinality(t) = n /\ ~Good(t)
  BY <1>2
<1>4. \A s \in SUBSET D : Cardinality(s) \in Nat /\ Cardinality(s) < n => Good(s)
  <2>. SUFFICES ASSUME NEW s \in SUBSET D, Cardinality(s) \in Nat, Cardinality(s) < n, ~Good(s) PROVE FALSE
    BY Zenon
  <2>1. Cardinality(s) \in T
    OBVIOUS
  <2>2. n <= Cardinality(s) /\ n \in Nat
    BY <1>2, <2>1, Zenon
  <2>. QED
    BY <2>2
<1>5. PICK x \in t : g[t] # g[t \ {x}] + w[x]
  BY <1>3, Zenon
<1>. HIDE DEF T
<1>. DEFINE y == First(t)
<1>6. y \in t /\ g[t] = g[t \ {y}] + w[y]
  BY <1>5, FirstIn DEF Sums
<1>. HIDE DEF y
<1>7. x # y
  BY <1>5, <1>6
<1>8. /\ t \ {x} \in SUBSET D /\ Cardinality(t \ {x}) \in Nat /\ Cardinality(t \ {x}) = n - 1
      /\ t \ {y} \in SUBSET D /\ Cardinality(t \ {y}) \in Nat /\ Cardinality(t \ {y}) = n - 1
      /\ n \in Nat
  BY <1>3, <1>5, <1>6, Without
<1>9. Good(t \ {x}) /\ Good(t \ {y})
  <2>1. n - 1 < n
    BY <1>8
  <2>. HIDE DEF Good
  <2>. QED
    BY <1>4, <1>8, <2>1
<1>10. x \in t \ {y} /\ y \in t \ {x}
  BY <1>5, <1>6, <1>7
<1>11. g[t \ {x}] = g[(t \ {x}) \ {y}] + w[y] /\ g[t \ {y}] = g[(t \ {y}) \ {x}] + w[x]
  BY <1>9, <1>10, Zenon
<1>12. (t \ {x}) \ {y} = (t \ {y}) \ {x}
  OBVIOUS
<1>13. g[(t \ {x}) \ {y}] \in Nat /\ w[x] \in Nat /\ w[y] \in Nat
  BY <1>8, <1>10 DEF Sums
<1>14. PICK m \in Nat, i \in Nat, j \in Nat : m = g[(t \ {x}) \ {y}] /\ i = w[x] /\ j = w[y]
  BY <1>13
<1>15. g[t \ {x}] = m + j /\ g[t \ {y}] = m + i
  BY <1>11, <1>12, <1>14, Zenon
<1>16. g[t] = (m + i) + j /\ g[t \ {x}] + w[x] = (m + j) + i
  BY <1>6, <1>14, <1>15, Zenon
<1>. QED
  BY <1>5, <1>16

\* The entries have sizes.
Sized(S) == \A e \in S : e.size \in Nat

SizesRounds(g, s) ==
    g = [t \in SUBSET DOMAIN s |-> IF t = {} THEN 0 ELSE g[t \ {First(t)}] + s[First(t)].size]

LEMMA SizesRound ==
    ASSUME NEW s
    PROVE  Sizes(s) = (CHOOSE g : SizesRounds(g, s))[DOMAIN s]
BY DEF Sizes, FoldSeq, FoldFunction, FoldFunctionOnSet, MapThenFoldSet, First, SizesRounds

\* p[k] is the sum of the sizes of the first k entries.
PrefixSums(p, s) ==
    /\ p \in [0 .. Len(s) -> Nat] /\ p[0] = 0
    /\ \A k \in 0 .. Len(s) - 1 : p[k + 1] = p[k] + s[k + 1].size

LEMMA PrefixSumsExist ==
    ASSUME Counting, NEW S, Sized(S), NEW s \in Seq(S)
    PROVE  \E p : PrefixSums(p, s) /\ Sizes(s) = p[Len(s)]
<1>. DEFINE D == DOMAIN s
            w == [i \in D |-> s[i].size]
<1>1. Len(s) \in Nat /\ D = 1 .. Len(s)
  OBVIOUS
<1>2. w \in [D -> Nat]
  BY <1>1 DEF Sized
<1>3. IsFiniteSet(D)
  BY <1>1, FiniteInterval
<1>4. PICK h : Sums(h, D, w)
  <2>. HIDE DEF D, w
  <2>. QED
    BY <1>2, <1>3, SumsExist
<1>5. \A t \in SUBSET D : t # {} => First(t) \in D /\ w[First(t)] = s[First(t)].size
  BY FirstIn
<1>6. SizesRounds(h, s)
  <2>1. h = [t \in SUBSET D |-> h[t]]
    BY <1>4 DEF Sums
  <2>2. \A t \in SUBSET D : h[t] = IF t = {} THEN 0 ELSE h[t \ {First(t)}] + s[First(t)].size
    BY <1>4, <1>5, Zenon DEF Sums
  <2>. QED
    BY <2>1, <2>2, Zenon DEF SizesRounds
<1>. DEFINE g == CHOOSE f : SizesRounds(f, s)
<1>7. SizesRounds(g, s)
  BY <1>6, Zenon
<1>8. Sizes(s) = g[D]
  BY SizesRound
<1>. HIDE DEF g
<1>9. \A t \in SUBSET D : g[t] = IF t = {} THEN 0 ELSE g[t \ {First(t)}] + s[First(t)].size
  BY <1>7, Zenon DEF SizesRounds
<1>10. \A t \in SUBSET D : g[t] = h[t]
  <2>. DEFINE T == {n \in Nat : \A t \in SUBSET D : Cardinality(t) = n => g[t] = h[t]}
              c == Cardinality(D)
  <2>1. c \in Nat
    BY <1>3, FiniteCardinality
  <2>2. 0 \in T
    <3>1. ASSUME NEW t \in SUBSET D, Cardinality(t) = 0 PROVE g[t] = h[t]
      <4>1. t = {}
        BY <1>3, <3>1, FiniteSubset, FiniteEmpty
      <4>. QED
        BY <1>4, <1>9, <4>1, Zenon DEF Sums
    <3>. QED
      BY <3>1
  <2>3. ASSUME NEW k \in 0 .. c - 1, k \in T PROVE k + 1 \in T
    <3>1. ASSUME NEW t \in SUBSET D, Cardinality(t) = k + 1 PROVE g[t] = h[t]
      <4>1. t # {}
        <5>1. Cardinality({}) = 0 /\ k + 1 # 0
          BY <2>1, FiniteEmpty
        <5>. QED
          BY <3>1, <5>1, Zenon
      <4>. DEFINE u == t \ {First(t)}
      <4>2. u \in SUBSET D /\ Cardinality(u) = k
        BY <1>3, <2>1, <3>1, <4>1, FirstIn, Without
      <4>3. g[u] = h[u]
        BY <2>3, <4>2
      <4>4. g[t] = g[u] + s[First(t)].size
        BY <1>9, <4>1, Zenon
      <4>5. h[t] = h[u] + s[First(t)].size
        BY <1>4, <1>5, <4>1, Zenon DEF Sums
      <4>. QED
        BY <4>3, <4>4, <4>5, Zenon
    <3>. QED
      BY <2>1, <3>1
  <2>4. \A k \in 0 .. c : k \in T
    <3>. HIDE DEF T, c
    <3>. QED
      BY <2>1, <2>2, <2>3, UpTo
  <2>5. ASSUME NEW t \in SUBSET D PROVE g[t] = h[t]
    <3>1. Cardinality(t) \in 0 .. c
      BY <1>3, <2>1, FiniteSubset, FiniteCardinality
    <3>. QED
      BY <2>4, <3>1
  <2>. QED
    BY <2>5
<1>16. AnyOrder(h, D, w)
  <2>. HIDE DEF D, w
  <2>. QED
    BY <1>2, <1>3, <1>4, AnyFirst
<1>. DEFINE p == [k \in 0 .. Len(s) |-> h[1 .. k]]
<1>11. p[0] = 0
  BY <1>1, <1>4 DEF Sums
<1>12. p \in [0 .. Len(s) -> Nat]
  BY <1>1, <1>4 DEF Sums
<1>13. ASSUME NEW k \in 0 .. Len(s) - 1 PROVE p[k + 1] = p[k] + s[k + 1].size
  <2>1. k + 1 \in 1 .. k + 1 /\ 1 .. k + 1 \in SUBSET D /\ (1 .. k + 1) \ {k + 1} = 1 .. k /\ k + 1 \in D
    BY <1>1
  <2>2. h[1 .. k + 1] = h[(1 .. k + 1) \ {k + 1}] + w[k + 1]
    BY <1>16, <2>1, Zenon DEF AnyOrder
  <2>3. w[k + 1] = s[k + 1].size
    BY <2>1
  <2>4. p[k + 1] = h[1 .. k + 1] /\ p[k] = h[1 .. k]
    BY <1>1
  <2>. HIDE DEF p, w, D
  <2>. QED
    BY <2>1, <2>2, <2>3, <2>4, Zenon
<1>14. p[Len(s)] = Sizes(s)
  <2>1. p[Len(s)] = h[D]
    BY <1>1
  <2>. QED
    BY <1>8, <1>10, <2>1
<1>. HIDE DEF p
<1>15. PrefixSums(p, s)
  BY <1>11, <1>12, <1>13 DEF PrefixSums
<1>. QED
  BY <1>14, <1>15

LEMMA SamePrefix ==
    ASSUME Counting, NEW S, Sized(S), NEW a \in Seq(S), NEW b \in Seq(S), NEW p, PrefixSums(p, a \o b),
           NEW q, PrefixSums(q, a)
    PROVE  p[Len(a)] = q[Len(a)]
<1>. DEFINE T == {k \in Nat : p[k] = q[k]}
<1>1. /\ Len(a) \in Nat /\ Len(b) \in Nat /\ Len(a \o b) = Len(a) + Len(b)
      /\ \A k \in 1 .. Len(a) : (a \o b)[k] = a[k]
  OBVIOUS
<1>2. 0 \in T
  BY DEF PrefixSums
<1>3. \A k \in 0 .. Len(a) - 1 : k \in T => k + 1 \in T
  <2>. SUFFICES ASSUME NEW k \in 0 .. Len(a) - 1, k \in T PROVE k + 1 \in T
    OBVIOUS
  <2>1. k + 1 \in 1 .. Len(a) /\ k \in 0 .. Len(a \o b) - 1 /\ k + 1 \in Nat
    BY <1>1
  <2>2. p[k + 1] = p[k] + (a \o b)[k + 1].size /\ q[k + 1] = q[k] + a[k + 1].size
    BY <2>1 DEF PrefixSums
  <2>3. (a \o b)[k + 1] = a[k + 1]
    BY <1>1, <2>1
  <2>4. p[k] = q[k]
    OBVIOUS
  <2>5. p[k + 1] = q[k + 1]
    BY <2>2, <2>3, <2>4, Zenon
  <2>. QED
    BY <2>1, <2>5
<1>4. \A k \in 0 .. Len(a) : k \in T
  <2>. HIDE DEF T
  <2>. QED
    BY <1>1, <1>2, <1>3, UpTo, Zenon
<1>. QED
  BY <1>1, <1>4

LEMMA NextPrefix ==
    ASSUME Counting, NEW S, Sized(S), NEW a \in Seq(S), NEW b \in Seq(S), NEW p, PrefixSums(p, a \o b),
           NEW q, PrefixSums(q, b)
    PROVE  p[Len(a) + Len(b)] = p[Len(a)] + q[Len(b)]
<1>. DEFINE T == {k \in Nat : p[Len(a) + k] = p[Len(a)] + q[k]}
<1>1. /\ Len(a) \in Nat /\ Len(b) \in Nat /\ Len(a \o b) = Len(a) + Len(b)
      /\ \A k \in 1 .. Len(b) : (a \o b)[Len(a) + k] = b[k] /\ b[k] \in S
  OBVIOUS
<1>2. 0 \in T
  <2>1. p[Len(a)] \in Nat /\ q[0] = 0 /\ Len(a) + 0 = Len(a)
    BY <1>1 DEF PrefixSums
  <2>2. p[Len(a) + 0] = p[Len(a)] + q[0]
    BY <2>1
  <2>. QED
    BY <2>2
<1>3. \A k \in 0 .. Len(b) - 1 : k \in T => k + 1 \in T
  <2>. SUFFICES ASSUME NEW k \in 0 .. Len(b) - 1, k \in T PROVE k + 1 \in T
    OBVIOUS
  <2>1. /\ k + 1 \in 1 .. Len(b) /\ Len(a) + k \in 0 .. Len(a \o b) - 1 /\ k + 1 \in Nat
        /\ (Len(a) + k) + 1 = Len(a) + (k + 1)
    BY <1>1
  <2>2. /\ p[(Len(a) + k) + 1] = p[Len(a) + k] + (a \o b)[(Len(a) + k) + 1].size
        /\ q[k + 1] = q[k] + b[k + 1].size
    BY <2>1 DEF PrefixSums
  <2>3. (a \o b)[Len(a) + (k + 1)] = b[k + 1] /\ b[k + 1] \in S
    BY <1>1, <2>1
  <2>4. p[Len(a) + k] = p[Len(a)] + q[k]
    OBVIOUS
  <2>5. p[Len(a) + (k + 1)] = (p[Len(a)] + q[k]) + b[k + 1].size
    BY <2>1, <2>2, <2>3, <2>4, Zenon
  <2>6. p[Len(a)] \in Nat /\ q[k] \in Nat /\ b[k + 1].size \in Nat
    <3>1. Len(a) \in 0 .. Len(a \o b) /\ k \in 0 .. Len(b)
      BY <1>1
    <3>2. p[Len(a)] \in Nat /\ q[k] \in Nat
      BY <3>1, Zenon DEF PrefixSums
    <3>3. b[k + 1].size \in Nat
      BY <2>3, Zenon DEF Sized
    <3>. QED
      BY <3>2, <3>3, Zenon
  <2>7. (p[Len(a)] + q[k]) + b[k + 1].size = p[Len(a)] + (q[k] + b[k + 1].size)
    BY <2>6
  <2>8. p[Len(a) + (k + 1)] = p[Len(a)] + q[k + 1]
    BY <2>2, <2>5, <2>7, Zenon
  <2>. QED
    BY <2>1, <2>8
<1>4. \A k \in 0 .. Len(b) : k \in T
  <2>. HIDE DEF T
  <2>. QED
    BY <1>1, <1>2, <1>3, UpTo, Zenon
<1>. QED
  BY <1>1, <1>4

LEMMA PrefixSumEnd ==
    ASSUME NEW s, Len(s) \in Nat, NEW p, PrefixSums(p, s)
    PROVE  p[Len(s)] \in Nat
<1>1. Len(s) \in 0 .. Len(s) /\ p \in [0 .. Len(s) -> Nat]
  BY DEF PrefixSums
<1>. QED
  BY <1>1, Zenon

LEMMA SizesConcat ==
    ASSUME Counting, NEW S, Sized(S), NEW a \in Seq(S), NEW b \in Seq(S)
    PROVE  /\ Sizes(a) \in Nat /\ Sizes(b) \in Nat /\ Sizes(a \o b) = Sizes(a) + Sizes(b)
<1>1. a \o b \in Seq(S) /\ Len(a \o b) = Len(a) + Len(b) /\ Len(a) \in Nat /\ Len(b) \in Nat
  BY ConcatElements
<1>2. PICK p : PrefixSums(p, a \o b) /\ Sizes(a \o b) = p[Len(a \o b)]
  BY <1>1, PrefixSumsExist, Zenon
<1>3. PICK q : PrefixSums(q, a) /\ Sizes(a) = q[Len(a)]
  BY PrefixSumsExist
<1>4. PICK r : PrefixSums(r, b) /\ Sizes(b) = r[Len(b)]
  BY PrefixSumsExist
<1>5. p[Len(a)] = q[Len(a)]
  BY <1>2, <1>3, SamePrefix
<1>6. p[Len(a) + Len(b)] = p[Len(a)] + r[Len(b)]
  BY <1>2, <1>4, NextPrefix
<1>7. q[Len(a)] \in Nat /\ r[Len(b)] \in Nat
  BY <1>1, <1>3, <1>4, PrefixSumEnd, Zenon
<1>. QED
  BY <1>1, <1>2, <1>3, <1>4, <1>5, <1>6, <1>7

LEMMA SizesOne ==
    ASSUME Counting, NEW S, Sized(S), NEW e \in S
    PROVE  Sizes(<<e>>) = e.size /\ Sizes(<< >>) = 0
<1>1. <<e>> \in Seq(S) /\ Len(<<e>>) = 1 /\ << >> \in Seq(S) /\ Len(<< >>) = 0 /\ <<e>>[1] = e
  OBVIOUS
<1>2. PICK p : PrefixSums(p, <<e>>) /\ Sizes(<<e>>) = p[Len(<<e>>)]
  BY <1>1, PrefixSumsExist, Zenon
<1>3. PICK q : PrefixSums(q, << >>) /\ Sizes(<< >>) = q[Len(<< >>)]
  BY <1>1, PrefixSumsExist, Zenon
<1>4. p[1] = p[0] + <<e>>[1].size /\ p[0] = 0 /\ q[0] = 0
  BY <1>1, <1>2, <1>3 DEF PrefixSums
<1>5. e.size \in Nat
  BY DEF Sized
<1>. QED
  BY <1>1, <1>2, <1>3, <1>4, <1>5

LEMMA SizesEmpty ==
    ASSUME Counting
    PROVE  Sizes(<< >>) = 0
<1>. DEFINE S == {n \in {} : TRUE}
<1>1. << >> \in Seq(S) /\ Len(<< >>) = 0 /\ Sized(S)
  BY DEF Sized
<1>2. PICK q : PrefixSums(q, << >>) /\ Sizes(<< >>) = q[Len(<< >>)]
  BY <1>1, PrefixSumsExist, Zenon
<1>. QED
  BY <1>1, <1>2 DEF PrefixSums

LEMMA ConcatIs ==
    ASSUME NEW S, NEW a \in Seq(S), NEW b \in Seq(S), NEW c \in Seq(S), Len(c) = Len(a) + Len(b),
           \A k \in 1 .. Len(a) : c[k] = a[k], \A k \in 1 .. Len(b) : c[Len(a) + k] = b[k]
    PROVE  c = a \o b
<1>1. /\ a \o b \in Seq(S) /\ Len(a \o b) = Len(c)
      /\ \A i \in 1 .. Len(c) : (a \o b)[i] = IF i <= Len(a) THEN a[i] ELSE b[i - Len(a)]
  BY ConcatElements
<1>2. ASSUME NEW i \in 1 .. Len(c) PROVE (a \o b)[i] = c[i]
  <2>1. CASE i <= Len(a)
    BY <1>1, <2>1
  <2>2. CASE ~(i <= Len(a))
    <3>1. i - Len(a) \in 1 .. Len(b) /\ Len(a) + (i - Len(a)) = i
      BY <2>2
    <3>. QED
      BY <1>1, <2>2, <3>1
  <2>. QED
    BY <2>1, <2>2
<1>. QED
  BY <1>1, <1>2, SameElements

\* A list is a front and a tail.
LEMMA SizesSplit ==
    ASSUME Counting, NEW S, Sized(S), NEW s \in Seq(S), NEW k \in 0 .. Len(s)
    PROVE  /\ SubSeq(s, 1, k) \in Seq(S)
           /\ Sizes(SubSeq(s, 1, k)) \in Nat /\ Sizes(SubSeq(s, k + 1, Len(s))) \in Nat
           /\ Sizes(s) = Sizes(SubSeq(s, 1, k)) + Sizes(SubSeq(s, k + 1, Len(s)))
<1>. DEFINE a == SubSeq(s, 1, k)
            b == SubSeq(s, k + 1, Len(s))
<1>1. /\ a \in Seq(S) /\ Len(a) = k
      /\ \A i \in 1 .. k : a[i] = s[i]
  BY SubSeqElements
<1>2. /\ b \in Seq(S) /\ Len(b) = Len(s) - k
      /\ \A i \in 1 .. Len(s) - k : b[i] = s[k + i]
  BY SubSeqElements
<1>. HIDE DEF a, b
<1>3. Len(s) = Len(a) + Len(b) /\ \A i \in 1 .. Len(a) : s[i] = a[i]
  BY <1>1, <1>2
<1>4. \A i \in 1 .. Len(b) : s[Len(a) + i] = b[i]
  BY <1>1, <1>2
<1>5. s = a \o b
  BY <1>1, <1>2, <1>3, <1>4, ConcatIs, Zenon
<1>6. Sizes(a) \in Nat /\ Sizes(b) \in Nat /\ Sizes(a \o b) = Sizes(a) + Sizes(b)
  BY <1>1, <1>2, SizesConcat
<1>. QED
  BY <1>1, <1>5, <1>6, Zenon DEF a, b

LEMMA SizesRemoveAt ==
    ASSUME Counting, NEW S, Sized(S), NEW s \in Seq(S), NEW i \in 1 .. Len(s)
    PROVE  /\ Sizes(RemoveAt(s, i)) \in Nat /\ s[i].size \in Nat
           /\ Sizes(s) = Sizes(RemoveAt(s, i)) + s[i].size
<1>. DEFINE a == SubSeq(s, 1, i - 1)
            b == SubSeq(s, i + 1, Len(s))
            c == SubSeq(s, 1, i)
            o == <<s[i]>>
<1>1. a \in Seq(S) /\ b \in Seq(S) /\ c \in Seq(S)
  BY SubSeqElements
<1>8. s[i] \in S /\ o \in Seq(S) /\ Len(o) = 1 /\ o[1] = s[i]
  OBVIOUS
<1>5. Sizes(o) = s[i].size /\ s[i].size \in Nat
  BY <1>8, SizesOne DEF Sized
<1>. HIDE DEF o
<1>2. c = a \o o
  <2>1. Len(c) = i /\ Len(a) = i - 1 /\ \A k \in 1 .. i : c[k] = s[k]
    BY SubSeqElements
  <2>2. \A k \in 1 .. i - 1 : a[k] = s[k]
    BY SubSeqElements
  <2>. HIDE DEF a, b, c
  <2>3. Len(c) = Len(a) + Len(o) /\ \A k \in 1 .. Len(a) : c[k] = a[k]
    BY <1>8, <2>1, <2>2
  <2>4. \A k \in 1 .. Len(o) : c[Len(a) + k] = o[k]
    BY <1>8, <2>1
  <2>. QED
    BY <1>1, <1>8, <2>3, <2>4, ConcatIs, Zenon
<1>3. Sizes(s) = Sizes(c) + Sizes(b) /\ Sizes(c) \in Nat
  BY SizesSplit
<1>. HIDE DEF a, b, c
<1>4. Sizes(a \o o) = Sizes(a) + Sizes(o)
  BY <1>1, <1>8, SizesConcat
<1>6. Sizes(a) \in Nat /\ Sizes(b) \in Nat /\ Sizes(a \o b) = Sizes(a) + Sizes(b)
  BY <1>1, SizesConcat
<1>7. RemoveAt(s, i) = a \o b
  BY DEF RemoveAt, a, b
<1>. QED
  BY <1>2, <1>3, <1>4, <1>5, <1>6, <1>7

-------------------------------------------------------------------------------
\* No key twice.

DistinctKeys(s) == \A i, j \in DOMAIN s : s[i].key = s[j].key => i = j

NoKey(s, key) == \A i \in DOMAIN s : s[i].key # key

LEMMA FrontKeys ==
    ASSUME NEW S, NEW s \in Seq(S), DistinctKeys(s), NEW k \in 0 .. Len(s)
    PROVE  DistinctKeys(SubSeq(s, 1, k))
<1>. DEFINE a == SubSeq(s, 1, k)
<1>1. a \in Seq(S) /\ Len(a) = k /\ \A i \in 1 .. k : a[i] = s[i]
  BY SubSeqElements
<1>. HIDE DEF a
<1>2. DOMAIN a = 1 .. k /\ DOMAIN s = 1 .. Len(s)
  BY <1>1
<1>3. DistinctKeys(a)
  BY <1>1, <1>2 DEF DistinctKeys
<1>. QED
  BY <1>3 DEF a

LEMMA RemoveKeys ==
    ASSUME NEW S, NEW s \in Seq(S), DistinctKeys(s), NEW i \in 1 .. Len(s)
    PROVE  DistinctKeys(RemoveAt(s, i)) /\ NoKey(RemoveAt(s, i), s[i].key)
<1>. DEFINE r == RemoveAt(s, i)
<1>1. /\ r \in Seq(S) /\ Len(r) = Len(s) - 1
      /\ \A k \in 1 .. (Len(s) - 1) : r[k] = IF k < i THEN s[k] ELSE s[k + 1]
  BY RemoveAtElems, Zenon
<1>. HIDE DEF r
<1>2. DOMAIN r = 1 .. Len(s) - 1 /\ DOMAIN s = 1 .. Len(s)
  BY <1>1
<1>3. ASSUME NEW k \in DOMAIN r PROVE \E j \in DOMAIN s : j # i /\ r[k] = s[j] /\ j = IF k < i THEN k ELSE k + 1
  BY <1>1, <1>2
<1>4. NoKey(r, s[i].key)
  BY <1>2, <1>3 DEF NoKey, DistinctKeys
<1>5. ASSUME NEW k \in DOMAIN r, NEW l \in DOMAIN r, r[k].key = r[l].key PROVE k = l
  <2>1. PICK j \in DOMAIN s : j # i /\ r[k] = s[j] /\ j = IF k < i THEN k ELSE k + 1
    BY <1>3
  <2>2. PICK m \in DOMAIN s : m # i /\ r[l] = s[m] /\ m = IF l < i THEN l ELSE l + 1
    BY <1>3
  <2>3. j = m
    BY <1>5, <2>1, <2>2, Zenon DEF DistinctKeys
  <2>. QED
    BY <1>2, <2>1, <2>2, <2>3
<1>. QED
  BY <1>4, <1>5 DEF DistinctKeys, r

LEMMA FrontAdded ==
    ASSUME NEW S, NEW s \in Seq(S), DistinctKeys(s), NEW e \in S, NoKey(s, e.key)
    PROVE  DistinctKeys(<<e>> \o s)
<1>. DEFINE t == <<e>> \o s
<1>1. /\ t \in Seq(S) /\ Len(t) = Len(s) + 1 /\ t[1] = e
      /\ \A i \in 1 .. Len(t) : i # 1 => t[i] = s[i - 1]
  BY ConcatElements
<1>. HIDE DEF t
<1>2. DOMAIN t = 1 .. Len(s) + 1 /\ DOMAIN s = 1 .. Len(s)
  BY <1>1
<1>3. \A i \in DOMAIN t : i = 1 \/ (i - 1 \in DOMAIN s /\ t[i] = s[i - 1])
  BY <1>1, <1>2
<1>4. ASSUME NEW i \in DOMAIN t, NEW j \in DOMAIN t, t[i].key = t[j].key PROVE i = j
  <2>1. CASE i = 1 /\ j = 1
    BY <2>1
  <2>2. CASE i = 1 /\ j # 1
    BY <1>1, <1>3, <1>4, <2>2, Zenon DEF NoKey
  <2>3. CASE i # 1 /\ j = 1
    BY <1>1, <1>3, <1>4, <2>3, Zenon DEF NoKey
  <2>4. CASE i # 1 /\ j # 1
    <3>1. /\ i - 1 \in DOMAIN s /\ t[i] = s[i - 1]
          /\ j - 1 \in DOMAIN s /\ t[j] = s[j - 1]
      BY <1>3, <2>4, Zenon
    <3>2. i - 1 = j - 1
      BY <1>4, <3>1, Zenon DEF DistinctKeys
    <3>. QED
      BY <1>2, <3>2
  <2>. QED
    BY <2>1, <2>2, <2>3, <2>4, Zenon
<1>5. DistinctKeys(t)
  BY <1>4, Zenon DEF DistinctKeys
<1>. QED
  BY <1>5 DEF t


-------------------------------------------------------------------------------
\* The account of the cache.

\* A cache with another store and account.
With(c, s, n) == [mMaximumTotalSize |-> c.mMaximumTotalSize, mCurrentSize |-> n, mStore |-> s]

Updates(c, s, n) == [c EXCEPT !.mStore = s, !.mCurrentSize = n]

Accounts(c, S) ==
    /\ IsCache(c, S) /\ c.mMaximumTotalSize \in Nat
    /\ c.mCurrentSize = Sizes(c.mStore) /\ DistinctKeys(c.mStore)

SizedCache(c, S) == Accounts(c, S) /\ c.mCurrentSize <= c.mMaximumTotalSize

LEMMA WithIs ==
    ASSUME NEW S, NEW c, IsCache(c, S), NEW s, NEW n
    PROVE  /\ Updates(c, s, n) = With(c, s, n)
           /\ [c EXCEPT !.mStore = s] = With(c, s, c.mCurrentSize)
<1>. DEFINE d(t, k) == [mMaximumTotalSize |-> c.mMaximumTotalSize, mCurrentSize |-> k, mStore |-> t]
<1>1. c = d(c.mStore, c.mCurrentSize)
  BY DEF IsCache
<1>2. \A t, k : [d(t, k) EXCEPT !.mStore = s] = d(s, k)
  OBVIOUS
<1>3. \A t, k : [d(t, k) EXCEPT !.mCurrentSize = n] = d(t, n)
  OBVIOUS
<1>4. \A t, k : With(c, t, k) = d(t, k)
  BY DEF With
<1>. HIDE DEF d
<1>5. [c EXCEPT !.mStore = s] = d(s, c.mCurrentSize)
  BY <1>1, <1>2, Zenon
<1>6. [c EXCEPT !.mStore = s, !.mCurrentSize = n] = [[c EXCEPT !.mStore = s] EXCEPT !.mCurrentSize = n]
  BY Zenon
<1>7. [c EXCEPT !.mStore = s, !.mCurrentSize = n] = d(s, n)
  BY <1>3, <1>5, <1>6, Zenon
<1>. QED
  BY <1>4, <1>5, <1>7, Zenon DEF Updates

LEMMA WithFields ==
    ASSUME NEW c, NEW s, NEW n
    PROVE  /\ With(c, s, n).mStore = s /\ With(c, s, n).mCurrentSize = n
           /\ With(c, s, n).mMaximumTotalSize = c.mMaximumTotalSize
           /\ \A S : s \in Seq(S) => IsCache(With(c, s, n), S)
BY DEF With, IsCache

\* The fields of a cache with another store and account.
Parts(d, s, n, limit) == d.mStore = s /\ d.mCurrentSize = n /\ d.mMaximumTotalSize = limit

LEMMA WithParts ==
    ASSUME NEW c, NEW s, NEW n
    PROVE  Parts(With(c, s, n), s, n, c.mMaximumTotalSize)
BY DEF With, Parts

LEMMA UpdatesAre ==
    ASSUME NEW S, NEW c, IsCache(c, S), NEW s, NEW n
    PROVE  Updates(c, s, n) = With(c, s, n)
BY WithIs, Zenon

\* An account that is right for the new store is the account of a cache.
LEMMA WithAccounts ==
    ASSUME NEW S, NEW c, Accounts(c, S), NEW s \in Seq(S), DistinctKeys(s), NEW n, n = Sizes(s)
    PROVE  Accounts(With(c, s, n), S)
<1>1. IsCache(With(c, s, n), S)
  BY WithFields
<1>2. /\ With(c, s, n).mStore = s /\ With(c, s, n).mCurrentSize = n
      /\ With(c, s, n).mMaximumTotalSize = c.mMaximumTotalSize
  BY WithFields
<1>. QED
  BY <1>1, <1>2 DEF Accounts

\* What is known of a cache without the entry of key.
OthersOK(c, key, S) ==
    /\ Others(c, key) \in Seq(S) /\ DistinctKeys(Others(c, key)) /\ NoKey(Others(c, key), key)
    /\ Peek(c, key) \in S /\ Peek(c, key).size \in Nat /\ Peek(c, key).key = key
    /\ Sizes(Others(c, key)) \in Nat
    /\ c.mCurrentSize = Sizes(Others(c, key)) + Peek(c, key).size

LEMMA OthersAccount ==
    ASSUME Counting, NEW S, Sized(S), NEW c, Accounts(c, S), NEW key, Has(c, key)
    PROVE  OthersOK(c, key, S)
<1>. DEFINE s == c.mStore
            i == Position(c, key)
<1>1. IsCache(c, S) /\ s \in Seq(S) /\ DistinctKeys(s) /\ c.mCurrentSize = Sizes(s)
  BY DEF Accounts, IsCache
<1>2. i \in 1 .. Len(s) /\ Peek(c, key) \in S /\ Peek(c, key).key = key
  BY <1>1, PositionFound
<1>3. Others(c, key) = RemoveAt(s, i) /\ Peek(c, key) = s[i]
  BY DEF Others, Peek
<1>4. Others(c, key) \in Seq(S)
  BY <1>1, OthersInSeq
<1>. HIDE DEF s, i
<1>5. DistinctKeys(RemoveAt(s, i)) /\ NoKey(RemoveAt(s, i), s[i].key)
  BY <1>1, <1>2, RemoveKeys
<1>6. /\ Sizes(RemoveAt(s, i)) \in Nat /\ s[i].size \in Nat
      /\ Sizes(s) = Sizes(RemoveAt(s, i)) + s[i].size
  BY <1>1, <1>2, SizesRemoveAt, Zenon
<1>. QED
  BY <1>1, <1>2, <1>3, <1>4, <1>5, <1>6, Zenon DEF OthersOK

\* What is found goes to the front: the same entries, in another order.
LEMMA getAccounts ==
    ASSUME Counting, NEW S, Sized(S), NEW c, SizedCache(c, S), NEW key
    PROVE  SizedCache(get(c, key), S)
<1>1. CASE ~Has(c, key)
  BY <1>1, Zenon DEF get
<1>2. CASE Has(c, key)
  <2>. DEFINE o == Others(c, key)
              e == Peek(c, key)
              t == <<e>> \o o
  <2>0. Accounts(c, S) /\ IsCache(c, S) /\ c.mCurrentSize <= c.mMaximumTotalSize
    BY DEF SizedCache, Accounts
  <2>1. /\ o \in Seq(S) /\ DistinctKeys(o) /\ NoKey(o, key) /\ e \in S /\ e.size \in Nat /\ e.key = key
        /\ Sizes(o) \in Nat /\ c.mCurrentSize = Sizes(o) + e.size
    <3>1. OthersOK(c, key, S)
      BY <1>2, <2>0, OthersAccount, Zenon
    <3>. QED
      BY <3>1, Zenon DEF OthersOK
  <2>2. get(c, key) = [c EXCEPT !.mStore = t]
    BY <1>2, Zenon DEF get
  <2>. HIDE DEF o, e
  <2>3. DistinctKeys(t)
    BY <2>1, FrontAdded
  <2>4. <<e>> \in Seq(S)
    BY <2>1
  <2>5. Sizes(t) = Sizes(<<e>>) + Sizes(o)
    BY <2>1, <2>4, SizesConcat, Zenon
  <2>6. Sizes(<<e>>) = e.size
    BY <2>1, SizesOne
  <2>7. c.mCurrentSize = Sizes(t)
    BY <2>1, <2>5, <2>6
  <2>8. t \in Seq(S)
    BY <2>1, <2>4, ConcatElements
  <2>. HIDE DEF t
  <2>9. [c EXCEPT !.mStore = t] = With(c, t, c.mCurrentSize)
    BY <2>0, WithIs, Zenon
  <2>10. Accounts(With(c, t, c.mCurrentSize), S)
    BY <2>0, <2>3, <2>7, <2>8, WithAccounts
  <2>11. SizedCache(With(c, t, c.mCurrentSize), S)
    <3>1. /\ With(c, t, c.mCurrentSize).mCurrentSize = c.mCurrentSize
          /\ With(c, t, c.mCurrentSize).mMaximumTotalSize = c.mMaximumTotalSize
      BY WithFields
    <3>. QED
      BY <2>0, <2>10, <3>1 DEF SizedCache
  <2>. QED
    BY <2>2, <2>9, <2>11, Zenon
<1>. QED
  BY <1>1, <1>2

LEMMA eraseByKeyAccounts ==
    ASSUME Counting, NEW S, Sized(S), NEW c, SizedCache(c, S), NEW key
    PROVE  /\ SizedCache(eraseByKey(c, key), S) /\ NoKey(eraseByKey(c, key).mStore, key)
           /\ eraseByKey(c, key).mMaximumTotalSize = c.mMaximumTotalSize
<1>1. CASE ~Has(c, key)
  BY <1>1, Zenon DEF eraseByKey, Has, NoKey
<1>2. CASE Has(c, key)
  <2>. DEFINE o == Others(c, key)
              e == Peek(c, key)
              n == c.mCurrentSize - e.size
  <2>0. /\ Accounts(c, S) /\ IsCache(c, S)
        /\ c.mCurrentSize <= c.mMaximumTotalSize /\ c.mMaximumTotalSize \in Nat
    BY DEF SizedCache, Accounts
  <2>1. /\ o \in Seq(S) /\ DistinctKeys(o) /\ NoKey(o, key) /\ e.size \in Nat
        /\ Sizes(o) \in Nat /\ c.mCurrentSize = Sizes(o) + e.size
    <3>1. OthersOK(c, key, S)
      BY <1>2, <2>0, OthersAccount, Zenon
    <3>. QED
      BY <3>1, Zenon DEF OthersOK
  <2>2. eraseByKey(c, key) = Updates(c, o, n)
    BY <1>2, Zenon DEF eraseByKey, Updates
  <2>3. n = Sizes(o) /\ n <= c.mMaximumTotalSize
    <3>. HIDE DEF o, e
    <3>. QED
      BY <2>0, <2>1
  <2>. HIDE DEF o, e, n
  <2>4. eraseByKey(c, key) = With(c, o, n)
    <3>1. IsCache(c, S)
      BY <2>0, Zenon
    <3>2. Updates(c, o, n) = With(c, o, n)
      BY <3>1, UpdatesAre, Zenon
    <3>. QED
      BY <2>2, <3>2, Zenon
  <2>5. Accounts(With(c, o, n), S)
    BY <2>0, <2>1, <2>3, WithAccounts
  <2>6. /\ With(c, o, n).mStore = o /\ With(c, o, n).mCurrentSize = n
        /\ With(c, o, n).mMaximumTotalSize = c.mMaximumTotalSize
    <3>1. Parts(With(c, o, n), o, n, c.mMaximumTotalSize)
      BY WithParts, Zenon
    <3>. QED
      BY <3>1, Zenon DEF Parts
  <2>7. SizedCache(With(c, o, n), S)
    BY <2>3, <2>5, <2>6 DEF SizedCache
  <2>. QED
    BY <2>1, <2>4, <2>6, <2>7
<1>. QED
  BY <1>1, <1>2

\* Entries go from the tail, and their sizes from the account.
LEMMA EvictAccounts ==
    ASSUME Counting, NEW S, Sized(S), NEW c, Accounts(c, S), NEW n \in 0 .. Len(c.mStore)
    PROVE  /\ Accounts(Evict(c, n), S) /\ Evict(c, n).mMaximumTotalSize = c.mMaximumTotalSize
           /\ c.mCurrentSize \in Nat /\ Evict(c, n).mCurrentSize \in Nat
           /\ Evict(c, n).mCurrentSize <= c.mCurrentSize
           /\ n = Len(c.mStore) => Evict(c, n).mCurrentSize = 0
<1>. DEFINE s == c.mStore
            k == Len(s) - n
            f == SubSeq(s, 1, k)
            m == c.mCurrentSize - Sizes(SubSeq(s, k + 1, Len(s)))
<1>1. IsCache(c, S) /\ s \in Seq(S) /\ DistinctKeys(s) /\ c.mCurrentSize = Sizes(s)
  BY DEF Accounts, IsCache
<1>2. k \in 0 .. Len(s)
  <2>. HIDE DEF s
  <2>1. Len(s) \in Nat
    BY <1>1
  <2>. QED
    BY <2>1 DEF s
<1>3. Evict(c, n) = Updates(c, f, m)
  BY Zenon DEF Evict, Updates
<1>4. n = Len(s) => k = 0
  <2>. HIDE DEF s
  <2>1. Len(s) \in Nat
    BY <1>1
  <2>. QED
    BY <2>1
<1>. HIDE DEF k, s
<1>5. /\ f \in Seq(S) /\ Sizes(f) \in Nat /\ Sizes(SubSeq(s, k + 1, Len(s))) \in Nat
      /\ Sizes(s) = Sizes(f) + Sizes(SubSeq(s, k + 1, Len(s)))
  BY <1>1, <1>2, SizesSplit
<1>6. m = Sizes(f) /\ c.mCurrentSize \in Nat /\ m \in Nat /\ m <= c.mCurrentSize
  <2>. HIDE DEF f
  <2>. QED
    BY <1>1, <1>5
<1>7. DistinctKeys(f)
  BY <1>1, <1>2, FrontKeys
<1>8. k = 0 => f = << >>
  BY <1>1
<1>9. n = Len(s) => m = 0
  BY <1>4, <1>6, <1>8, SizesEmpty, Zenon
<1>. HIDE DEF f, m
<1>10. Evict(c, n) = With(c, f, m)
  <2>1. IsCache(c, S)
    BY <1>1, Zenon
  <2>2. Updates(c, f, m) = With(c, f, m)
    BY <2>1, UpdatesAre, Zenon
  <2>. QED
    BY <1>3, <2>2, Zenon
<1>11. Accounts(With(c, f, m), S)
  BY <1>5, <1>6, <1>7, WithAccounts
<1>12. With(c, f, m).mCurrentSize = m /\ With(c, f, m).mMaximumTotalSize = c.mMaximumTotalSize
  <2>1. Parts(With(c, f, m), f, m, c.mMaximumTotalSize)
    BY WithParts, Zenon
  <2>. QED
    BY <2>1, Zenon DEF Parts
<1>. QED
  BY <1>6, <1>9, <1>10, <1>11, <1>12 DEF s

LEMMA shrinkToSizeAccounts ==
    ASSUME Counting, NEW S, Sized(S), NEW c, Accounts(c, S), NEW limit \in Nat
    PROVE  /\ Accounts(shrinkToSize(c, limit), S)
           /\ shrinkToSize(c, limit).mMaximumTotalSize = c.mMaximumTotalSize
           /\ shrinkToSize(c, limit).mCurrentSize \in Nat
           /\ shrinkToSize(c, limit).mCurrentSize <= limit
           /\ c.mCurrentSize \in Nat
           /\ shrinkToSize(c, limit).mCurrentSize <= c.mCurrentSize
<1>. DEFINE len == Len(c.mStore)
            T == {n \in 0 .. len : Evict(c, n).mCurrentSize <= limit \/ n = len}
            n == Min(T)
<1>1. len \in Nat
  BY DEF Accounts, IsCache
<1>2. len \in T /\ T \in SUBSET Nat
  <2>. HIDE DEF len
  <2>. QED
    BY <1>1
<1>3. n \in T
  <2>. HIDE DEF T
  <2>. QED
    BY <1>2, MinIsElement
<1>4. n \in 0 .. len /\ (Evict(c, n).mCurrentSize <= limit \/ n = len)
  <2>. HIDE DEF n, len
  <2>. QED
    BY <1>3
<1>5. shrinkToSize(c, limit) = Evict(c, n)
  BY DEF shrinkToSize
<1>. HIDE DEF n, T
<1>6. /\ Accounts(Evict(c, n), S) /\ Evict(c, n).mMaximumTotalSize = c.mMaximumTotalSize
      /\ c.mCurrentSize \in Nat /\ Evict(c, n).mCurrentSize \in Nat
      /\ Evict(c, n).mCurrentSize <= c.mCurrentSize
      /\ n = len => Evict(c, n).mCurrentSize = 0
  BY <1>4, EvictAccounts
<1>7. Evict(c, n).mCurrentSize <= limit
  BY <1>4, <1>6
<1>. QED
  BY <1>5, <1>6, <1>7, Zenon

\* A cache of some entries that have sizes, whose account is exact.
Sound(c) == \E S : Sized(S) /\ SizedCache(c, S)

LEMMA SizedMore ==
    ASSUME NEW S, NEW c, SizedCache(c, S), NEW R, S \subseteq R
    PROVE  SizedCache(c, R)
<1>1. c.mStore \in Seq(R)
  BY DEF SizedCache, Accounts, IsCache
<1>2. IsCache(c, R)
  BY <1>1 DEF SizedCache, Accounts, IsCache
<1>. QED
  BY <1>2 DEF SizedCache, Accounts

LEMMA putSound ==
    ASSUME Counting, NEW c, Sound(c), NEW entry, entry.size \in Nat
    PROVE  Sound(put(c, entry))
<1>1. PICK R : Sized(R) /\ SizedCache(c, R)
  BY DEF Sound
<1>. DEFINE S == R \cup {entry}
<1>2. Sized(S) /\ entry \in S /\ R \subseteq S
  BY <1>1 DEF Sized
<1>. HIDE DEF S
<1>3. SizedCache(c, S)
  BY <1>1, <1>2, SizedMore
<1>. DEFINE e == eraseByKey(c, entry.key)
            t == <<entry>> \o e.mStore
            n == e.mCurrentSize + entry.size
<1>4. SizedCache(e, S) /\ NoKey(e.mStore, entry.key) /\ e.mMaximumTotalSize = c.mMaximumTotalSize
  BY <1>2, <1>3, eraseByKeyAccounts
<1>5. put(c, entry) \in {c, shrinkToSize(Updates(e, t, n), c.mMaximumTotalSize)}
  BY Zenon DEF put, Updates
<1>. HIDE DEF e
<1>6. /\ Accounts(e, S) /\ IsCache(e, S) /\ e.mStore \in Seq(S) /\ DistinctKeys(e.mStore)
      /\ e.mCurrentSize = Sizes(e.mStore) /\ c.mMaximumTotalSize \in Nat
  BY <1>4 DEF SizedCache, Accounts, IsCache
<1>7. DistinctKeys(t)
  BY <1>2, <1>4, <1>6, FrontAdded, Zenon
<1>8. <<entry>> \in Seq(S)
  BY <1>2
<1>9. t \in Seq(S)
  BY <1>6, <1>8, ConcatElements
<1>10. Sizes(t) = Sizes(<<entry>>) + Sizes(e.mStore) /\ Sizes(e.mStore) \in Nat
  BY <1>2, <1>6, <1>8, SizesConcat, Zenon
<1>11. Sizes(<<entry>>) = entry.size
  BY <1>2, SizesOne
<1>12. n = Sizes(t)
  BY <1>6, <1>10, <1>11
<1>. HIDE DEF t, n
<1>13. Accounts(With(e, t, n), S)
  BY <1>6, <1>7, <1>9, <1>12, WithAccounts
<1>14. Updates(e, t, n) = With(e, t, n)
  BY <1>6, WithIs, Zenon
<1>. DEFINE d == With(e, t, n)
            r == shrinkToSize(d, c.mMaximumTotalSize)
<1>15. d.mMaximumTotalSize = c.mMaximumTotalSize
  BY <1>4, WithFields
<1>. HIDE DEF d
<1>16. Accounts(d, S)
  BY <1>13 DEF d
<1>17. /\ Accounts(r, S) /\ r.mMaximumTotalSize = d.mMaximumTotalSize
       /\ r.mCurrentSize <= c.mMaximumTotalSize
  BY <1>2, <1>6, <1>16, shrinkToSizeAccounts, Zenon
<1>18. SizedCache(r, S)
  BY <1>15, <1>17 DEF SizedCache
<1>. HIDE DEF r
<1>19. put(c, entry) \in {c, r}
  BY <1>5, <1>14 DEF r, d
<1>20. SizedCache(put(c, entry), S)
  BY <1>3, <1>18, <1>19
<1>. QED
  BY <1>2, <1>20 DEF Sound

LEMMA OthersSound ==
    ASSUME Counting, NEW c, Sound(c)
    PROVE  /\ \A key : Sound(get(c, key)) /\ Sound(eraseByKey(c, key))
           /\ Sound(clear(c))
           /\ \A limit \in Nat : Sound(resize(c, limit)) /\ Sound(shrinkToSize(c, limit))
<1>1. PICK S : Sized(S) /\ SizedCache(c, S)
  BY DEF Sound
<1>2. ASSUME NEW key PROVE Sound(get(c, key)) /\ Sound(eraseByKey(c, key))
  <2>1. SizedCache(get(c, key), S)
    BY <1>1, getAccounts
  <2>2. SizedCache(eraseByKey(c, key), S)
    BY <1>1, eraseByKeyAccounts
  <2>. QED
    BY <1>1, <2>1, <2>2, Zenon DEF Sound
<1>4. Accounts(c, S) /\ IsCache(c, S) /\ c.mMaximumTotalSize \in Nat /\ c.mCurrentSize <= c.mMaximumTotalSize
  BY <1>1 DEF SizedCache, Accounts
<1>5. << >> \in Seq(S) /\ DistinctKeys(<< >>) /\ 0 = Sizes(<< >>)
  BY SizesEmpty DEF DistinctKeys
<1>. DEFINE d == With(c, << >>, 0)
<1>6. clear(c) = d
  <2>1. Updates(c, << >>, 0) = d
    BY <1>4, WithIs, Zenon
  <2>. QED
    BY <2>1 DEF Updates, clear
<1>7. d = [mMaximumTotalSize |-> c.mMaximumTotalSize, mCurrentSize |-> 0, mStore |-> << >>]
  BY DEF With
<1>8. Accounts(d, S)
  BY <1>4, <1>5, WithAccounts, Zenon
<1>9. SizedCache(d, S)
  BY <1>4, <1>7, <1>8 DEF SizedCache
<1>10. Sound(clear(c))
  BY <1>1, <1>6, <1>9 DEF Sound
<1>11. ASSUME NEW limit \in Nat PROVE Sound(resize(c, limit))
  <2>. DEFINE e == [mMaximumTotalSize |-> limit, mCurrentSize |-> 0, mStore |-> << >>]
  <2>1. resize(c, limit) = e
    <3>1. resize(c, limit) = [d EXCEPT !.mMaximumTotalSize = limit]
      BY <1>6, Zenon DEF resize
    <3>. QED
      BY <1>7, <3>1
  <2>2. SizedCache(e, S)
    BY <1>5 DEF SizedCache, Accounts, IsCache
  <2>. QED
    BY <1>1, <2>1, <2>2, Zenon DEF Sound
<1>12. ASSUME NEW limit \in Nat PROVE Sound(shrinkToSize(c, limit))
  <2>. DEFINE r == shrinkToSize(c, limit)
  <2>1. /\ Accounts(r, S) /\ r.mMaximumTotalSize = c.mMaximumTotalSize
        /\ r.mCurrentSize \in Nat /\ c.mCurrentSize \in Nat /\ r.mCurrentSize <= c.mCurrentSize
    BY <1>1, <1>4, shrinkToSizeAccounts
  <2>. HIDE DEF r
  <2>2. SizedCache(r, S)
    BY <1>4, <2>1 DEF SizedCache
  <2>. QED
    BY <1>1, <2>2 DEF Sound, r
<1>. QED
  BY <1>2, <1>10, <1>11, <1>12
==============================================================================
