------------------------- MODULE ResourceManagerProofs -------------------------
(***************************************************************************)
(* Proofs about the name allocator and the manager that is built on it.    *)
(*                                                                         *)
(* HandleAllocator, for every greatest name: its two free lists hold       *)
(* exactly the names not in use, each once, and it implements HandlePool.  *)
(* Its three invariants are inductive together: allocate and reserve edit  *)
(* the range list by position, so FreeListsExact is kept only because the  *)
(* list is sorted, and the sorting only because every range is a range of  *)
(* names.                                                                  *)
(*                                                                         *)
(* ResourceManager, for any number of names, buffers and contexts and any  *)
(* sizes of the flat vector, and for the clients and vectors that          *)
(* Agreement describes.                                                    *)
(***************************************************************************)
EXTENDS ResourceManager, SequenceTheorems, FiniteSetTheorems, WellFoundedInduction, TLAPS


-------------------------------------------------------------------------------
\* Sequences, element by element.

\* What CutRange and PopFirst do to a list: an element goes,
\* changes or becomes two.
RemoveAt(s, i) == SubSeq(s, 1, i - 1) \o SubSeq(s, i + 1, Len(s))
ReplaceAt(s, i, e) == [s EXCEPT ![i] = e]
SplitAt(s, i, l, r) == SubSeq(s, 1, i - 1) \o <<l, r>> \o SubSeq(s, i + 1, Len(s))

\* RemoveAt shifts the elements behind position i forward.
LEMMA RemoveAtElems ==
    ASSUME NEW S, NEW s \in Seq(S), NEW i \in 1..Len(s)
    PROVE  /\ RemoveAt(s, i) \in Seq(S)
           /\ Len(RemoveAt(s, i)) = Len(s) - 1
           /\ \A k \in 1..(Len(s) - 1) :
                  RemoveAt(s, i)[k] = IF k < i THEN s[k] ELSE s[k + 1]
<1> DEFINE a == SubSeq(s, 1, i - 1)
           b == SubSeq(s, i + 1, Len(s))
<1>1. /\ a \in Seq(S)
      /\ Len(a) = i - 1
      /\ \A k \in 1..(i - 1) : a[k] = s[k]
  BY SubSeqProperties
<1>2. /\ b \in Seq(S)
      /\ Len(b) = Len(s) - i
      /\ \A k \in 1..(Len(s) - i) : b[k] = s[k + i]
  BY SubSeqProperties
<1>3. RemoveAt(s, i) = a \o b
  BY DEF RemoveAt
<1> HIDE DEF a, b
<1>4. /\ a \o b \in Seq(S)
      /\ Len(a \o b) = Len(a) + Len(b)
      /\ \A k \in 1..(Len(a) + Len(b)) :
             (a \o b)[k] = IF k <= Len(a) THEN a[k] ELSE b[k - Len(a)]
  BY <1>1, <1>2, ConcatProperties, Zenon
<1>5. ASSUME NEW k \in 1..(Len(s) - 1)
      PROVE  (a \o b)[k] = IF k < i THEN s[k] ELSE s[k + 1]
  <2>1. CASE k < i
    BY <2>1, <1>1, <1>2, <1>4
  <2>2. CASE ~(k < i)
    <3> DEFINE j == k - (i - 1)
    <3>1. j \in 1..(Len(s) - i) /\ j + i = k + 1
      BY <2>2
    <3>2. (a \o b)[k] = b[j]
      BY <2>2, <1>1, <1>2, <1>4
    <3> HIDE DEF j
    <3>3. b[j] = s[k + 1]
      BY <1>2, <3>1, Zenon
    <3> QED BY <2>2, <3>2, <3>3, Zenon
  <2> QED BY <2>1, <2>2, Zenon
<1> QED BY <1>1, <1>2, <1>3, <1>4, <1>5

\* t is s, of length n, with its i-th element replaced by l and r.
Expands(t, s, n, i, l, r) ==
    /\ \A k \in 1..(n + 1) : k < i => t[k] = s[k]
    /\ t[i] = l /\ t[i + 1] = r
    /\ \A k \in 1..(n + 1) : k > i + 1 => t[k] = s[k - 1]

\* The elements of s with its i-th element replaced by l and r.
LEMMA SplitElems ==
    ASSUME NEW S, NEW s \in Seq(S), NEW i \in 1..Len(s), NEW l \in S, NEW r \in S
    PROVE  /\ SplitAt(s, i, l, r) \in Seq(S)
           /\ Len(SplitAt(s, i, l, r)) = Len(s) + 1
           /\ Expands(SplitAt(s, i, l, r), s, Len(s), i, l, r)
<1> DEFINE a == SubSeq(s, 1, i - 1)
           b == SubSeq(s, i + 1, Len(s))
           c == a \o <<l, r>>
<1>1. /\ a \in Seq(S)
      /\ Len(a) = i - 1
      /\ \A k \in 1..(i - 1) : a[k] = s[k]
  BY SubSeqProperties
<1>2. /\ b \in Seq(S)
      /\ Len(b) = Len(s) - i
      /\ \A k \in 1..(Len(s) - i) : b[k] = s[k + i]
  BY SubSeqProperties
<1>3. SplitAt(s, i, l, r) = c \o b
  BY DEF SplitAt
<1> HIDE DEF a, b
<1>4. /\ c \in Seq(S)
      /\ Len(c) = i + 1
      /\ \A k \in 1..(i + 1) : c[k] = IF k < i THEN s[k] ELSE IF k = i THEN l ELSE r
  <2>1. <<l, r>> \in Seq(S) /\ Len(<<l, r>>) = 2 /\ <<l, r>>[1] = l /\ <<l, r>>[2] = r
    OBVIOUS
  <2>2. /\ c \in Seq(S)
        /\ Len(c) = Len(a) + 2
        /\ \A k \in 1..(Len(a) + 2) :
               c[k] = IF k <= Len(a) THEN a[k] ELSE <<l, r>>[k - Len(a)]
    BY <1>1, <2>1, ConcatProperties
  <2> QED BY <1>1, <2>1, <2>2
<1> HIDE DEF c
<1>5. /\ c \o b \in Seq(S)
      /\ Len(c \o b) = Len(c) + Len(b)
      /\ \A k \in 1..(Len(c) + Len(b)) :
             (c \o b)[k] = IF k <= Len(c) THEN c[k] ELSE b[k - Len(c)]
  BY <1>2, <1>4, ConcatProperties, Zenon
<1>6. ASSUME NEW k \in 1..(Len(s) + 1)
      PROVE  (c \o b)[k] = IF k < i THEN s[k] ELSE IF k = i THEN l
                           ELSE IF k = i + 1 THEN r ELSE s[k - 1]
  <2>1. CASE k <= i + 1
    BY <2>1, <1>2, <1>4, <1>5
  <2>2. CASE ~(k <= i + 1)
    <3> DEFINE j == k - (i + 1)
    <3>1. j \in 1..(Len(s) - i) /\ j + i = k - 1
      BY <2>2
    <3>2. (c \o b)[k] = b[j]
      BY <2>2, <1>2, <1>4, <1>5
    <3>3. ~(k < i) /\ k # i /\ k # i + 1
      BY <2>2
    <3> HIDE DEF j
    <3>4. b[j] = s[k - 1]
      BY <1>2, <3>1, Zenon
    <3> QED BY <3>2, <3>3, <3>4, Zenon
  <2> QED BY <2>1, <2>2, Zenon
<1>7. Expands(c \o b, s, Len(s), i, l, r)
  <2> DEFINE t == c \o b
             n == Len(s)
  <2>1. n \in Nat /\ i \in 1..n
    OBVIOUS
  <2>2. \A k \in 1..(n + 1) :
            t[k] = IF k < i THEN s[k] ELSE IF k = i THEN l ELSE IF k = i + 1 THEN r ELSE s[k - 1]
    BY <1>6, Zenon
  <2> HIDE DEF t, n
  <2>3. Expands(t, s, n, i, l, r)
    BY <2>1, <2>2 DEF Expands
  <2> QED BY <2>3 DEF t, n
<1> QED BY <1>2, <1>3, <1>4, <1>5, <1>7

-------------------------------------------------------------------------------
\* The range list as n ranges s[1], ..., s[n], without the vocabulary of
\* sequences: what the cases of reserve and allocate do to the names it holds.

RangesUpTo(s, n) ==
    /\ \A j \in 1..n :
           s[j].begin \in Int /\ s[j].end \in Int /\ s[j].begin <= s[j].end
    /\ \A j, k \in 1..n : j < k => s[j].end < s[k].begin

HoldsUpTo(s, n, h) == \E j \in 1..n : s[j].begin <= h /\ h <= s[j].end

\* t is s without its i-th range; with the i-th range one name shorter, at its
\* beginning or at its end; with the i-th range cut in two around h.
Drops(t, s, n, i, h) ==
    /\ n \in Nat /\ i \in 1..n /\ h \in Int
    /\ s[i].begin = h /\ s[i].end = h
    /\ \A k \in 1..(n - 1) : t[k] = IF k < i THEN s[k] ELSE s[k + 1]

Shrinks(t, s, n, i, h) ==
    /\ n \in Nat /\ i \in 1..n /\ h \in Int
    /\ t[i].begin \in Int /\ t[i].end \in Int /\ t[i].begin <= t[i].end
    /\ \/ s[i].begin = h /\ t[i].begin = h + 1 /\ s[i].end = t[i].end
       \/ s[i].end = h /\ t[i].end = h - 1 /\ s[i].begin = t[i].begin
    /\ \A k \in 1..n : k # i => t[k] = s[k]

Splits(t, s, n, i, h) ==
    /\ n \in Nat /\ i \in 1..n /\ h \in Int
    /\ s[i].begin < h /\ h < s[i].end
    /\ t[i].begin = s[i].begin /\ t[i].end = h - 1
    /\ t[i + 1].begin = h + 1 /\ t[i + 1].end = s[i].end
    /\ \A k \in 1..(n + 1) : k < i => t[k] = s[k]
    /\ \A k \in 1..(n + 1) : k > i + 1 => t[k] = s[k - 1]

\* A range of the single name h disappears.
LEMMA RemoveRange ==
    ASSUME NEW n, NEW s, NEW t, NEW i, NEW h, RangesUpTo(s, n),
           Drops(t, s, n, i, h)
    PROVE  /\ RangesUpTo(t, n - 1)
           /\ \A x \in Int : HoldsUpTo(t, n - 1, x) <=> HoldsUpTo(s, n, x) /\ x # h
<1> USE DEF Drops
<1>1. RangesUpTo(t, n - 1)
  BY DEF RangesUpTo
<1>2. ASSUME NEW x \in Int, HoldsUpTo(t, n - 1, x)
      PROVE  HoldsUpTo(s, n, x) /\ x # h
  BY <1>2 DEF RangesUpTo, HoldsUpTo
<1>3. ASSUME NEW x \in Int, HoldsUpTo(s, n, x), x # h
      PROVE  HoldsUpTo(t, n - 1, x)
  <2>1. PICK k \in 1..n : s[k].begin <= x /\ x <= s[k].end
    BY <1>3 DEF HoldsUpTo
  <2>2. CASE k < i
    BY <2>1, <2>2 DEF HoldsUpTo
  <2>3. CASE k = i
    BY <2>1, <2>3, <1>3
  <2>4. CASE k > i
    <3>1. k - 1 \in 1..(n - 1) /\ t[k - 1] = s[k]
      BY <2>4
    <3> QED BY <3>1, <2>1 DEF HoldsUpTo
  <2> QED BY <2>2, <2>3, <2>4
<1> QED BY <1>1, <1>2, <1>3

\* A range loses its first or its last name, h.
LEMMA ShrinkRange ==
    ASSUME NEW n, NEW s, NEW t, NEW i, NEW h, RangesUpTo(s, n),
           Shrinks(t, s, n, i, h)
    PROVE  /\ RangesUpTo(t, n)
           /\ \A x \in Int : HoldsUpTo(t, n, x) <=> HoldsUpTo(s, n, x) /\ x # h
<1> USE DEF Shrinks
<1>1. RangesUpTo(t, n)
  BY DEF RangesUpTo
<1>2. ASSUME NEW x \in Int, HoldsUpTo(t, n, x)
      PROVE  HoldsUpTo(s, n, x) /\ x # h
  <2>1. PICK k \in 1..n : t[k].begin <= x /\ x <= t[k].end
    BY <1>2 DEF HoldsUpTo
  <2> QED BY <2>1 DEF RangesUpTo, HoldsUpTo
<1>3. ASSUME NEW x \in Int, HoldsUpTo(s, n, x), x # h
      PROVE  HoldsUpTo(t, n, x)
  <2>1. PICK k \in 1..n : s[k].begin <= x /\ x <= s[k].end
    BY <1>3 DEF HoldsUpTo
  <2> QED BY <2>1, <1>3 DEF HoldsUpTo
<1> QED BY <1>1, <1>2, <1>3

\* A range loses a name h inside it and becomes two.
LEMMA SplitRange ==
    ASSUME NEW n, NEW s, NEW t, NEW i, NEW h, RangesUpTo(s, n),
           Splits(t, s, n, i, h)
    PROVE  /\ RangesUpTo(t, n + 1)
           /\ \A x \in Int : HoldsUpTo(t, n + 1, x) <=> HoldsUpTo(s, n, x) /\ x # h
<1> USE DEF Splits
<1>1. RangesUpTo(t, n + 1)
  <2>1. \A j \in 1..(n + 1) :
            t[j].begin \in Int /\ t[j].end \in Int /\ t[j].begin <= t[j].end
    BY DEF RangesUpTo
  <2>2. ASSUME NEW j \in 1..(n + 1), NEW k \in 1..(n + 1), j < k
        PROVE  t[j].end < t[k].begin
    BY <2>2 DEF RangesUpTo
  <2> QED BY <2>1, <2>2 DEF RangesUpTo
<1>2. ASSUME NEW x \in Int, HoldsUpTo(t, n + 1, x)
      PROVE  HoldsUpTo(s, n, x) /\ x # h
  <2>1. PICK k \in 1..(n + 1) : t[k].begin <= x /\ x <= t[k].end
    BY <1>2 DEF HoldsUpTo
  <2> QED BY <2>1 DEF RangesUpTo, HoldsUpTo
<1>3. ASSUME NEW x \in Int, HoldsUpTo(s, n, x), x # h
      PROVE  HoldsUpTo(t, n + 1, x)
  <2>1. PICK k \in 1..n : s[k].begin <= x /\ x <= s[k].end
    BY <1>3 DEF HoldsUpTo
  <2>2. CASE k < i
    BY <2>1, <2>2 DEF HoldsUpTo
  <2>3. CASE k = i
    BY <2>1, <2>3, <1>3 DEF HoldsUpTo, RangesUpTo
  <2>4. CASE k > i
    <3>1. k + 1 \in 1..(n + 1) /\ t[k + 1] = s[k]
      BY <2>4
    <3> QED BY <3>1, <2>1 DEF HoldsUpTo
  <2> QED BY <2>2, <2>3, <2>4
<1> QED BY <1>1, <1>2, <1>3

-------------------------------------------------------------------------------
\* The range list.

\* The elements of a range list.
LEMMA RangeListElems ==
    ASSUME NEW list \in Seq(Ranges)
    PROVE  /\ Len(list) \in Nat
           /\ \A j \in 1..Len(list) :
                  /\ list[j] \in Ranges
                  /\ list[j].begin \in Int /\ list[j].end \in Int
                  /\ 1 <= list[j].begin /\ list[j].begin <= MaxHandle
                  /\ 1 <= list[j].end /\ list[j].end <= MaxHandle
<1>1. Len(list) \in Nat /\ \A j \in 1..Len(list) : list[j] \in Ranges
  BY ElementOfSeq, LenProperties
<1>2. \A r \in Ranges : /\ r.begin \in Int /\ r.end \in Int
                        /\ 1 <= r.begin /\ r.begin <= MaxHandle
                        /\ 1 <= r.end /\ r.end <= MaxHandle
  BY MaxHandleAssumption DEF Ranges, Handles
<1> QED BY <1>1, <1>2

\* In a sorted list lower_bound finds the range that holds the name: the ranges
\* before it end too early, so it is the first that does not.
LEMMA LowerBoundFinds ==
    ASSUME NEW list \in Seq(Ranges), Sorted(list), NEW h \in Handles,
           Holds(list, h)
    PROVE  /\ LowerBound(list, h) \in 1..Len(list)
           /\ InRange(list[LowerBound(list, h)], h)
<1> DEFINE I == {i \in 1..Len(list) : list[i].end >= h}
<1>1. PICK i \in 1..Len(list) : InRange(list[i], h)
  BY DEF Holds
<1>2. \A j \in 1..Len(list) : list[j].begin \in Int /\ list[j].end \in Int
  BY RangeListElems
<1>3. i \in I
  BY <1>1, <1>2 DEF InRange, Handles
<1>4. \A j \in I : i <= j
  <2> SUFFICES ASSUME NEW j \in 1..Len(list), j < i
               PROVE  ~(list[j].end >= h)
    OBVIOUS
  <2>1. list[j].end < list[i].begin
    BY DEF Sorted
  <2> QED BY <2>1, <1>1, <1>2 DEF InRange, Handles
<1>5. \A m \in I : (\A j \in I : m <= j) => m = i
  BY <1>3, <1>4
<1>6. (CHOOSE m \in I : \A j \in I : m <= j) = i
  BY <1>3, <1>4, <1>5
<1>7. LowerBound(list, h) = i
  BY <1>3, <1>6 DEF LowerBound
<1> QED BY <1>1, <1>7

\* The two ways to speak of a range list agree.
LEMMA SameList ==
    ASSUME NEW list \in Seq(Ranges)
    PROVE  /\ Sorted(list) <=> RangesUpTo(list, Len(list))
           /\ \A x : Holds(list, x) <=> HoldsUpTo(list, Len(list), x)
BY RangeListElems DEF Sorted, Holds, InRange, RangesUpTo, HoldsUpTo

\* Taking a name out of the range that holds it keeps the list sorted and
\* removes that name and no other, in each of the four cases of reserve.
LEMMA CutRangeCorrect ==
    ASSUME NEW list \in Seq(Ranges), Sorted(list), NEW h \in Handles,
           NEW i \in 1..Len(list), InRange(list[i], h)
    PROVE  /\ CutRange(list, i, h) \in Seq(Ranges)
           /\ Sorted(CutRange(list, i, h))
           /\ \A x \in Handles :
                  Holds(CutRange(list, i, h), x) <=> Holds(list, x) /\ x # h
<1> DEFINE n == Len(list)
           b == list[i].begin
           e == list[i].end
           new == CutRange(list, i, h)
<1>1. /\ n \in Nat /\ h \in Int /\ MaxHandle \in Int /\ Handles \subseteq Int
      /\ b \in Int /\ e \in Int
      /\ 1 <= b /\ b <= h /\ h <= e /\ e <= MaxHandle
  BY RangeListElems, MaxHandleAssumption DEF InRange, Handles
<1>2. \A x, y \in Int : 1 <= x /\ x <= MaxHandle /\ 1 <= y /\ y <= MaxHandle
         => /\ HandleRange(x, y) \in Ranges
            /\ HandleRange(x, y).begin = x /\ HandleRange(x, y).end = y
  BY <1>1 DEF HandleRange, Ranges, Handles
<1>3. RangesUpTo(list, n)
  BY SameList
<1>4. SUFFICES /\ new \in Seq(Ranges)
               /\ RangesUpTo(new, Len(new))
               /\ \A x \in Int : HoldsUpTo(new, Len(new), x)
                                  <=> HoldsUpTo(list, n, x) /\ x # h
  BY <1>1, SameList
<1>5. CASE h = b /\ b = e
  <2>1. new = RemoveAt(list, i)
    BY <1>5 DEF CutRange, RemoveAt
  <2>2. /\ new \in Seq(Ranges)
        /\ Len(new) = n - 1
        /\ \A k \in 1..(n - 1) : new[k] = IF k < i THEN list[k] ELSE list[k + 1]
    BY <2>1, RemoveAtElems, Zenon
  <2> HIDE DEF new, n
  <2>3. i \in 1..n
    BY DEF n
  <2>4. Drops(new, list, n, i, h)
    BY <2>2, <2>3, <1>1, <1>5 DEF Drops
  <2> QED BY <2>2, <2>4, <1>3, RemoveRange
<1>6. ASSUME NEW c \in Int, NEW d \in Int, 1 <= c, c <= d, d <= MaxHandle,
             new = ReplaceAt(list, i, HandleRange(c, d)),
             \/ b = h /\ c = h + 1 /\ e = d
             \/ e = h /\ d = h - 1 /\ b = c
      PROVE  /\ new \in Seq(Ranges)
             /\ RangesUpTo(new, Len(new))
             /\ \A x \in Int : HoldsUpTo(new, Len(new), x)
                                <=> HoldsUpTo(list, n, x) /\ x # h
  <2>1. HandleRange(c, d) \in Ranges
    BY <1>1, <1>2, <1>6
  <2>2. /\ new \in Seq(Ranges)
        /\ Len(new) = n
        /\ \A k \in 1..n : new[k] = IF k = i THEN HandleRange(c, d) ELSE list[k]
    BY <2>1, <1>6, ExceptSeq DEF ReplaceAt
  <2> HIDE DEF new, n
  <2>3. i \in 1..n
    BY DEF n
  <2>4. new[i].begin = c /\ new[i].end = d
    BY <2>2, <2>3, <1>1, <1>2, <1>6
  <2>5. \A k \in 1..n : k # i => new[k] = list[k]
    BY <2>2
  <2>6. Shrinks(new, list, n, i, h)
    BY <2>3, <2>4, <2>5, <1>1, <1>6 DEF Shrinks
  <2> QED BY <2>2, <2>6, <1>3, ShrinkRange
<1>7. CASE h = b /\ b # e
  <2>1. new = ReplaceAt(list, i, HandleRange(b + 1, e))
    BY <1>7 DEF CutRange, ReplaceAt
  <2>2. b + 1 \in Int /\ 1 <= b + 1 /\ b + 1 <= e
    BY <1>1, <1>7
  <2> HIDE DEF new, n, b, e
  <2> QED BY <2>1, <2>2, <1>1, <1>6, <1>7
<1>8. CASE h # b /\ h = e
  <2>1. new = ReplaceAt(list, i, HandleRange(b, e - 1))
    BY <1>8 DEF CutRange, ReplaceAt
  <2>2. e - 1 \in Int /\ b <= e - 1 /\ e - 1 <= MaxHandle
    BY <1>1, <1>8
  <2> HIDE DEF new, n, b, e
  <2> QED BY <2>1, <2>2, <1>1, <1>6, <1>8
<1>9. CASE h # b /\ h # e
  <2> DEFINE l == HandleRange(b, h - 1)
             r == HandleRange(h + 1, e)
  <2>1. new = SplitAt(list, i, l, r)
    BY <1>9, Zenon DEF CutRange, SplitAt
  <2>2. /\ l \in Ranges /\ l.begin = b /\ l.end = h - 1
        /\ r \in Ranges /\ r.begin = h + 1 /\ r.end = e
    <3>1. /\ b \in Int /\ 1 <= b /\ b <= MaxHandle /\ h - 1 \in Int /\ 1 <= h - 1 /\ h - 1 <= MaxHandle
          /\ e \in Int /\ 1 <= e /\ e <= MaxHandle /\ h + 1 \in Int /\ 1 <= h + 1 /\ h + 1 <= MaxHandle
      BY <1>1, <1>9
    <3> HIDE DEF b, e
    <3> QED BY <1>2, <3>1, Zenon
  <2> HIDE DEF new, l, r
  <2>3. i \in 1..n
    OBVIOUS
  <2>4. /\ new \in Seq(Ranges)
        /\ Len(new) = n + 1
        /\ Expands(new, list, n, i, l, r)
    BY <2>1, <2>2, SplitElems
  <2> HIDE DEF n
  <2>7. Splits(new, list, n, i, h)
    BY <2>2, <2>3, <2>4, <1>1, <1>9 DEF Splits, Expands
  <2> QED BY <2>4, <2>7, <1>3, SplitRange
<1> QED BY <1>5, <1>7, <1>8, <1>9

\* allocate's fall-back takes the first name of the first range, and no other.
LEMMA PopFirstCorrect ==
    ASSUME NEW list \in Seq(Ranges), Sorted(list), list # <<>>
    PROVE  /\ list[1].begin \in Handles /\ Holds(list, list[1].begin)
           /\ PopFirst(list) \in Seq(Ranges)
           /\ Sorted(PopFirst(list))
           /\ \A x \in Handles :
                  Holds(PopFirst(list), x) <=> Holds(list, x) /\ x # list[1].begin
<1> DEFINE h == list[1].begin
<1>1. 1 \in 1..Len(list)
  BY EmptySeq, LenProperties
<1>2. h \in Handles /\ InRange(list[1], h) /\ list[1] \in Ranges
  BY <1>1, RangeListElems DEF Sorted, InRange, Handles
<1>3. PopFirst(list) = CutRange(list, 1, h)
  <2>1. Tail(list) = RemoveAt(list, 1)
    BY <1>1 DEF RemoveAt
  <2>2. CASE list[1].begin = list[1].end
    BY <2>1, <2>2 DEF PopFirst, CutRange, RemoveAt
  <2>3. CASE list[1].begin # list[1].end
    BY <2>3 DEF PopFirst, CutRange
  <2> QED BY <2>2, <2>3
<1> HIDE DEF h
<1>4. /\ CutRange(list, 1, h) \in Seq(Ranges)
      /\ Sorted(CutRange(list, 1, h))
      /\ \A x \in Handles : Holds(CutRange(list, 1, h), x) <=> Holds(list, x) /\ x # h
  BY <1>1, <1>2, CutRangeCorrect
<1>5. Holds(list, h)
  BY <1>1, <1>2 DEF Holds
<1> QED BY <1>2, <1>3, <1>4, <1>5 DEF h

-------------------------------------------------------------------------------
\* The inductive invariant: lower_bound finds the range that holds a free name
\* only in a sorted list, and the list stays sorted only if the name reserve
\* is given is in it, so the parts are proved together.
AllocatorInv == AllocatorTypeOK /\ RangesSorted /\ FreeListsExact

\* The list of a new or a reset allocator holds every name.
LEMMA FullList ==
    /\ <<HandleRange(1, MaxHandle)>> \in Seq(Ranges)
    /\ Sorted(<<HandleRange(1, MaxHandle)>>)
    /\ \A x \in Handles : Holds(<<HandleRange(1, MaxHandle)>>, x)
<1> DEFINE list == <<HandleRange(1, MaxHandle)>>
<1>1. /\ HandleRange(1, MaxHandle) \in Ranges
      /\ HandleRange(1, MaxHandle).begin = 1
      /\ HandleRange(1, MaxHandle).end = MaxHandle
  BY MaxHandleAssumption DEF HandleRange, Ranges, Handles
<1>2. list \in Seq(Ranges) /\ Len(list) = 1 /\ list[1] = HandleRange(1, MaxHandle)
  BY <1>1
<1> HIDE DEF list
<1>3. Sorted(list)
  BY <1>1, <1>2, MaxHandleAssumption DEF Sorted
<1>4. \A x \in Handles : Holds(list, x)
  BY <1>1, <1>2, MaxHandleAssumption DEF Holds, InRange, Handles
<1> QED BY <1>2, <1>3, <1>4 DEF list

LEMMA AllocatorInvInit == AllocatorInit => AllocatorInv
BY FullList DEF AllocatorInit, AllocatorInv, AllocatorTypeOK, RangesSorted, FreeListsExact

LEMMA AllocateKeeps ==
    ASSUME AllocatorInv, NEW h \in Handles, allocate(h)
    PROVE  AllocatorInv' /\ h \notin inUse
<1> USE DEF AllocatorInv, AllocatorTypeOK, RangesSorted, FreeListsExact
<1>1. CASE mReleasedList # {}
  BY <1>1 DEF allocate
<1>2. CASE mReleasedList = {}
  <2>1. /\ mUnallocatedList # <<>>
        /\ h = mUnallocatedList[1].begin
        /\ mUnallocatedList' = PopFirst(mUnallocatedList)
        /\ mReleasedList' = mReleasedList
        /\ inUse' = inUse \cup {h} /\ taken' = h
    BY <1>2 DEF allocate
  <2>2. /\ Holds(mUnallocatedList, h)
        /\ mUnallocatedList' \in Seq(Ranges)
        /\ Sorted(mUnallocatedList')
        /\ \A x \in Handles :
               Holds(mUnallocatedList', x) <=> Holds(mUnallocatedList, x) /\ x # h
    BY <2>1, PopFirstCorrect
  <2> QED BY <1>2, <2>1, <2>2
<1> QED BY <1>1, <1>2

LEMMA ReleaseKeeps ==
    ASSUME AllocatorInv, NEW h \in inUse, release(h)
    PROVE  AllocatorInv'
BY DEF AllocatorInv, AllocatorTypeOK, RangesSorted, FreeListsExact, release

LEMMA ReserveKeeps ==
    ASSUME AllocatorInv, NEW h \in Handles \ inUse, reserve(h)
    PROVE  AllocatorInv'
<1> USE DEF AllocatorInv, AllocatorTypeOK, RangesSorted, FreeListsExact
<1>1. CASE h \in mReleasedList
  BY <1>1 DEF reserve
<1>2. CASE h \notin mReleasedList
  <2> DEFINE i == LowerBound(mUnallocatedList, h)
  <2>1. /\ mUnallocatedList' = CutRange(mUnallocatedList, i, h)
        /\ mReleasedList' = mReleasedList
        /\ inUse' = inUse \cup {h} /\ taken' = h
    BY <1>2 DEF reserve
  <2>2. Holds(mUnallocatedList, h)
    BY <1>2
  <2>3. i \in 1..Len(mUnallocatedList) /\ InRange(mUnallocatedList[i], h)
    BY <2>2, LowerBoundFinds
  <2> HIDE DEF i
  <2>4. /\ mUnallocatedList' \in Seq(Ranges)
        /\ Sorted(mUnallocatedList')
        /\ \A x \in Handles :
               Holds(mUnallocatedList', x) <=> Holds(mUnallocatedList, x) /\ x # h
    BY <2>1, <2>3, CutRangeCorrect
  <2> QED BY <1>2, <2>1, <2>4
<1> QED BY <1>1, <1>2

LEMMA AllocatorInvStep == AllocatorInv /\ [AllocatorNext]_allocatorVars => AllocatorInv'
<1> SUFFICES ASSUME AllocatorInv, [AllocatorNext]_allocatorVars
             PROVE  AllocatorInv'
  OBVIOUS
<1>1. CASE Allocate
  BY <1>1, AllocateKeeps DEF Allocate
<1>2. CASE Release
  BY <1>2, ReleaseKeeps DEF Release
<1>3. CASE Reserve
  BY <1>3, ReserveKeeps DEF Reserve
<1>4. CASE Reset
  BY <1>4, FullList DEF Reset, resetAllocator, AllocatorInv, AllocatorTypeOK, RangesSorted, FreeListsExact
<1>5. CASE UNCHANGED allocatorVars
  BY <1>5 DEF allocatorVars, AllocatorInv, AllocatorTypeOK, RangesSorted, FreeListsExact
<1> QED BY <1>1, <1>2, <1>3, <1>4, <1>5 DEF AllocatorNext

-------------------------------------------------------------------------------
LEMMA AllocatorInvAlways == AllocatorSpec => []AllocatorInv
<1> QED BY AllocatorInvInit, AllocatorInvStep, PTL DEF AllocatorSpec

\* The lists of the allocator always hold names and ranges of names.
THEOREM ListsTypeCorrect == AllocatorSpec => []AllocatorTypeOK
<1>1. AllocatorInv => AllocatorTypeOK
  BY DEF AllocatorInv
<1> QED BY <1>1, AllocatorInvAlways, PTL

\* The range list is sorted before every lower_bound of reserve, whatever the
\* order of the calls.
THEOREM ListAlwaysSorted == AllocatorSpec => []RangesSorted
<1>1. AllocatorInv => RangesSorted
  BY DEF AllocatorInv
<1> QED BY <1>1, AllocatorInvAlways, PTL

\* At every moment each name is in exactly one of the two free lists or in use.
THEOREM NoNameLostOrShared == AllocatorSpec => []FreeListsExact
<1>1. AllocatorInv => FreeListsExact
  BY DEF AllocatorInv
<1> QED BY <1>1, AllocatorInvAlways, PTL

\* The two free lists implement the pool of unused names: allocate and reserve
\* only ever hand out a name that is not in use.
THEOREM ImplementsPool == AllocatorSpec => PoolSpec
<1>1. AllocatorInit => Pool!Init
  BY DEF AllocatorInit, Pool!Init
<1>2. AllocatorInv /\ [AllocatorNext]_allocatorVars => [Pool!Next]_(Pool!vars)
  <2> SUFFICES ASSUME AllocatorInv, [AllocatorNext]_allocatorVars
               PROVE  [Pool!Next]_(Pool!vars)
    OBVIOUS
  <2>1. CASE Allocate
    <3>1. PICK h \in Handles : allocate(h)
      BY <2>1 DEF Allocate
    <3>2. h \notin inUse /\ inUse' = inUse \cup {h} /\ taken' = h
      BY <3>1, AllocateKeeps DEF allocate
    <3> QED BY <3>2 DEF Pool!Next, Pool!Take
  <2>2. CASE Release
    BY <2>2 DEF Release, release, Pool!Next, Pool!Give
  <2>3. CASE Reserve
    BY <2>3 DEF Reserve, reserve, Pool!Next, Pool!Take
  <2>4. CASE Reset
    BY <2>4 DEF Reset, resetAllocator, Pool!Next, Pool!Clear
  <2>5. CASE UNCHANGED allocatorVars
    BY <2>5 DEF allocatorVars, Pool!vars
  <2> QED BY <2>1, <2>2, <2>3, <2>4, <2>5 DEF AllocatorNext
<1> QED BY <1>1, <1>2, AllocatorInvAlways, PTL DEF AllocatorSpec, PoolSpec, Pool!Spec


-------------------------------------------------------------------------------
(* The manager.  What its theorems suppose about the clients and vectors.  *)

\* The flat vector has room for every name that it is for, and never grows.
NoGrowth == \A h \in Names : h < kFlatResourcesLimit => h < kInitialFlatResourcesSize

\* Growing makes the map have names that the allocator has not given away, which
\* no client may use then.
Agreement == OnlyGenerated \/ NoGrowth

-------------------------------------------------------------------------------
(* The inductive invariant.                                                *)

Maps == [size : 1..kFlatResourcesLimit, value : [Names -> Pointers \cup {InvalidPointer}]]

\* The map, and the names that are in use.  The names that the flat vector has
\* no room for yet are not in the map, so that growing overwrites nothing.
MapOK(map, used) ==
    /\ map \in Maps /\ kInitialFlatResourcesSize <= map.size
    /\ \A h \in Names : map.size <= h /\ h < kFlatResourcesLimit => ~contains(map, h)
    /\ \A h \in used : contains(map, h)
    /\ \A h \in Names : map.value[h] \in Buffers => h \in used
    /\ NoGrowth => \A h \in Names : contains(map, h) => h \in used

\* The bindings to buffer b, and whether it has a name.
Holding(slots, b) == {cs \in Contexts \X Slots : slots[cs[1]][cs[2]] = b}
Named(map, b) == IF b \in resources(map) THEN 1 ELSE 0

\* RefCountExact and NameDenotesOne.
Counted(map, slots, refs) == \A b \in Buffers : refs[b] = Named(map, b) + Cardinality(Holding(slots, b))
Answering(map, ids) == \A h \in Names : map.value[h] \in Buffers => ids[map.value[h]] = h

IInv ==
    /\ AllocatorInv
    /\ MapOK(mObjectMap, inUse)
    /\ contexts \subseteq Contexts /\ mManagerRefs = Cardinality(contexts)
    /\ bound \in [Contexts -> [Slots -> Pointers]]
    /\ mVertexArray \in [Contexts -> VertexArrays]
    /\ mRefCount \in [Buffers -> Nat] /\ mId \in [Buffers -> Names]
    /\ Counted(mObjectMap, bound, mRefCount)
    /\ Answering(mObjectMap, mId)
    /\ \A c \in Contexts \ contexts : bound[c] = Unbound
    /\ contexts = {} => mObjectMap = EmptyMap /\ inUse = {}


-------------------------------------------------------------------------------
(* Bindings are finite in number, and how many there are after some are set.*)

LEMMA SlotsFinite == IsFiniteSet(Slots)
<1>. DEFINE a == {"Array"}
            b == a \cup {"ElementArray"}
            c == b \cup {"Uniform"}
            d == c \cup {"mUniformBuffers"}
            e == d \cup {"mElementArrayBuffer"}
            f == e \cup {"mVertexBindings"}
<1>1. IsFiniteSet(a)
  BY FS_Singleton, Zenon
<1>2. IsFiniteSet(b)
  BY <1>1, FS_AddElement
<1>3. IsFiniteSet(c)
  BY <1>2, FS_AddElement
<1>4. IsFiniteSet(d)
  BY <1>3, FS_AddElement
<1>5. IsFiniteSet(e)
  BY <1>4, FS_AddElement
<1>6. IsFiniteSet(f)
  BY <1>5, FS_AddElement
<1>7. IsFiniteSet({0} \cup {1})
  BY FS_Singleton, FS_AddElement, Zenon
<1>8. Slots \subseteq f \X ({0} \cup {1})
  BY TargetsAssumption DEF Slots, Generic, Indexed, Element, Attrib, VertexArrays
<1>. HIDE DEF f
<1>9. IsFiniteSet(f \X ({0} \cup {1}))
  BY <1>6, <1>7, FS_Product
<1>. QED
  BY <1>8, <1>9, FS_Subset

LEMMA HoldingFinite ==
    ASSUME NEW slots, NEW b
    PROVE  IsFiniteSet(Holding(slots, b)) /\ Cardinality(Holding(slots, b)) \in Nat
<1>1. IsFiniteSet(Contexts \X Slots)
  BY SlotsFinite, GroupAssumption, FS_Product
<1>2. Holding(slots, b) \in SUBSET (Contexts \X Slots)
  BY DEF Holding
<1>3. IsFiniteSet(Holding(slots, b))
  BY <1>1, <1>2, FS_Subset
<1>. QED
  BY <1>3, FS_CardinalityType

\* The slots S of context c, as bindings.
LEMMA SlotsOfContext ==
    ASSUME NEW c, NEW S \in SUBSET Slots
    PROVE  /\ IsFiniteSet({c} \X S) /\ Cardinality({c} \X S) = Cardinality(S)
           /\ Cardinality(S) \in Nat
<1>1. IsFiniteSet(S) /\ IsFiniteSet({c}) /\ Cardinality({c}) = 1
  BY SlotsFinite, FS_Subset, FS_Singleton
<1>2. Cardinality(S) \in Nat
  BY <1>1, FS_CardinalityType
<1>3. /\ IsFiniteSet({c} \X S)
      /\ Cardinality({c} \X S) = Cardinality({c}) * Cardinality(S)
  BY <1>1, FS_Product
<1>. QED
  BY <1>1, <1>2, <1>3

\* The slots S of context c are set to buffer.
WithSlots(slots, c, S, buffer) ==
    [slots EXCEPT ![c] = [s \in Slots |-> IF s \in S THEN buffer ELSE @[s]]]

SlotsSet(new, slots, c, S, buffer) ==
    /\ new \in [Contexts -> [Slots -> Pointers]]
    /\ \A s \in S : new[c][s] = buffer
    /\ \A s \in Slots \ S : new[c][s] = slots[c][s]
    /\ \A d \in Contexts \ {c} : new[d] = slots[d]

LEMMA WithSlotsEffect ==
    ASSUME NEW slots \in [Contexts -> [Slots -> Pointers]], NEW c \in Contexts,
           NEW S \in SUBSET Slots, NEW buffer \in Pointers
    PROVE  SlotsSet(WithSlots(slots, c, S, buffer), slots, c, S, buffer)
BY DEF WithSlots, SlotsSet

\* The count of b changes by the references gained and lost.
HeldAfter(new, slots, c, S, buffer, b) ==
    Cardinality(Holding(new, b)) =
        Cardinality(Holding(slots, b)) + (IF b = buffer THEN Cardinality(S) ELSE 0)
        - References(slots[c], S, b)

LEMMA HoldingAfter ==
    ASSUME NEW slots \in [Contexts -> [Slots -> Pointers]], NEW c \in Contexts,
           NEW S \in SUBSET Slots, NEW buffer \in Pointers,
           NEW new, SlotsSet(new, slots, c, S, buffer), NEW b
    PROVE  HeldAfter(new, slots, c, S, buffer, b)
<1>. DEFINE H == Holding(slots, b)
            T == {s \in S : slots[c][s] = b}
            L == {c} \X T
            U == IF b = buffer THEN S ELSE {}
            G == {c} \X U
<1>1. /\ \A s \in S : new[c][s] = buffer
      /\ \A s \in Slots \ S : new[c][s] = slots[c][s]
      /\ \A d \in Contexts \ {c} : new[d] = slots[d]
  BY DEF SlotsSet
<1>2. L \subseteq H
  BY DEF Holding
<1>3. (H \ L) \cap G = {}
  BY DEF Holding
<1>4. Holding(new, b) = (H \ L) \cup G
  <2>1. ASSUME NEW d \in Contexts, NEW s \in Slots
        PROVE  <<d, s>> \in Holding(new, b) <=> <<d, s>> \in (H \ L) \cup G
    <3>1. CASE d # c
      BY <1>1, <3>1 DEF Holding
    <3>2. CASE d = c /\ s \notin S
      BY <1>1, <3>2 DEF Holding
    <3>3. CASE d = c /\ s \in S
      BY <1>1, <3>3 DEF Holding
    <3>. QED
      BY <3>1, <3>2, <3>3
  <2>2. Holding(new, b) \subseteq Contexts \X Slots /\ (H \ L) \cup G \subseteq Contexts \X Slots
    BY DEF Holding
  <2>. QED
    BY <2>1, <2>2
<1>5. T \in SUBSET Slots /\ U \in SUBSET Slots /\ Cardinality(T) = References(slots[c], S, b)
  BY DEF References
<1>6. Cardinality(U) = IF b = buffer THEN Cardinality(S) ELSE 0
  BY FS_EmptySet
<1>. HIDE DEF T, U
<1>7. /\ IsFiniteSet(L) /\ Cardinality(L) = Cardinality(T) /\ Cardinality(T) \in Nat
      /\ IsFiniteSet(G) /\ Cardinality(G) = Cardinality(U) /\ Cardinality(U) \in Nat
  BY <1>5, SlotsOfContext, Zenon
<1>8. IsFiniteSet(H) /\ Cardinality(H) \in Nat
  BY HoldingFinite
<1>. HIDE DEF H, L, G
<1>9. H \cap L = L
  BY <1>2
<1>10. IsFiniteSet(H \ L) /\ Cardinality(H \ L) = Cardinality(H) - Cardinality(L)
  <2>1. IsFiniteSet(H \ L) /\ Cardinality(H \ L) = Cardinality(H) - Cardinality(H \cap L)
    BY <1>8, FS_Difference, Zenon
  <2>. QED
    BY <1>9, <2>1, Zenon
<1>11. Cardinality((H \ L) \cup G) =
           Cardinality(H \ L) + Cardinality(G) - Cardinality((H \ L) \cap G)
  BY <1>7, <1>10, FS_Union
<1>12. Cardinality((H \ L) \cap G) = 0
  BY <1>3, FS_EmptySet
<1>13. Cardinality(Holding(new, b)) = Cardinality(H) - Cardinality(T) + Cardinality(U)
  BY <1>4, <1>7, <1>8, <1>10, <1>11, <1>12
<1>14. Cardinality(Holding(new, b)) = Cardinality(H) + Cardinality(U) - Cardinality(T)
  BY <1>7, <1>8, <1>13
<1>. QED
  BY <1>5, <1>6, <1>14 DEF H, HeldAfter

\* SetSlots, given the counts and names that go with map.
LEMMA SetSlotsKeeps ==
    ASSUME bound \in [Contexts -> [Slots -> Pointers]], NEW c \in Contexts,
           NEW S \in SUBSET Slots, NEW buffer \in Pointers,
           NEW map, NEW refs, Counted(map, bound, refs),
           NEW ids \in [Buffers -> Names], Answering(map, ids),
           SetSlots(c, S, buffer, refs, ids)
    PROVE  /\ SlotsSet(bound', bound, c, S, buffer)
           /\ mRefCount' \in [Buffers -> Nat] /\ mId' \in [Buffers -> Names]
           /\ Counted(map, bound', mRefCount') /\ Answering(map, mId')
<1>1. /\ bound' = WithSlots(bound, c, S, buffer)
      /\ mRefCount' = [b \in Buffers |->
                          (refs[b] + (IF b = buffer THEN Cardinality(S) ELSE 0))
                          - References(bound[c], S, b)]
      /\ mId' = [b \in Buffers |-> IF mRefCount'[b] = 0 THEN 0 ELSE ids[b]]
  <2>1. releaseRefs(addRefs(refs, S, buffer), c, S) =
            [b \in Buffers |-> (refs[b] + (IF b = buffer THEN Cardinality(S) ELSE 0))
                               - References(bound[c], S, b)]
    <3>. DEFINE added == addRefs(refs, S, buffer)
                gained(b) == IF b = buffer THEN Cardinality(S) ELSE 0
                lost(b) == References(bound[c], S, b)
    <3>1. \A b \in Buffers : added[b] = refs[b] + gained(b)
      BY Zenon DEF addRefs
    <3>2. releaseRefs(added, c, S) = [b \in Buffers |-> added[b] - lost(b)]
      BY Zenon DEF releaseRefs
    <3>. HIDE DEF added, gained, lost
    <3>3. [b \in Buffers |-> added[b] - lost(b)] =
              [b \in Buffers |-> (refs[b] + gained(b)) - lost(b)]
      <4>1. ASSUME NEW b \in Buffers PROVE added[b] - lost(b) = (refs[b] + gained(b)) - lost(b)
        BY <3>1, Zenon
      <4>. QED
        BY <4>1, Zenon
    <3>. QED
      BY <3>2, <3>3, Zenon DEF added, gained, lost
  <2>. QED
    BY <2>1, Zenon DEF SetSlots, WithSlots
<1>2. SlotsSet(bound', bound, c, S, buffer)
  BY <1>1, WithSlotsEffect
<1>3. ASSUME NEW b \in Buffers
      PROVE  mRefCount'[b] \in Nat /\ mRefCount'[b] = Named(map, b) + Cardinality(Holding(bound', b))
  <2>. DEFINE k == IF b = buffer THEN Cardinality(S) ELSE 0
              r == References(bound[c], S, b)
              m == Cardinality(Holding(bound, b))
              n == Named(map, b)
              q == Cardinality(Holding(bound', b))
  <2>1. mRefCount'[b] = (refs[b] + k) - r /\ refs[b] = n + m
    BY <1>1 DEF Counted
  <2>2. q = m + k - r
    <3>. DEFINE new == bound'
    <3>2. SlotsSet(new, bound, c, S, buffer)
      BY <1>2
    <3>. HIDE DEF new
    <3>3. HeldAfter(new, bound, c, S, buffer, b)
      <4>. HIDE DEF k, r, m, n, q
      <4>. QED
        BY <3>2, HoldingAfter
    <3>. QED
      BY <3>3 DEF new, HeldAfter
  <2>3. m \in Nat /\ q \in Nat /\ n \in {0, 1}
    BY HoldingFinite DEF Named
  <2>4. k \in Nat
    BY SlotsOfContext, Zenon
  <2>5. r \in Nat
    <3>1. {s \in S : bound[c][s] = b} \in SUBSET Slots
      OBVIOUS
    <3>. QED
      BY <3>1, SlotsOfContext, Zenon DEF References
  <2>. HIDE DEF k, r, m, n, q
  <2>6. mRefCount'[b] = n + q
    BY <2>1, <2>2, <2>3, <2>4, <2>5
  <2>. QED
    BY <2>3, <2>6 DEF n, q
<1>4. mRefCount' \in [Buffers -> Nat] /\ Counted(map, bound', mRefCount')
  BY <1>1, <1>3 DEF Counted
<1>5. mId' \in [Buffers -> Names]
  BY <1>1, FlatSizesAssumption DEF Names
<1>6. ASSUME NEW h \in Names, map.value[h] \in Buffers
      PROVE  mId'[map.value[h]] = h
  <2>. DEFINE b == map.value[h]
  <2>1. b \in resources(map)
    BY <1>6, GroupAssumption DEF resources
  <2>2. Cardinality(Holding(bound', b)) \in Nat
    BY HoldingFinite
  <2>3. mRefCount'[b] # 0
    BY <1>3, <1>6, <2>1, <2>2 DEF Named
  <2>. QED
    BY <1>1, <1>6, <2>3 DEF Answering
<1>. QED
  BY <1>2, <1>4, <1>5, <1>6 DEF Answering

-------------------------------------------------------------------------------
(* The map.                                                                *)

\* The flat vector grows to a size that holds the name and that the limit
\* allows.
LEMMA GrownSizeEffect ==
    ASSUME NEW handle \in Names, handle < kFlatResourcesLimit
    PROVE  GrownSize(handle) \in handle + 1 .. kFlatResourcesLimit
<1>. DEFINE T == {size \in FlatSizes : size > handle}
            R == OpToRel(<, Nat)
<1>0. IsWellFoundedOn(R, Nat) /\ \A x, y \in Nat : x < y => <<x, y>> \in R
  BY NatLessThanWellFounded DEF OpToRel
<1>. HIDE DEF R
<1>1. T \subseteq Nat /\ kFlatResourcesLimit \in T /\ T \subseteq handle + 1 .. kFlatResourcesLimit
  BY FlatSizesAssumption DEF FlatSizes, Names
<1>2. PICK x \in T : \A y \in T : ~(<<y, x>> \in R)
  <2>. HIDE DEF T
  <2>. QED
    BY <1>0, <1>1, WFMin, Zenon
<1>3. ASSUME NEW y \in T PROVE x <= y
  <2>1. x \in Nat /\ y \in Nat
    BY <1>1
  <2>2. ~(<<y, x>> \in R)
    BY <1>2
  <2>3. ~(y < x)
    BY <1>0, <2>1, <2>2
  <2>. QED
    BY <2>1, <2>3
<1>4. Min(T) \in T
  BY <1>3 DEF Min
<1>. QED
  BY <1>1, <1>4 DEF GrownSize


\* What assign does: the name gets the resource, every other name that changes
\* was absent and is reserved without an object, which only growing does.
Assigned(new, map, handle, resource) ==
    /\ new \in Maps /\ map.size <= new.size
    /\ new.value[handle] = resource
    /\ \A h \in Names \ {handle} :
           \/ new.value[h] = map.value[h]
           \/ map.value[h] = InvalidPointer /\ new.value[h] = nullptr /\ ~NoGrowth
    /\ \A h \in Names : new.size <= h /\ h < kFlatResourcesLimit =>
           new.value[h] = map.value[h] /\ h # handle /\ map.size <= h

LEMMA AssignEffect ==
    ASSUME NEW used, NEW map, MapOK(map, used), NEW handle \in Names, NEW resource \in Pointers
    PROVE  Assigned(assign(map, handle, resource), map, handle, resource)
<1>. DEFINE grows == handle < kFlatResourcesLimit /\ handle >= map.size
            size == IF grows THEN GrownSize(handle) ELSE map.size
            value == [h \in Names |->
                         IF h = handle THEN resource
                         ELSE IF map.size <= h /\ h < size THEN nullptr
                         ELSE map.value[h]]
            new == assign(map, handle, resource)
<1>1. new = [size |-> size, value |-> value]
  BY DEF assign
<1>2. /\ map.size \in 1..kFlatResourcesLimit /\ kInitialFlatResourcesSize <= map.size
      /\ map.value \in [Names -> Pointers \cup {InvalidPointer}]
      /\ \A h \in Names : map.size <= h /\ h < kFlatResourcesLimit => map.value[h] = InvalidPointer
  BY DEF MapOK, Maps, contains
<1>3. \A h \in Names : h \in Int
  BY DEF Names
<1>4. kFlatResourcesLimit \in Nat /\ kInitialFlatResourcesSize \in Nat
  BY FlatSizesAssumption
<1>5. /\ size \in 1..kFlatResourcesLimit /\ map.size <= size
      /\ size <= handle => handle >= kFlatResourcesLimit
  <2>1. CASE grows
    <3>1. GrownSize(handle) \in handle + 1 .. kFlatResourcesLimit
      BY <2>1, GrownSizeEffect
    <3>2. size = GrownSize(handle)
      BY <2>1
    <3>. HIDE DEF size
    <3>. QED
      BY <1>2, <1>3, <1>4, <2>1, <3>1, <3>2
  <2>2. CASE ~grows
    <3>1. size = map.size
      BY <2>2
    <3>. HIDE DEF size
    <3>. QED
      BY <1>2, <1>3, <1>4, <2>2, <3>1
  <2>. QED
    BY <2>1, <2>2
<1>6. NoGrowth => size = map.size
  BY <1>2, <1>3, <1>4 DEF NoGrowth
<1>. HIDE DEF size
<1>7. value \in [Names -> Pointers \cup {InvalidPointer}]
  BY <1>2 DEF Pointers
<1>8. new.size = size /\ new.value = value /\ new \in Maps
  BY <1>1, <1>5, <1>7 DEF Maps
<1>. HIDE DEF new
<1>9. value[handle] = resource
  OBVIOUS
<1>10. ASSUME NEW h \in Names \ {handle}
       PROVE  \/ value[h] = map.value[h]
              \/ map.value[h] = InvalidPointer /\ value[h] = nullptr /\ ~NoGrowth
  <2>1. CASE map.size <= h /\ h < size
    <3>1. value[h] = nullptr
      BY <2>1
    <3>2. h < kFlatResourcesLimit /\ size # map.size
      BY <1>2, <1>3, <1>4, <1>5, <2>1
    <3>. QED
      BY <1>2, <1>6, <2>1, <3>1, <3>2
  <2>. QED
    BY <2>1, Zenon
<1>11. ASSUME NEW h \in Names, size <= h, h < kFlatResourcesLimit
       PROVE  value[h] = map.value[h] /\ h # handle /\ map.size <= h
  <2>1. h # handle
    BY <1>3, <1>4, <1>5, <1>11
  <2>2. map.size <= h /\ ~(h < size)
    BY <1>2, <1>3, <1>4, <1>5, <1>11
  <2>. QED
    BY <2>1, <2>2
<1>. QED
  BY <1>5, <1>8, <1>9, <1>10, <1>11, Zenon DEF Assigned, new


LEMMA ResourcesAreValues ==
    ASSUME NEW map, NEW b \in Buffers
    PROVE  b \in resources(map) <=> \E h \in Names : map.value[h] = b
BY GroupAssumption DEF resources

\* The buffer, if it is one, is all that the map has gained.
Gains(new, map, resource) ==
    \A b \in Buffers : b \in resources(new) <=> b \in resources(map) \/ b = resource

\* The map after assign to a name that denoted no buffer.
LEMMA AssignMap ==
    ASSUME NEW used \in SUBSET Names, NEW map, MapOK(map, used), NEW handle \in Names, NEW resource \in Pointers,
           map.value[handle] \notin Buffers,
           NEW new, Assigned(new, map, handle, resource)
    PROVE  MapOK(new, used \cup {handle}) /\ Gains(new, map, resource)
<1>1. /\ map \in Maps /\ kInitialFlatResourcesSize <= map.size
      /\ \A h \in Names : map.size <= h /\ h < kFlatResourcesLimit => ~contains(map, h)
      /\ \A h \in used : contains(map, h)
      /\ \A h \in Names : map.value[h] \in Buffers => h \in used
      /\ NoGrowth => \A h \in Names : contains(map, h) => h \in used
  BY DEF MapOK
<1>2. /\ new \in Maps /\ map.size <= new.size
      /\ new.value[handle] = resource
      /\ \A h \in Names \ {handle} :
             \/ new.value[h] = map.value[h]
             \/ map.value[h] = InvalidPointer /\ new.value[h] = nullptr /\ ~NoGrowth
      /\ \A h \in Names : new.size <= h /\ h < kFlatResourcesLimit =>
             new.value[h] = map.value[h] /\ h # handle /\ map.size <= h
  BY DEF Assigned
<1>3. \A b \in Buffers : b # nullptr /\ b # InvalidPointer
  BY GroupAssumption
<1>4. resource # InvalidPointer
  BY <1>3, PointersAssumption DEF Pointers
<1>5. kInitialFlatResourcesSize <= new.size
  BY <1>1, <1>2, FlatSizesAssumption DEF Maps
<1>6. \A h \in Names : new.size <= h /\ h < kFlatResourcesLimit => ~contains(new, h)
  BY <1>1, <1>2 DEF contains
<1>7. ASSUME NEW h \in used \cup {handle} PROVE contains(new, h)
  <2>1. CASE h = handle
    BY <1>2, <1>4, <2>1 DEF contains
  <2>2. CASE h # handle
    <3>1. map.value[h] # InvalidPointer
      BY <1>1, <1>7, <2>2 DEF contains
    <3>. QED
      BY <1>2, <1>7, <2>2, <3>1, PointersAssumption DEF contains
  <2>. QED
    BY <2>1, <2>2
<1>8. \A h \in Names : new.value[h] \in Buffers => h \in used \cup {handle}
  BY <1>1, <1>2, <1>3
<1>9. NoGrowth => \A h \in Names : contains(new, h) => h \in used \cup {handle}
  BY <1>1, <1>2 DEF contains
<1>10. MapOK(new, used \cup {handle})
  BY <1>2, <1>5, <1>6, <1>7, <1>8, <1>9 DEF MapOK
<1>11. ASSUME NEW b \in Buffers
       PROVE  b \in resources(new) <=> b \in resources(map) \/ b = resource
  <2>1. ASSUME NEW h \in Names \ {handle}
        PROVE  new.value[h] = b <=> map.value[h] = b
    BY <1>2, <1>3
  <2>2. map.value[handle] # b
    OBVIOUS
  <2>3. (\E h \in Names : new.value[h] = b) <=> (\E h \in Names : map.value[h] = b) \/ b = resource
    BY <1>2, <2>1, <2>2
  <2>. QED
    BY <2>3, ResourcesAreValues
<1>. QED
  BY <1>10, <1>11 DEF Gains

\* The map after erase.
LEMMA EraseMap ==
    ASSUME NEW used, NEW map, MapOK(map, used), NEW handle \in Names,
           NEW ids, Answering(map, ids)
    PROVE  /\ MapOK(erase(map, handle), used \ {handle})
           /\ Answering(erase(map, handle), ids)
           /\ \A b \in Buffers : b \in resources(erase(map, handle)) <=>
                  b \in resources(map) /\ b # map.value[handle]
<1>. DEFINE new == erase(map, handle)
<1>1. /\ map \in Maps /\ kInitialFlatResourcesSize <= map.size
      /\ \A h \in Names : map.size <= h /\ h < kFlatResourcesLimit => ~contains(map, h)
      /\ \A h \in used : contains(map, h)
      /\ \A h \in Names : map.value[h] \in Buffers => h \in used
      /\ NoGrowth => \A h \in Names : contains(map, h) => h \in used
  BY DEF MapOK
<1>2. /\ new \in Maps /\ new.size = map.size
      /\ new.value = [map.value EXCEPT ![handle] = InvalidPointer]
  BY <1>1 DEF Maps, erase
<1>3. /\ new.value[handle] = InvalidPointer
      /\ \A h : h # handle => new.value[h] = map.value[h]
  <2>1. map.value \in [Names -> Pointers \cup {InvalidPointer}]
    BY <1>1 DEF Maps
  <2>. HIDE DEF new
  <2>. QED
    BY <1>2, <2>1
<1>. HIDE DEF new
<1>4. \A b \in Buffers : b # InvalidPointer
  BY GroupAssumption
<1>5. MapOK(new, used \ {handle})
  <2>1. \A h \in Names : new.size <= h /\ h < kFlatResourcesLimit => ~contains(new, h)
    BY <1>1, <1>2, <1>3 DEF contains
  <2>2. \A h \in used \ {handle} : contains(new, h)
    BY <1>1, <1>3, Zenon DEF contains
  <2>3. \A h \in Names : new.value[h] \in Buffers => h \in used \ {handle}
    BY <1>1, <1>3, <1>4, Zenon
  <2>4. NoGrowth => \A h \in Names : contains(new, h) => h \in used \ {handle}
    BY <1>1, <1>3 DEF contains
  <2>. QED
    BY <1>1, <1>2, <2>1, <2>2, <2>3, <2>4 DEF MapOK
<1>6. Answering(new, ids)
  BY <1>3, <1>4 DEF Answering
<1>7. ASSUME NEW b \in Buffers
      PROVE  b \in resources(new) <=> b \in resources(map) /\ b # map.value[handle]
  <2>1. \A h \in Names : new.value[h] = b <=> map.value[h] = b /\ h # handle
    BY <1>3, <1>4
  <2>2. \A h \in Names : map.value[h] = b => ids[b] = h
    BY DEF Answering
  <2>3. (\E h \in Names : new.value[h] = b) <=>
            (\E h \in Names : map.value[h] = b) /\ b # map.value[handle]
    BY <2>1, <2>2
  <2>. QED
    BY <2>3, ResourcesAreValues
<1>. QED
  BY <1>5, <1>6, <1>7 DEF new

LEMMA EmptyMapOK ==
    /\ MapOK(EmptyMap, {})
    /\ \A ids : Answering(EmptyMap, ids)
    /\ \A b \in Buffers : b \notin resources(EmptyMap)
<1>1. EmptyMap.size = kInitialFlatResourcesSize /\ \A h \in Names : EmptyMap.value[h] = InvalidPointer
  BY DEF EmptyMap
<1>2. EmptyMap \in Maps
  BY FlatSizesAssumption DEF EmptyMap, Maps, FlatSizes
<1>3. \A b \in Buffers : b # InvalidPointer
  BY GroupAssumption
<1>4. MapOK(EmptyMap, {})
  BY <1>1, <1>2, <1>3, FlatSizesAssumption DEF MapOK, contains
<1>5. \A ids : Answering(EmptyMap, ids)
  BY <1>1, <1>3 DEF Answering
<1>. QED
  BY <1>1, <1>3, <1>4, <1>5, ResourcesAreValues


-------------------------------------------------------------------------------
(* The name allocator, by the lemmas about it.                             *)

LEMMA SameHandles == Handles = Names \ {0}
BY FlatSizesAssumption, SameNamesAssumption DEF Handles, Names

LEMMA AllocateStep ==
    ASSUME AllocatorInv, NEW h \in Handles, allocate(h)
    PROVE  AllocatorInv' /\ h \notin inUse /\ inUse' = inUse \cup {h}
BY AllocateKeeps DEF allocate

LEMMA ReleaseStep ==
    ASSUME AllocatorInv, NEW h \in inUse, release(h)
    PROVE  AllocatorInv' /\ inUse' = inUse \ {h}
BY ReleaseKeeps DEF release

LEMMA ReserveStep ==
    ASSUME AllocatorInv, NEW h \in Handles \ inUse, reserve(h)
    PROVE  AllocatorInv' /\ inUse' = inUse \cup {h}
BY ReserveKeeps DEF reserve

LEMMA ResetStep ==
    ASSUME AllocatorInv, resetAllocator
    PROVE  AllocatorInv' /\ inUse' = {}
<1>1. AllocatorNext
  BY DEF AllocatorNext, Reset
<1>. QED
  BY <1>1, AllocatorInvStep DEF resetAllocator

LEMMA SameLists ==
    ASSUME AllocatorInv, UNCHANGED allocatorVars
    PROVE  AllocatorInv'
BY AllocatorInvStep


-------------------------------------------------------------------------------
(* The operations preserve the invariant.                                  *)

LEMMA SetSlotsStep ==
    ASSUME IInv, NEW c \in contexts, NEW S \in SUBSET Slots, NEW buffer \in Pointers,
           NEW refs, Counted(mObjectMap', bound, refs),
           NEW ids \in [Buffers -> Names], Answering(mObjectMap', ids),
           SetSlots(c, S, buffer, refs, ids),
           AllocatorInv', MapOK(mObjectMap', inUse'),
           mVertexArray' \in [Contexts -> VertexArrays], UNCHANGED contextVars
    PROVE  IInv'
<1>1. /\ bound \in [Contexts -> [Slots -> Pointers]] /\ c \in Contexts
      /\ contexts \subseteq Contexts /\ mManagerRefs = Cardinality(contexts)
      /\ \A d \in Contexts \ contexts : bound[d] = Unbound
  BY DEF IInv
<1>2. contexts' = contexts /\ mManagerRefs' = mManagerRefs
  BY DEF contextVars
<1>3. /\ SlotsSet(bound', bound, c, S, buffer)
      /\ mRefCount' \in [Buffers -> Nat] /\ mId' \in [Buffers -> Names]
      /\ Counted(mObjectMap', bound', mRefCount') /\ Answering(mObjectMap', mId')
  BY <1>1, SetSlotsKeeps, Zenon
<1>4. /\ bound' \in [Contexts -> [Slots -> Pointers]]
      /\ \A d \in Contexts \ {c} : bound'[d] = bound[d]
  BY <1>3 DEF SlotsSet
<1>5. \A d \in Contexts \ contexts' : bound'[d] = Unbound
  BY <1>1, <1>2, <1>4
<1>6. contexts' # {} /\ contexts' \subseteq Contexts /\ mManagerRefs' = Cardinality(contexts')
  BY <1>1, <1>2
<1>. QED
  BY <1>3, <1>4, <1>5, <1>6, Zenon DEF IInv

\* The slots of one operation.
LEMMA SlotSets ==
    ASSUME NEW v \in VertexArrays
    PROVE  /\ \A t \in Targets : Generic(t) \in Slots
           /\ "ElementArray" \in Targets => Element(v) \in Slots
           /\ "Array" \in Targets => Attrib(v) \in Slots
           /\ "Uniform" \in Targets => Indexed \in Slots
           /\ VertexArraySlots(v) \subseteq Slots
BY Zenon DEF Slots, VertexArraySlots

LEMMA CreateContextStep ==
    ASSUME IInv, NEW c \in Contexts, CreateContext(c)
    PROVE  IInv'
<1>1. /\ c \notin contexts /\ contexts' = contexts \cup {c} /\ mManagerRefs' = mManagerRefs + 1
      /\ UNCHANGED <<allocatorVars, mObjectMap, bufferVars, bound, mVertexArray>>
  BY DEF CreateContext
<1>2. contexts' \subseteq Contexts /\ contexts' # {}
  BY <1>1 DEF IInv
<1>3. mManagerRefs' = Cardinality(contexts')
  <2>1. IsFiniteSet(contexts)
    BY GroupAssumption, FS_Subset DEF IInv
  <2>. QED
    BY <1>1, <2>1, FS_AddElement, Zenon DEF IInv
<1>4. AllocatorInv'
  BY <1>1, SameLists DEF IInv
<1>5. inUse' = inUse /\ mRefCount' = mRefCount /\ mId' = mId
  BY <1>1 DEF allocatorVars, bufferVars
<1>. QED
  BY <1>1, <1>2, <1>3, <1>4, <1>5 DEF IInv

LEMMA CreateBufferStep ==
    ASSUME IInv, NEW c \in contexts, createBuffer(c)
    PROVE  IInv'
<1>1. PICK h \in Handles :
          allocate(h) /\ mObjectMap' = assign(mObjectMap, h, nullptr)
  BY DEF createBuffer, AllocateEmptyObject
<1>2. AllocatorInv' /\ h \notin inUse /\ inUse' = inUse \cup {h}
  BY <1>1, AllocateStep DEF IInv
<1>3. UNCHANGED <<bufferVars, contextVars, bound, mVertexArray>>
  BY DEF createBuffer
<1>4. h \in Names /\ nullptr \in Pointers /\ inUse \in SUBSET Names
  BY SameHandles DEF Pointers, IInv, AllocatorInv, AllocatorTypeOK
<1>5. MapOK(mObjectMap, inUse) /\ mObjectMap.value[h] \notin Buffers
  BY <1>2, <1>4, Zenon DEF IInv, MapOK
<1>6. Assigned(mObjectMap', mObjectMap, h, nullptr)
  BY <1>1, <1>4, <1>5, AssignEffect
<1>7. MapOK(mObjectMap', inUse \cup {h}) /\ Gains(mObjectMap', mObjectMap, nullptr)
  BY <1>4, <1>5, <1>6, AssignMap
<1>8. Counted(mObjectMap', bound, mRefCount)
  BY <1>7, GroupAssumption DEF IInv, Counted, Named, Gains
<1>9. Answering(mObjectMap', mId)
  <2>1. \A g \in Names : mObjectMap'.value[g] \in Buffers => mObjectMap.value[g] = mObjectMap'.value[g]
    BY <1>6, GroupAssumption DEF Assigned
  <2>. QED
    BY <2>1, Zenon DEF IInv, Answering
<1>10. contexts' = contexts /\ mManagerRefs' = mManagerRefs /\ mRefCount' = mRefCount /\ mId' = mId
  BY <1>3 DEF contextVars, bufferVars
<1>. QED
  BY <1>2, <1>3, <1>7, <1>8, <1>9, <1>10 DEF IInv


\* A name that a client uses and the map has is in use.
LEMMA ContainedInUse ==
    ASSUME Agreement, IInv, NEW handle \in ClientNames, contains(mObjectMap, handle)
    PROVE  handle \in inUse
<1>1. handle \in Names
  BY SameHandles DEF ClientNames, IInv, AllocatorInv, AllocatorTypeOK
<1>. QED
  BY <1>1, Zenon DEF ClientNames, Agreement, IInv, MapOK

\* The name of a new object is in use once it is in the map.
LEMMA NameNewObjectStep ==
    ASSUME Agreement, IInv, NEW handle \in ClientNames, NEW buffer \in Pointers,
           mObjectMap.value[handle] \notin Buffers, NameNewObject(handle, buffer)
    PROVE  /\ AllocatorInv' /\ MapOK(mObjectMap', inUse')
           /\ Gains(mObjectMap', mObjectMap, buffer)
           /\ Assigned(mObjectMap', mObjectMap, handle, buffer)
<1>1. handle \in Handles /\ handle \in Names /\ inUse \in SUBSET Names
  BY SameHandles, Zenon DEF ClientNames, IInv, AllocatorInv, AllocatorTypeOK
<1>2. mObjectMap' = assign(mObjectMap, handle, buffer)
  BY DEF NameNewObject
<1>3. AllocatorInv /\ MapOK(mObjectMap, inUse)
  BY DEF IInv
<1>4. Assigned(mObjectMap', mObjectMap, handle, buffer)
  BY <1>1, <1>2, <1>3, AssignEffect
<1>5. MapOK(mObjectMap', inUse \cup {handle}) /\ Gains(mObjectMap', mObjectMap, buffer)
  BY <1>1, <1>3, <1>4, AssignMap
<1>6. AllocatorInv' /\ inUse' = inUse \cup {handle}
  <2>1. CASE contains(mObjectMap, handle)
    <3>1. handle \in inUse /\ UNCHANGED allocatorVars
      BY <2>1, ContainedInUse DEF NameNewObject
    <3>2. inUse' = inUse
      BY <3>1 DEF allocatorVars
    <3>. QED
      BY <1>3, <3>1, <3>2, SameLists
  <2>2. CASE ~contains(mObjectMap, handle)
    <3>1. handle \notin inUse /\ reserve(handle)
      BY <1>3, <2>2 DEF NameNewObject, MapOK
    <3>. QED
      BY <1>1, <1>3, <3>1, ReserveStep
  <2>. QED
    BY <2>1, <2>2
<1>. QED
  BY <1>4, <1>5, <1>6

LEMMA BindSlotsStep ==
    ASSUME Agreement, IInv, NEW c \in contexts, NEW S \in SUBSET Slots,
           NEW handle \in ClientNames \cup {0}, BindSlots(c, S, handle)
    PROVE  IInv'
<1>. DEFINE found == query(mObjectMap, handle)
<1>1. handle \in Names
  BY SameHandles, FlatSizesAssumption DEF ClientNames, IInv, AllocatorInv, AllocatorTypeOK, Names
<1>2. found \in Pointers
  BY <1>1 DEF query, IInv, MapOK, Maps, Pointers
<1>3. UNCHANGED contextVars /\ mVertexArray' \in [Contexts -> VertexArrays]
  BY Zenon DEF BindSlots, IInv
<1>4. /\ AllocatorInv /\ MapOK(mObjectMap, inUse)
      /\ mRefCount \in [Buffers -> Nat] /\ mId \in [Buffers -> Names]
      /\ Counted(mObjectMap, bound, mRefCount) /\ Answering(mObjectMap, mId)
  BY DEF IInv
<1>5. CASE SetSlots(c, S, found, mRefCount, mId) /\ UNCHANGED <<allocatorVars, mObjectMap>>
  <2>1. AllocatorInv' /\ mObjectMap' = mObjectMap /\ inUse' = inUse
    BY <1>4, <1>5, SameLists, Zenon DEF allocatorVars
  <2>2. MapOK(mObjectMap', inUse') /\ Counted(mObjectMap', bound, mRefCount) /\ Answering(mObjectMap', mId)
    BY <1>4, <2>1
  <2>. HIDE DEF found
  <2>. QED
    BY <1>2, <1>3, <1>4, <1>5, <2>1, <2>2, SetSlotsStep
<1>6. ASSUME handle # 0, found = nullptr,
             NEW buffer \in Buffers, mRefCount[buffer] = 0, NameNewObject(handle, buffer),
             SetSlots(c, S, buffer, [mRefCount EXCEPT ![buffer] = 1], [mId EXCEPT ![buffer] = handle])
      PROVE  IInv'
  <2>. DEFINE refs == [mRefCount EXCEPT ![buffer] = 1]
              ids == [mId EXCEPT ![buffer] = handle]
  <2>1. mObjectMap.value[handle] \notin Buffers
    BY <1>6, GroupAssumption, Zenon DEF query
  <2>2. handle \in ClientNames /\ buffer \in Pointers
    BY <1>6 DEF Pointers
  <2>3. /\ AllocatorInv' /\ MapOK(mObjectMap', inUse')
        /\ Gains(mObjectMap', mObjectMap, buffer)
        /\ Assigned(mObjectMap', mObjectMap, handle, buffer)
    BY <1>6, <2>1, <2>2, NameNewObjectStep, Zenon
  <2>4. buffer \notin resources(mObjectMap) /\ Cardinality(Holding(bound, buffer)) = 0
    <3>1. Cardinality(Holding(bound, buffer)) \in Nat
      BY HoldingFinite DEF IInv
    <3>2. 0 = Named(mObjectMap, buffer) + Cardinality(Holding(bound, buffer))
      BY <1>4, <1>6 DEF Counted
    <3>. QED
      BY <3>1, <3>2 DEF Named
  <2>5. ids \in [Buffers -> Names]
    BY <1>1, <1>4
  <2>6. Counted(mObjectMap', bound, refs)
    <3>1. ASSUME NEW b \in Buffers
          PROVE  refs[b] = Named(mObjectMap', b) + Cardinality(Holding(bound, b))
      <4>1. CASE b = buffer
        BY <1>4, <2>3, <2>4, <4>1 DEF Gains, Named
      <4>2. CASE b # buffer
        <5>1. Named(mObjectMap', b) = Named(mObjectMap, b)
          BY <2>3, <4>2 DEF Gains, Named
        <5>. QED
          BY <1>4, <4>2, <5>1 DEF Counted
      <4>. QED
        BY <4>1, <4>2
    <3>. QED
      BY <3>1 DEF Counted
  <2>7. Answering(mObjectMap', ids)
    <3>1. ASSUME NEW h \in Names, mObjectMap'.value[h] \in Buffers
          PROVE  ids[mObjectMap'.value[h]] = h
      <4>1. CASE h = handle
        BY <1>4, <2>3, <4>1, Zenon DEF Assigned
      <4>2. CASE h # handle
        <5>1. mObjectMap'.value[h] = mObjectMap.value[h]
          BY <2>3, <3>1, <4>2, GroupAssumption, Zenon DEF Assigned
        <5>2. mObjectMap.value[h] # buffer
          BY <2>4, ResourcesAreValues
        <5>. QED
          BY <1>4, <3>1, <5>1, <5>2, Zenon DEF Answering
      <4>. QED
        BY <4>1, <4>2
    <3>. QED
      BY <3>1 DEF Answering
  <2>8. SetSlots(c, S, buffer, refs, ids)
    BY <1>6
  <2>. HIDE DEF refs, ids
  <2>. QED
    BY <1>3, <2>2, <2>3, <2>5, <2>6, <2>7, <2>8, SetSlotsStep
<1>. QED
  BY <1>5, <1>6, Zenon DEF BindSlots, AllocateNewObject


LEMMA BindBufferStep ==
    ASSUME Agreement, IInv, NEW c \in contexts, NEW target \in Targets,
           NEW handle \in ClientNames \cup {0}, bindBuffer(c, target, handle)
    PROVE  IInv'
<1>. DEFINE S == {Generic(target)} \cup
                 (IF target = "ElementArray" THEN {Element(mVertexArray[c])} ELSE {})
<1>1. mVertexArray[c] \in VertexArrays
  BY DEF IInv
<1>2. S \in SUBSET Slots
  BY <1>1, SlotSets
<1>3. BindSlots(c, S, handle)
  BY DEF bindBuffer
<1>. QED
  BY <1>2, <1>3, BindSlotsStep

LEMMA BindBufferRangeStep ==
    ASSUME Agreement, IInv, NEW c \in contexts,
           NEW handle \in ClientNames \cup {0}, bindBufferRange(c, handle)
    PROVE  IInv'
<1>1. {Generic("Uniform"), Indexed} \in SUBSET Slots
  BY SlotSets DEF bindBufferRange, VertexArrays
<1>2. BindSlots(c, {Generic("Uniform"), Indexed}, handle)
  BY DEF bindBufferRange
<1>. QED
  BY <1>1, <1>2, BindSlotsStep

\* An operation that sets slots and leaves the names alone.
LEMMA SetSlotsOnlyStep ==
    ASSUME IInv, NEW c \in contexts, NEW S \in SUBSET Slots, NEW buffer \in Pointers,
           SetSlots(c, S, buffer, mRefCount, mId),
           UNCHANGED <<allocatorVars, mObjectMap, contextVars>>,
           mVertexArray' \in [Contexts -> VertexArrays]
    PROVE  IInv'
<1>1. AllocatorInv' /\ mObjectMap' = mObjectMap /\ inUse' = inUse /\ UNCHANGED contextVars
  BY SameLists DEF IInv, allocatorVars
<1>2. /\ MapOK(mObjectMap', inUse') /\ Counted(mObjectMap', bound, mRefCount)
      /\ Answering(mObjectMap', mId) /\ mId \in [Buffers -> Names]
  BY <1>1 DEF IInv
<1>. QED
  BY <1>1, <1>2, SetSlotsStep

LEMMA VertexAttribPointerStep ==
    ASSUME IInv, NEW c \in contexts, vertexAttribPointer(c)
    PROVE  IInv'
<1>1. mVertexArray[c] \in VertexArrays /\ "Array" \in Targets
  BY DEF IInv, vertexAttribPointer
<1>2. {Attrib(mVertexArray[c])} \in SUBSET Slots /\ Generic("Array") \in Slots
  BY <1>1, SlotSets
<1>3. bound[c][Generic("Array")] \in Pointers
  BY <1>2 DEF IInv
<1>4. mVertexArray' \in [Contexts -> VertexArrays]
  BY DEF vertexAttribPointer, IInv
<1>. QED
  BY <1>2, <1>3, <1>4, SetSlotsOnlyStep DEF vertexAttribPointer

LEMMA BindVertexArrayStep ==
    ASSUME IInv, NEW c \in contexts, NEW v \in VertexArrays, bindVertexArray(c, v)
    PROVE  IInv'
<1>1. /\ UNCHANGED allocatorVars /\ UNCHANGED <<mObjectMap, mRefCount, mId, mManagerRefs, contexts, bound>>
      /\ inUse' = inUse
  BY DEF bindVertexArray, allocatorVars, bufferVars, contextVars
<1>2. mVertexArray' \in [Contexts -> VertexArrays]
  BY DEF bindVertexArray, IInv
<1>3. AllocatorInv'
  BY <1>1, SameLists DEF IInv
<1>. QED
  BY <1>1, <1>2, <1>3 DEF IInv

LEMMA DeleteVertexArrayStep ==
    ASSUME IInv, NEW c \in contexts, deleteVertexArray(c)
    PROVE  IInv'
<1>1. VertexArraySlots(1) \in SUBSET Slots /\ nullptr \in Pointers
  BY SlotSets DEF VertexArrays, Pointers
<1>2. mVertexArray' \in [Contexts -> VertexArrays]
  BY DEF deleteVertexArray, IInv, VertexArrays
<1>. QED
  BY <1>1, <1>2, SetSlotsOnlyStep DEF deleteVertexArray

\* The buffer of the name is all that the map has lost.
Loses(new, map, resource) ==
    \A b \in Buffers : b \in resources(new) <=> b \in resources(map) /\ b # resource

LEMMA DeleteObjectStep ==
    ASSUME Agreement, IInv, NEW handle \in ClientNames, deleteObject(handle)
    PROVE  /\ AllocatorInv' /\ MapOK(mObjectMap', inUse') /\ Answering(mObjectMap', mId)
           /\ Loses(mObjectMap', mObjectMap, mObjectMap.value[handle])
<1>1. handle \in Names
  BY SameHandles DEF ClientNames, IInv, AllocatorInv, AllocatorTypeOK
<1>2. mObjectMap' = erase(mObjectMap, handle)
  BY DEF deleteObject
<1>3. AllocatorInv /\ MapOK(mObjectMap, inUse) /\ Answering(mObjectMap, mId)
  BY DEF IInv
<1>4. /\ MapOK(mObjectMap', inUse \ {handle}) /\ Answering(mObjectMap', mId)
      /\ Loses(mObjectMap', mObjectMap, mObjectMap.value[handle])
  BY <1>1, <1>2, <1>3, EraseMap, Zenon DEF Loses
<1>5. AllocatorInv' /\ inUse' = inUse \ {handle}
  <2>1. CASE contains(mObjectMap, handle)
    <3>1. handle \in inUse /\ release(handle)
      BY <2>1, ContainedInUse DEF deleteObject
    <3>. QED
      BY <1>3, <3>1, ReleaseStep
  <2>2. CASE ~contains(mObjectMap, handle)
    <3>1. handle \notin inUse /\ UNCHANGED allocatorVars
      BY <1>3, <2>2, Zenon DEF deleteObject, MapOK
    <3>2. inUse' = inUse
      BY <3>1 DEF allocatorVars
    <3>. QED
      BY <1>3, <3>1, <3>2, SameLists
  <2>. QED
    BY <2>1, <2>2
<1>. QED
  BY <1>4, <1>5


LEMMA DeleteBufferStep ==
    ASSUME Agreement, IInv, NEW c \in contexts, NEW handle \in ClientNames, deleteBuffer(c, handle)
    PROVE  IInv'
<1>. DEFINE buffer == query(mObjectMap, handle)
            S == DetachedSlots(c, handle)
            refs == [mRefCount EXCEPT ![buffer] = @ - 1]
<1>1. /\ AllocatorInv' /\ MapOK(mObjectMap', inUse') /\ Answering(mObjectMap', mId)
      /\ Loses(mObjectMap', mObjectMap, mObjectMap.value[handle])
  BY DeleteObjectStep DEF deleteBuffer
<1>2. UNCHANGED contextVars /\ UNCHANGED mVertexArray
  BY DEF deleteBuffer
<1>3. /\ mRefCount \in [Buffers -> Nat] /\ mId \in [Buffers -> Names]
      /\ Counted(mObjectMap, bound, mRefCount)
      /\ mVertexArray \in [Contexts -> VertexArrays] /\ contexts \subseteq Contexts
  BY DEF IInv
<1>4. CASE buffer = nullptr /\ UNCHANGED <<bound, bufferVars>>
  <2>1. mObjectMap.value[handle] \notin Buffers
    BY <1>4, GroupAssumption DEF query
  <2>2. Counted(mObjectMap', bound, mRefCount)
    BY <1>1, <1>3, <2>1 DEF Counted, Named, Loses
  <2>3. UNCHANGED <<bound, mRefCount, mId, mManagerRefs, contexts, mVertexArray>>
    BY <1>2, <1>4 DEF bufferVars, contextVars
  <2>. QED
    BY <1>1, <2>2, <2>3, Zenon DEF IInv
<1>5. CASE buffer # nullptr /\ SetSlots(c, S, nullptr, refs, mId)
  <2>1. handle \in Names
    BY SameHandles DEF ClientNames, IInv, AllocatorInv, AllocatorTypeOK
  <2>2. mObjectMap.value[handle] = buffer /\ buffer \in Buffers
    BY <1>5, <2>1, Zenon DEF query, IInv, MapOK, Maps, Pointers
  <2>3. buffer \in resources(mObjectMap)
    BY <2>1, <2>2, ResourcesAreValues
  <2>. HIDE DEF buffer
  <2>4. ASSUME NEW b \in Buffers
        PROVE  refs[b] = Named(mObjectMap', b) + Cardinality(Holding(bound, b))
    <3>1. Cardinality(Holding(bound, b)) \in Nat
      BY HoldingFinite DEF IInv
    <3>2. mRefCount[b] = Named(mObjectMap, b) + Cardinality(Holding(bound, b))
      BY <1>3 DEF Counted
    <3>3. CASE b = buffer
      <4>1. Named(mObjectMap, b) = 1 /\ Named(mObjectMap', b) = 0
        BY <1>1, <2>2, <2>3, <3>3 DEF Loses, Named
      <4>2. refs[b] = mRefCount[b] - 1
        BY <1>3, <3>3
      <4>. QED
        BY <3>1, <3>2, <4>1, <4>2
    <3>4. CASE b # buffer
      <4>1. Named(mObjectMap, b) = Named(mObjectMap', b)
        BY <1>1, <2>2, <3>4 DEF Loses, Named
      <4>2. refs[b] = mRefCount[b]
        BY <1>3, <3>4
      <4>. QED
        BY <3>2, <4>1, <4>2
    <3>. QED
      BY <3>3, <3>4
  <2>5. Counted(mObjectMap', bound, refs)
    BY <2>4 DEF Counted
  <2>6. S \in SUBSET Slots
    <3>1. mVertexArray[c] \in VertexArrays
      BY <1>3
    <3>. QED
      BY <3>1, SlotSets DEF DetachedSlots
  <2>7. nullptr \in Pointers /\ mVertexArray' \in [Contexts -> VertexArrays]
    BY <1>2, <1>3 DEF Pointers
  <2>. HIDE DEF S, refs
  <2>. QED
    BY <1>1, <1>2, <1>3, <1>5, <2>5, <2>6, <2>7, SetSlotsStep, Zenon
<1>. QED
  BY <1>4, <1>5, Zenon DEF deleteBuffer

LEMMA OnDestroyStep ==
    ASSUME IInv, NEW c \in contexts, onDestroy(c)
    PROVE  IInv'
<1>. DEFINE last == mManagerRefs = 1
            named == IF last THEN resources(mObjectMap) ELSE {}
            refs == [b \in Buffers |-> mRefCount[b] - (IF b \in named THEN 1 ELSE 0)]
<1>1. /\ SetSlots(c, Slots, nullptr, refs, mId)
      /\ IF last THEN reset ELSE UNCHANGED <<allocatorVars, mObjectMap>>
      /\ mManagerRefs' = mManagerRefs - 1
      /\ contexts' = contexts \ {c}
      /\ mVertexArray' = [mVertexArray EXCEPT ![c] = 0]
  BY DEF onDestroy, ContextSlots
<1>2. /\ AllocatorInv /\ MapOK(mObjectMap, inUse)
      /\ contexts \subseteq Contexts /\ mManagerRefs = Cardinality(contexts)
      /\ bound \in [Contexts -> [Slots -> Pointers]] /\ mVertexArray \in [Contexts -> VertexArrays]
      /\ mRefCount \in [Buffers -> Nat] /\ mId \in [Buffers -> Names]
      /\ Counted(mObjectMap, bound, mRefCount) /\ Answering(mObjectMap, mId)
      /\ \A d \in Contexts \ contexts : bound[d] = Unbound
  BY DEF IInv
<1>3. IsFiniteSet(contexts)
  BY <1>2, GroupAssumption, FS_Subset
<1>4. contexts' \subseteq Contexts /\ mManagerRefs' = Cardinality(contexts')
  BY <1>1, <1>2, <1>3, FS_RemoveElement, Zenon
<1>5. /\ AllocatorInv' /\ MapOK(mObjectMap', inUse')
      /\ Answering(mObjectMap', mId) /\ Counted(mObjectMap', bound, refs)
      /\ contexts' = {} => mObjectMap' = EmptyMap /\ inUse' = {}
  <2>1. CASE last
    <3>1. AllocatorInv' /\ inUse' = {} /\ mObjectMap' = EmptyMap
      BY <1>1, <1>2, <2>1, ResetStep DEF reset
    <3>2. MapOK(mObjectMap', inUse') /\ Answering(mObjectMap', mId)
      BY <3>1, EmptyMapOK
    <3>3. ASSUME NEW b \in Buffers
          PROVE  refs[b] = Named(mObjectMap', b) + Cardinality(Holding(bound, b))
      <4>1. Cardinality(Holding(bound, b)) \in Nat
        BY <1>2, HoldingFinite
      <4>2. mRefCount[b] = Named(mObjectMap, b) + Cardinality(Holding(bound, b))
        BY <1>2 DEF Counted
      <4>3. refs[b] = mRefCount[b] - Named(mObjectMap, b)
        BY <2>1 DEF Named
      <4>4. Named(mObjectMap', b) = 0
        BY <3>1, EmptyMapOK DEF Named
      <4>5. Named(mObjectMap, b) \in Nat
        BY DEF Named
      <4>. QED
        BY <4>1, <4>2, <4>3, <4>4, <4>5
    <3>. QED
      BY <3>1, <3>2, <3>3 DEF Counted
  <2>2. CASE ~last
    <3>1. UNCHANGED <<allocatorVars, mObjectMap>>
      BY <1>1, <2>2
    <3>2. AllocatorInv' /\ mObjectMap' = mObjectMap /\ inUse' = inUse
      BY <1>2, <3>1, SameLists DEF allocatorVars
    <3>3. refs = mRefCount
      BY <1>2, <2>2
    <3>4. contexts' # {}
      <4>1. contexts' = {} => contexts = {c}
        BY <1>1
      <4>2. contexts = {c} => Cardinality(contexts) = 1
        BY FS_Singleton
      <4>. QED
        BY <1>2, <2>2, <4>1, <4>2
    <3>. QED
      BY <1>2, <3>2, <3>3, <3>4
  <2>. QED
    BY <2>1, <2>2
<1>6. /\ SlotsSet(bound', bound, c, Slots, nullptr)
      /\ mRefCount' \in [Buffers -> Nat] /\ mId' \in [Buffers -> Names]
      /\ Counted(mObjectMap', bound', mRefCount') /\ Answering(mObjectMap', mId')
  <2>1. c \in Contexts /\ Slots \in SUBSET Slots /\ nullptr \in Pointers
    BY <1>2 DEF Pointers
  <2>. HIDE DEF refs
  <2>. QED
    BY <1>1, <1>2, <1>5, <2>1, SetSlotsKeeps, Zenon
<1>7. /\ bound' \in [Contexts -> [Slots -> Pointers]]
      /\ \A s \in Slots : bound'[c][s] = nullptr
      /\ \A d \in Contexts \ {c} : bound'[d] = bound[d]
  BY <1>6, Zenon DEF SlotsSet
<1>8. ASSUME NEW d \in Contexts \ contexts' PROVE bound'[d] = Unbound
  <2>1. CASE d = c
    BY <1>7, <2>1 DEF Unbound
  <2>2. CASE d # c
    BY <1>1, <1>2, <1>7, <2>2
  <2>. QED
    BY <2>1, <2>2
<1>9. mVertexArray' \in [Contexts -> VertexArrays]
  BY <1>1, <1>2 DEF VertexArrays
<1>. QED
  BY <1>4, <1>5, <1>6, <1>7, <1>8, <1>9, Zenon DEF IInv


-------------------------------------------------------------------------------
(* The invariant holds always.                                             *)

LEMMA InitIInv == Init => IInv
<1>. SUFFICES ASSUME Init PROVE IInv
  OBVIOUS
<1>1. AllocatorInv
  BY AllocatorInvInit DEF Init
<1>2. inUse = {} /\ mObjectMap = EmptyMap /\ contexts = {} /\ mManagerRefs = 0
  BY DEF Init, AllocatorInit
<1>3. MapOK(mObjectMap, inUse) /\ Answering(mObjectMap, mId)
  BY <1>2, EmptyMapOK
<1>4. mManagerRefs = Cardinality(contexts)
  BY <1>2, FS_EmptySet
<1>5. /\ bound \in [Contexts -> [Slots -> Pointers]]
      /\ mVertexArray \in [Contexts -> VertexArrays]
      /\ \A c \in Contexts : bound[c] = Unbound
  BY DEF Init, Unbound, Pointers, VertexArrays
<1>6. mRefCount \in [Buffers -> Nat] /\ mId \in [Buffers -> Names]
  BY FlatSizesAssumption DEF Init, Names
<1>7. ASSUME NEW b \in Buffers
      PROVE  mRefCount[b] = Named(mObjectMap, b) + Cardinality(Holding(bound, b))
  <2>1. Named(mObjectMap, b) = 0
    BY <1>2, EmptyMapOK DEF Named
  <2>2. Holding(bound, b) = {}
    BY <1>5, GroupAssumption DEF Holding, Unbound
  <2>. QED
    BY <2>1, <2>2, FS_EmptySet DEF Init
<1>. QED
  BY <1>1, <1>2, <1>3, <1>4, <1>5, <1>6, <1>7 DEF IInv, Counted

LEMMA NextIInv ==
    ASSUME Agreement, IInv, [Next]_vars
    PROVE  IInv'
<1>1. ASSUME NEW c \in Contexts, CreateContext(c) PROVE IInv'
  BY <1>1, CreateContextStep
<1>2. ASSUME NEW c \in contexts, createBuffer(c) PROVE IInv'
  BY <1>2, CreateBufferStep
<1>3. ASSUME NEW c \in contexts, NEW t \in Targets, NEW h \in ClientNames \cup {0}, bindBuffer(c, t, h)
      PROVE  IInv'
  BY <1>3, BindBufferStep
<1>4. ASSUME NEW c \in contexts, NEW h \in ClientNames \cup {0}, bindBufferRange(c, h) PROVE IInv'
  BY <1>4, BindBufferRangeStep
<1>5. ASSUME NEW c \in contexts, vertexAttribPointer(c) PROVE IInv'
  BY <1>5, VertexAttribPointerStep
<1>6. ASSUME NEW c \in contexts, NEW v \in VertexArrays, bindVertexArray(c, v) PROVE IInv'
  BY <1>6, BindVertexArrayStep
<1>7. ASSUME NEW c \in contexts, deleteVertexArray(c) PROVE IInv'
  BY <1>7, DeleteVertexArrayStep
<1>8. ASSUME NEW c \in contexts, NEW h \in ClientNames, deleteBuffer(c, h) PROVE IInv'
  BY <1>8, DeleteBufferStep
<1>9. ASSUME NEW c \in contexts, onDestroy(c) PROVE IInv'
  BY <1>9, OnDestroyStep
<1>10. CASE UNCHANGED vars
  <2>1. /\ UNCHANGED allocatorVars
        /\ UNCHANGED <<mObjectMap, mRefCount, mId, mManagerRefs, contexts, bound, mVertexArray>>
        /\ inUse' = inUse
    BY <1>10 DEF vars, allocatorVars, bufferVars, contextVars
  <2>2. AllocatorInv'
    BY <2>1, SameLists DEF IInv
  <2>. QED
    BY <2>1, <2>2 DEF IInv
<1>. QED
  BY <1>1, <1>2, <1>3, <1>4, <1>5, <1>6, <1>7, <1>8, <1>9, <1>10 DEF Next

LEMMA IInvAlways ==
    ASSUME Agreement
    PROVE  Spec => []IInv
<1>1. IInv /\ [Next]_vars => IInv'
  BY NextIInv
<1>. QED
  BY <1>1, InitIInv, PTL DEF Spec

-------------------------------------------------------------------------------
(* What the inductive invariant says about the group.                      *)

\* No count of the group goes below 0: neither the manager's nor a buffer's.
THEOREM TypeCorrect ==
    ASSUME Agreement
    PROVE  Spec => []TypeOK
<1>1. IInv => TypeOK
  <2>. SUFFICES ASSUME IInv PROVE TypeOK
    OBVIOUS
  <2>1. AllocatorTypeOK
    BY DEF IInv, AllocatorInv
  <2>. QED
    BY <2>1 DEF IInv, TypeOK, MapOK, Maps
<1>. QED
  BY <1>1, IInvAlways, PTL

\* BindingPointer::set, deleteObject and onDestroy: whatever the contexts bind,
\* delete, name again and in whichever order they go, the count of a buffer is
\* the number of names and bindings that refer to it.
THEOREM RefCountExactTheorem ==
    ASSUME Agreement
    PROVE  Spec => []RefCountExact
<1>1. IInv => RefCountExact
  BY DEF IInv, Counted, Named, Holding, RefCountExact, CountedReferences
<1>. QED
  BY <1>1, IInvAlways, PTL

\* checkObjectAllocation and deleteObject: a name denotes the buffer that was
\* created under it, also while an older buffer of that name is still bound.
THEOREM NameDenotesOneTheorem ==
    ASSUME Agreement
    PROVE  Spec => []NameDenotesOne
<1>1. IInv => NameDenotesOne
  <2>. SUFFICES ASSUME IInv, NEW h \in Handles, query(mObjectMap, h) # nullptr
                PROVE  mId[query(mObjectMap, h)] = h
    BY DEF NameDenotesOne
  <2>1. h \in Names
    BY SameHandles
  <2>2. mObjectMap.value[h] \in Buffers /\ query(mObjectMap, h) = mObjectMap.value[h]
    BY <2>1 DEF query, IInv, MapOK, Maps, Pointers
  <2>. QED
    BY <2>1, <2>2 DEF IInv, Answering
<1>. QED
  BY <1>1, IInvAlways, PTL

\* onDestroy: when the last context of the group has gone, every buffer has
\* been freed and every name is free.
THEOREM NothingOutlivesGroupTheorem ==
    ASSUME Agreement
    PROVE  Spec => []NothingOutlivesGroup
<1>1. IInv => NothingOutlivesGroup
  <2>. SUFFICES ASSUME IInv, contexts = {}
                PROVE  (\A b \in Buffers : mRefCount[b] = 0) /\ inUse = {}
    BY DEF NothingOutlivesGroup
  <2>1. mObjectMap = EmptyMap /\ inUse = {} /\ \A c \in Contexts : bound[c] = Unbound
    BY DEF IInv
  <2>2. ASSUME NEW b \in Buffers PROVE mRefCount[b] = 0
    <3>1. Named(mObjectMap, b) = 0
      BY <2>1, EmptyMapOK DEF Named
    <3>2. Holding(bound, b) = {}
      BY <2>1, GroupAssumption DEF Holding, Unbound
    <3>3. mRefCount[b] = Named(mObjectMap, b) + Cardinality(Holding(bound, b))
      BY DEF IInv, Counted
    <3>. QED
      BY <3>1, <3>2, <3>3, FS_EmptySet
  <2>. QED
    BY <2>1, <2>2
<1>. QED
  BY <1>1, IInvAlways, PTL

\* assign, erase and the name allocator: while the flat vector does not grow,
\* the names of the map are the names in use, whatever names clients choose.
THEOREM MapMatchesAllocatorTheorem ==
    ASSUME NoGrowth
    PROVE  Spec => []MapMatchesAllocator
<1>1. IInv => MapMatchesAllocator
  <2>. SUFFICES ASSUME IInv PROVE MapMatchesAllocator
    OBVIOUS
  <2>1. \A h \in Handles : h \in Names
    BY SameHandles
  <2>. QED
    BY <2>1, Zenon DEF IInv, MapOK, MapMatchesAllocator, ContainsOnlyReserved
<1>2. Agreement
  BY DEF Agreement
<1>. QED
  BY <1>1, <1>2, IInvAlways, PTL


-------------------------------------------------------------------------------
(* The group keeps to the discipline of the name allocator.                *)

LEMMA NameNewObjectDiscipline ==
    ASSUME IInv, NEW handle \in ClientNames, NEW buffer, NameNewObject(handle, buffer)
    PROVE  AllocatorNext \/ UNCHANGED allocatorVars
<1>1. CASE contains(mObjectMap, handle)
  BY <1>1 DEF NameNewObject
<1>2. CASE ~contains(mObjectMap, handle)
  <2>1. handle \in Handles
    BY SameHandles DEF ClientNames, IInv, AllocatorInv, AllocatorTypeOK
  <2>2. handle \notin inUse /\ reserve(handle)
    BY <1>2, Zenon DEF NameNewObject, IInv, MapOK
  <2>. QED
    BY <2>1, <2>2 DEF AllocatorNext, Reserve
<1>. QED
  BY <1>1, <1>2

LEMMA BindSlotsDiscipline ==
    ASSUME IInv, NEW c, NEW S, NEW handle \in ClientNames \cup {0}, BindSlots(c, S, handle)
    PROVE  AllocatorNext \/ UNCHANGED allocatorVars
<1>1. CASE UNCHANGED <<allocatorVars, mObjectMap>>
  BY <1>1
<1>2. CASE handle # 0 /\ \E buffer : NameNewObject(handle, buffer)
  BY <1>2, NameNewObjectDiscipline
<1>. QED
  BY <1>1, <1>2, Zenon DEF BindSlots

LEMMA DeleteDiscipline ==
    ASSUME Agreement, IInv, NEW handle \in ClientNames, deleteObject(handle)
    PROVE  AllocatorNext \/ UNCHANGED allocatorVars
<1>1. CASE contains(mObjectMap, handle)
  <2>1. handle \in inUse /\ release(handle)
    BY <1>1, ContainedInUse DEF deleteObject
  <2>. QED
    BY <2>1 DEF AllocatorNext, Release
<1>2. CASE ~contains(mObjectMap, handle)
  BY <1>2 DEF deleteObject
<1>. QED
  BY <1>1, <1>2

\* The group releases only names that are in use and reserves only names that
\* are not, and resets the allocator with the last context: each of its steps
\* is one that HandleAllocator allows, or leaves the allocator alone.
THEOREM AllocatorDisciplineTheorem ==
    ASSUME Agreement
    PROVE  Spec => AllocatorDiscipline
<1>1. Init => AllocatorInit
  BY DEF Init
<1>2. IInv /\ [Next]_vars => [AllocatorNext]_allocatorVars
  <2>. SUFFICES ASSUME IInv, [Next]_vars
                PROVE  AllocatorNext \/ UNCHANGED allocatorVars
    OBVIOUS
  <2>1. ASSUME NEW c \in Contexts, CreateContext(c) PROVE UNCHANGED allocatorVars
    BY <2>1 DEF CreateContext
  <2>2. ASSUME NEW c \in contexts, createBuffer(c) PROVE AllocatorNext
    BY <2>2 DEF createBuffer, AllocateEmptyObject, AllocatorNext, Allocate
  <2>3. ASSUME NEW c \in contexts, NEW t \in Targets, NEW h \in ClientNames \cup {0}, bindBuffer(c, t, h)
        PROVE  AllocatorNext \/ UNCHANGED allocatorVars
    BY <2>3, BindSlotsDiscipline DEF bindBuffer
  <2>4. ASSUME NEW c \in contexts, NEW h \in ClientNames \cup {0}, bindBufferRange(c, h)
        PROVE  AllocatorNext \/ UNCHANGED allocatorVars
    BY <2>4, BindSlotsDiscipline DEF bindBufferRange
  <2>5. ASSUME NEW c \in contexts, vertexAttribPointer(c) PROVE UNCHANGED allocatorVars
    BY <2>5, Zenon DEF vertexAttribPointer
  <2>6. ASSUME NEW c \in contexts, NEW v \in VertexArrays, bindVertexArray(c, v)
        PROVE  UNCHANGED allocatorVars
    BY <2>6 DEF bindVertexArray
  <2>7. ASSUME NEW c \in contexts, deleteVertexArray(c) PROVE UNCHANGED allocatorVars
    BY <2>7 DEF deleteVertexArray
  <2>8. ASSUME NEW c \in contexts, NEW h \in ClientNames, deleteBuffer(c, h)
        PROVE  AllocatorNext \/ UNCHANGED allocatorVars
    BY <2>8, DeleteDiscipline DEF deleteBuffer
  <2>9. ASSUME NEW c \in contexts, onDestroy(c)
        PROVE  AllocatorNext \/ UNCHANGED allocatorVars
    BY <2>9 DEF onDestroy, reset, AllocatorNext, Reset
  <2>10. CASE UNCHANGED vars
    BY <2>10 DEF vars
  <2>. QED
    BY <2>1, <2>2, <2>3, <2>4, <2>5, <2>6, <2>7, <2>8, <2>9, <2>10 DEF Next
<1>. QED
  BY <1>1, <1>2, IInvAlways, PTL DEF Spec, AllocatorDiscipline, AllocatorSpec
===============================================================================
