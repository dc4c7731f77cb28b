--------------------------- MODULE PathManagerProofs --------------------------
(***************************************************************************)
(* Proofs about PathManager and its HandleRangeAllocator, for every width  *)
(* of GLuint: the map of used ranges is the list of maximal runs of the    *)
(* names in use, from which everything else follows.                       *)
(***************************************************************************)
EXTENDS PathManager, FiniteCounting, TLAPS

-------------------------------------------------------------------------------
(* Handle ranges.                                                          *)

\* GLuint and GLsizei.
LEMMA LastHandle == MaxHandle \in Nat /\ 1 <= MaxHandle /\ MaxRange \in Nat /\ MaxRange <= MaxHandle
BY WidthAssumption DEF MaxHandle, MaxRange

LEMMA Remainder ==
    ASSUME NEW m \in Nat, m > 0, NEW n \in Nat, n < 2 * m
    PROVE  n % m = IF n < m THEN n ELSE n - m
OBVIOUS

LEMMA GLuintWraps ==
    ASSUME NEW n \in Nat, n <= 2 * MaxHandle + 1
    PROVE  GLuint(n) = IF n <= MaxHandle THEN n ELSE n - MaxHandle - 1
<1>. DEFINE m == 2^Width
<1>1. m \in Nat /\ m > 0 /\ MaxHandle = m - 1 /\ GLuint(n) = n % m
  BY WidthAssumption DEF MaxHandle, GLuint
<1>. HIDE DEF m
<1>2. n % m = IF n < m THEN n ELSE n - m
  BY <1>1, Remainder
<1>. QED
  BY <1>1, <1>2

-------------------------------------------------------------------------------
(* The least and the greatest of a set of names.                           *)

LEMMA LeastIs ==
    ASSUME Counting, NEW S \in SUBSET (0 .. MaxHandle), S # {}
    PROVE  Min(S) \in S /\ \A y \in S : Min(S) <= y
<1>1. S \in SUBSET Nat
  BY LastHandle
<1>2. \E x \in S : \A y \in S : x <= y
  BY <1>1, Zenon DEF Counting
<1>. QED
  BY <1>2, Zenon DEF Min

LEMMA GreatestIs ==
    ASSUME Counting, NEW S \in SUBSET (0 .. MaxHandle), S # {}
    PROVE  Max(S) \in S /\ \A y \in S : y <= Max(S)
<1>. DEFINE T == {MaxHandle - x : x \in S}
<1>1. T \in SUBSET Nat /\ T # {}
  <2>1. \A x \in S : MaxHandle - x \in Nat
    BY LastHandle
  <2>. QED
    BY <2>1, Zenon
<1>2. PICK n \in T : \A m \in T : n <= m
  BY <1>1, Zenon DEF Counting
<1>3. PICK x \in S : n = MaxHandle - x
  BY <1>2
<1>4. \A y \in S : x >= y
  BY <1>2, <1>3, LastHandle
<1>5. Max(S) \in S /\ \A y \in S : Max(S) >= y
  BY <1>4, Zenon DEF Max
<1>. QED
  BY <1>5, LastHandle

-------------------------------------------------------------------------------
(* Ranges that are the maximal runs of a set of names.                     *)

\* A set of names, of which 0 is one.
Numbers(ns) == ns \in SUBSET (0 .. MaxHandle) /\ 0 \in ns

\* MaximalRuns, for any map.
Runs(m, ns) ==
    /\ m = [k \in DOMAIN m |-> m[k]]
    /\ DOMAIN m = {n \in ns : n - 1 \notin ns}
    /\ \A k \in DOMAIN m : m[k] \in ns /\ k <= m[k] /\ k .. m[k] \subseteq ns /\ m[k] + 1 \notin ns

LEMMA NumberIs ==
    ASSUME NEW ns, Numbers(ns), NEW n \in ns
    PROVE  n \in Nat /\ n <= MaxHandle
BY LastHandle DEF Numbers

LEMMA KeyIs ==
    ASSUME NEW ns, Numbers(ns), NEW m, Runs(m, ns), NEW k \in DOMAIN m
    PROVE  /\ k \in Nat /\ k <= MaxHandle /\ k \in ns /\ k - 1 \notin ns
           /\ m[k] \in Nat /\ m[k] <= MaxHandle /\ k <= m[k] /\ m[k] + 1 \notin ns
           /\ \A n \in Nat : k <= n /\ n <= m[k] => n \in ns
<1>1. k \in ns /\ k - 1 \notin ns /\ m[k] \in ns /\ k <= m[k] /\ k .. m[k] \subseteq ns /\ m[k] + 1 \notin ns
  BY Zenon DEF Runs
<1>2. k \in Nat /\ k <= MaxHandle /\ m[k] \in Nat /\ m[k] <= MaxHandle
  BY <1>1, NumberIs
<1>. QED
  BY <1>1, <1>2

LEMMA KeysAre ==
    ASSUME NEW ns, Numbers(ns), NEW m, Runs(m, ns)
    PROVE  \A j \in DOMAIN m : j \in Nat /\ j \in ns /\ m[j] \in Nat /\ j <= m[j] /\ m[j] \in ns /\ m[j] + 1 \notin ns
                              /\ \A n \in Nat : j <= n /\ n <= m[j] => n \in ns
<1>. SUFFICES ASSUME NEW j \in DOMAIN m
              PROVE  /\ j \in Nat /\ j \in ns /\ m[j] \in Nat /\ j <= m[j] /\ m[j] \in ns /\ m[j] + 1 \notin ns
                     /\ \A n \in Nat : j <= n /\ n <= m[j] => n \in ns
  BY Zenon
<1>1. m[j] \in ns
  BY Zenon DEF Runs
<1>. QED
  BY <1>1, KeyIs, Zenon

\* A range away from the names that are put next to range k stays a range.
Joined(ms, ns, low, last) == \A n \in Int : n \in ms <=> n \in ns \/ (low < n /\ n <= last)
IsRun(ns, j, e) ==
    /\ j \in Nat /\ e \in Nat /\ j <= e /\ e \in ns /\ e + 1 \notin ns
    /\ \A n \in Nat : j <= n /\ n <= e => n \in ns

LEMMA KeptRun ==
    ASSUME NEW ns, NEW ms, NEW k \in Nat, NEW low \in Nat, NEW last \in Nat, k <= low,
           Joined(ms, ns, low, last), NEW j, NEW e, IsRun(ns, j, e), last < j \/ e + 1 < k
    PROVE  IsRun(ms, j, e)
BY DEF Joined, IsRun

\* Each name of the set is in a range.
LEMMA RunStart ==
    ASSUME Counting, NEW ns, Numbers(ns), NEW n \in ns
    PROVE  \E k \in ns : k <= n /\ k - 1 \notin ns /\ \A i \in Nat : k <= i /\ i <= n => i \in ns
<1>. DEFINE S == {k \in 0 .. MaxHandle : k <= n /\ \A i \in Nat : k <= i /\ i <= n => i \in ns}
<1>1. n \in Nat /\ n <= MaxHandle
  BY NumberIs
<1>2. n \in S
  BY <1>1, LastHandle
<1>3. PICK k \in S : \A y \in S : k <= y
  <2>1. S \in SUBSET Nat
    BY LastHandle
  <2>. HIDE DEF S
  <2>. QED
    BY <1>2, <2>1, Zenon DEF Counting
<1>4. k \in Nat /\ k <= n /\ \A i \in Nat : k <= i /\ i <= n => i \in ns
  BY <1>3, LastHandle
<1>5. k - 1 \notin ns
  <2>. SUFFICES ASSUME k - 1 \in ns PROVE FALSE
    OBVIOUS
  <2>1. k - 1 \in Nat /\ k - 1 <= MaxHandle
    BY NumberIs
  <2>2. \A i \in Nat : k - 1 <= i /\ i <= n => i \in ns
    BY <1>1, <1>4
  <2>3. k - 1 \in S
    BY <1>1, <1>4, <2>1, <2>2, LastHandle
  <2>. HIDE DEF S
  <2>. QED
    BY <1>3, <1>4, <2>3
<1>. QED
  BY <1>1, <1>4, <1>5

LEMMA InRange ==
    ASSUME Counting, NEW ns, Numbers(ns), NEW m, Runs(m, ns), NEW n \in ns
    PROVE  \E k \in DOMAIN m : k <= n /\ n <= m[k]
<1>1. PICK k \in ns : k <= n /\ k - 1 \notin ns /\ \A i \in Nat : k <= i /\ i <= n => i \in ns
  BY RunStart, Zenon
<1>2. k \in DOMAIN m
  BY <1>1 DEF Runs
<1>3. m[k] \in Nat /\ k <= m[k] /\ m[k] + 1 \notin ns /\ k \in Nat /\ n \in Nat
  BY <1>2, KeyIs, NumberIs
<1>4. n <= m[k]
  BY <1>1, <1>3
<1>. QED
  BY <1>1, <1>2, <1>4

\* Ranges neither overlap nor touch.
LEMMA Apart ==
    ASSUME NEW ns, Numbers(ns), NEW m, Runs(m, ns), NEW k \in DOMAIN m, NEW j \in DOMAIN m, k < j
    PROVE  m[k] + 1 < j
<1>1. /\ k \in Nat /\ m[k] \in Nat /\ m[k] + 1 \notin ns
      /\ \A n \in Nat : k <= n /\ n <= m[k] => n \in ns
  BY KeyIs
<1>2. j \in Nat /\ j \in ns /\ j - 1 \notin ns
  BY KeyIs
<1>3. j - 1 \in Nat /\ k <= j - 1
  BY <1>1, <1>2
<1>. QED
  BY <1>1, <1>2, <1>3

LEMMA RunsIf ==
    ASSUME NEW ns, Numbers(ns), NEW m, m = [k \in DOMAIN m |-> m[k]],
           \A n \in Nat : n \in DOMAIN m <=> n \in ns /\ n - 1 \notin ns,
           \A k \in DOMAIN m : /\ k \in Nat /\ m[k] \in ns /\ k <= m[k] /\ m[k] + 1 \notin ns
                              /\ \A n \in Nat : k <= n /\ n <= m[k] => n \in ns
    PROVE  Runs(m, ns)
<1>1. \A n \in ns : n \in Nat
  BY NumberIs
<1>2. DOMAIN m = {n \in ns : n - 1 \notin ns}
  BY <1>1
<1>3. ASSUME NEW k \in DOMAIN m PROVE k .. m[k] \subseteq ns
  BY <1>1
<1>. QED
  BY <1>2, <1>3 DEF Runs

-------------------------------------------------------------------------------
(* A range is made longer.                                                 *)

LEMMA AfterIs ==
    ASSUME Counting, NEW ns, Numbers(ns), NEW m, Runs(m, ns), NEW k \in DOMAIN m
    PROVE  /\ \A j \in After(m, k) : j \in DOMAIN m /\ k < j /\ m[k] + 1 < j
           /\ \A j \in DOMAIN m : k < j => j \in After(m, k)
           /\ After(m, k) # {} => /\ Min(After(m, k)) \in After(m, k)
                                  /\ \A j \in After(m, k) : Min(After(m, k)) <= j
<1>1. \A j \in DOMAIN m : j \in Nat /\ j <= MaxHandle
  BY KeyIs
<1>2. \A j \in After(m, k) : j \in DOMAIN m /\ k < j
  BY <1>1 DEF After
<1>3. After(m, k) \in SUBSET (0 .. MaxHandle)
  BY <1>1, <1>2, LastHandle
<1>4. \A j \in DOMAIN m : k < j => j \in After(m, k)
  BY <1>1 DEF After
<1>. QED
  BY <1>2, <1>3, <1>4, LeastIs, Apart, Zenon

LEMMA AdjacentIs ==
    ASSUME Counting, NEW ns, Numbers(ns), NEW m, Runs(m, ns), NEW k \in DOMAIN m, NEW last \in Nat
    PROVE  Adjacent(m, k, last) <=> After(m, k) # {} /\ Min(After(m, k)) = last + 1
<1>1. ASSUME After(m, k) # {}
      PROVE  GLuint(Min(After(m, k)) - 1) = Min(After(m, k)) - 1 /\ Min(After(m, k)) \in Nat
  <2>. DEFINE j == Min(After(m, k))
  <2>1. j \in DOMAIN m /\ k < j
    BY <1>1, AfterIs, Zenon
  <2>2. j \in Nat /\ j <= MaxHandle /\ k \in Nat
    BY <2>1, KeyIs
  <2>. HIDE DEF j
  <2>3. j - 1 \in Nat /\ j - 1 <= MaxHandle /\ j - 1 <= 2 * MaxHandle + 1
    BY <2>1, <2>2, LastHandle
  <2>4. GLuint(j - 1) = j - 1
    BY <2>3, GLuintWraps
  <2>. QED
    BY <2>2, <2>4 DEF j
<1>. QED
  BY <1>1 DEF Adjacent

\* The names up to last, all free, are put at the end of range k.
LEMMA ExtendRuns ==
    ASSUME Counting, NEW ns, Numbers(ns), NEW m, Runs(m, ns), NEW k \in DOMAIN m,
           NEW last \in Nat, m[k] < last, last <= MaxHandle,
           \A n \in ns : ~(m[k] < n /\ n <= last)
    PROVE  Numbers(ns \cup (m[k] + 1 .. last)) /\ Runs(Extend(m, k, last), ns \cup (m[k] + 1 .. last))
<1>. DEFINE ms == ns \cup (m[k] + 1 .. last)
            A == After(m, k)
            v == Extend(m, k, last)
<1>1. /\ k \in Nat /\ k \in ns /\ m[k] \in Nat /\ k <= m[k] /\ m[k] \in ns
      /\ \A n \in Nat : k <= n /\ n <= m[k] => n \in ns
  BY KeyIs
<1>2. Numbers(ms) /\ \A n \in Int : n \in ms <=> n \in ns \/ (m[k] < n /\ n <= last)
  <2>1. \A n \in Int : n \in ms <=> n \in ns \/ (m[k] < n /\ n <= last)
    BY <1>1
  <2>2. m[k] + 1 .. last \subseteq 0 .. MaxHandle
    BY <1>1, LastHandle
  <2>. QED
    BY <2>1, <2>2, Zenon DEF Numbers
<1>. HIDE DEF ms
<1>3. \A j \in DOMAIN m : j \in Nat /\ j \in ns /\ m[j] \in Nat /\ j <= m[j] /\ m[j] \in ns /\ m[j] + 1 \notin ns
                         /\ \A n \in Nat : j <= n /\ n <= m[j] => n \in ns
  BY KeysAre, Zenon
<1>4. \A j \in DOMAIN m : IF k < j THEN last < j ELSE j = k \/ m[j] + 1 < k
  <2>. SUFFICES ASSUME NEW j \in DOMAIN m PROVE IF k < j THEN last < j ELSE j = k \/ m[j] + 1 < k
    BY Zenon
  <2>1. j \in Nat /\ j \in ns /\ k \in Nat /\ m[k] \in Nat
    BY <1>1, <1>3, Zenon
  <2>2. (k < j => m[k] + 1 < j) /\ (j < k => m[j] + 1 < k) /\ ~(m[k] < j /\ j <= last)
    BY <2>1, Apart, Zenon
  <2>. QED
    BY <2>1, <2>2
<1>5. \A n \in Nat : n \in DOMAIN m <=> n \in ns /\ n - 1 \notin ns
  BY DEF Runs
<1>6. CASE Adjacent(m, k, last)
  <2>. DEFINE next == Min(A)
  <2>1. next = last + 1 /\ next \in DOMAIN m
    BY <1>6, AdjacentIs, AfterIs, Zenon
  <2>2. v = [erase(m, next) EXCEPT ![k] = m[next]]
    BY <1>6, Zenon DEF Extend
  <2>. HIDE DEF next
  <2>3. /\ v = [j \in DOMAIN v |-> v[j]] /\ DOMAIN v = DOMAIN m \ {next}
        /\ v[k] = m[next] /\ \A j \in DOMAIN v : j # k => v[j] = m[j]
    <3>. DEFINE g == erase(m, next)
    <3>1. g = [j \in DOMAIN m \ {next} |-> m[j]]
      BY Zenon DEF erase, Restrict
    <3>2. DOMAIN g = DOMAIN m \ {next} /\ \A j \in DOMAIN g : g[j] = m[j]
      BY <3>1
    <3>. HIDE DEF g
    <3>3. k \in DOMAIN g
      BY <1>1, <2>1, <3>2
    <3>. QED
      BY <2>2, <3>2, <3>3, Zenon DEF g
  <2>. HIDE DEF v
  <2>4. \A n \in Nat : n \in DOMAIN v <=> n \in ms /\ n - 1 \notin ms
    BY <1>1, <1>2, <1>5, <2>1, <2>3
  <2>5. ASSUME NEW j \in DOMAIN v
        PROVE  /\ j \in Nat /\ v[j] \in ms /\ j <= v[j] /\ v[j] + 1 \notin ms
               /\ \A n \in Nat : j <= n /\ n <= v[j] => n \in ms
    <3>1. CASE j = k
      BY <1>1, <1>2, <1>3, <2>1, <2>3, <3>1
    <3>2. CASE j # k
      <4>1. j \in DOMAIN m /\ v[j] = m[j]
        BY <2>3, <3>2, Zenon
      <4>2. IsRun(ns, j, m[j]) /\ Joined(ms, ns, m[k], last)
        BY <1>2, <1>3, <4>1, Zenon DEF IsRun, Joined
      <4>3. last < j \/ m[j] + 1 < k
        BY <1>4, <3>2, <4>1, Zenon
      <4>4. IsRun(ms, j, m[j])
        BY <1>1, <4>2, <4>3, KeptRun, Zenon
      <4>. QED
        BY <4>1, <4>4, Zenon DEF IsRun
    <3>. QED
      BY <3>1, <3>2, Zenon
  <2>6. Runs(v, ms)
    BY <1>2, <2>3, <2>4, <2>5, RunsIf, Zenon
  <2>. QED
    BY <1>2, <2>6, Zenon DEF ms, v
<1>7. CASE ~Adjacent(m, k, last)
  <2>1. last + 1 \notin ns
    <3>. SUFFICES ASSUME last + 1 \in ns PROVE FALSE
      OBVIOUS
    <3>1. last + 1 \in DOMAIN m /\ k < last + 1
      BY <1>1, <1>5
    <3>2. last + 1 \in A /\ A # {}
      BY <3>1, AfterIs, Zenon
    <3>3. Min(A) \in DOMAIN m /\ k < Min(A) /\ Min(A) <= last + 1
      BY <3>2, AfterIs, Zenon
    <3>4. Min(A) = last + 1
      BY <1>3, <1>4, <3>3
    <3>. QED
      BY <1>7, <3>2, <3>4, AdjacentIs, Zenon
  <2>2. v = [m EXCEPT ![k] = last]
    BY <1>7, Zenon DEF Extend
  <2>3. /\ v = [j \in DOMAIN v |-> v[j]] /\ DOMAIN v = DOMAIN m
        /\ v[k] = last /\ \A j \in DOMAIN v : j # k => v[j] = m[j]
    BY <2>2, Zenon
  <2>. HIDE DEF v
  <2>4. \A n \in Nat : n \in DOMAIN v <=> n \in ms /\ n - 1 \notin ms
    BY <1>1, <1>2, <1>5, <2>1, <2>3
  <2>5. ASSUME NEW j \in DOMAIN v
        PROVE  /\ j \in Nat /\ v[j] \in ms /\ j <= v[j] /\ v[j] + 1 \notin ms
               /\ \A n \in Nat : j <= n /\ n <= v[j] => n \in ms
    <3>1. CASE j = k
      BY <1>1, <1>2, <1>3, <2>1, <2>3, <3>1
    <3>2. CASE j # k
      <4>1. j \in DOMAIN m /\ v[j] = m[j]
        BY <2>3, <3>2, Zenon
      <4>2. IsRun(ns, j, m[j]) /\ Joined(ms, ns, m[k], last)
        BY <1>2, <1>3, <4>1, Zenon DEF IsRun, Joined
      <4>3. last < j \/ m[j] + 1 < k
        BY <1>4, <3>2, <4>1, Zenon
      <4>4. IsRun(ms, j, m[j])
        BY <1>1, <4>2, <4>3, KeptRun, Zenon
      <4>. QED
        BY <4>1, <4>4, Zenon DEF IsRun
    <3>. QED
      BY <3>1, <3>2, Zenon
  <2>6. Runs(v, ms)
    BY <1>2, <2>3, <2>4, <2>5, RunsIf, Zenon
  <2>. QED
    BY <1>2, <2>6, Zenon DEF ms, v
<1>. QED
  BY <1>6, <1>7, Zenon

-------------------------------------------------------------------------------
(* The range that a name is in or above, and a name put in front of a range.*)

LEMMA ZeroIsKey ==
    ASSUME NEW ns, Numbers(ns), NEW m, Runs(m, ns)
    PROVE  0 \in DOMAIN m
<1>1. 0 - 1 \notin ns
  BY NumberIs
<1>. QED
  BY <1>1, Zenon DEF Runs, Numbers

\* Key k is the greatest that is at most h.
IsBelow(m, ns, k, h) ==
    /\ k \in DOMAIN m /\ k <= h
    /\ \A j \in DOMAIN m : j <= h => j <= k
    /\ \A n \in ns : ~(m[k] < n /\ n <= h)

LEMMA BelowIs ==
    ASSUME Counting, NEW ns, Numbers(ns), NEW m, Runs(m, ns), NEW h \in Nat
    PROVE  IsBelow(m, ns, Below(m, h), h)
<1>. DEFINE S == {j \in DOMAIN m : j <= h}
            k == Below(m, h)
<1>1. \A j \in DOMAIN m : j \in Nat /\ j <= MaxHandle /\ m[j] \in Nat
  BY KeyIs
<1>2. S \in SUBSET (0 .. MaxHandle) /\ 0 \in S
  BY <1>1, ZeroIsKey
<1>3. k \in S /\ \A j \in S : j <= k
  <2>1. k = Max(S)
    BY Zenon DEF Below
  <2>. HIDE DEF S, k
  <2>. QED
    BY <1>2, <2>1, GreatestIs, Zenon
<1>. HIDE DEF k
<1>4. ASSUME NEW n \in ns, m[k] < n, n <= h PROVE FALSE
  <2>1. PICK j \in DOMAIN m : j <= n /\ n <= m[j]
    BY <1>4, InRange, Zenon
  <2>2. n \in Nat /\ j \in Nat /\ k \in Nat /\ m[j] \in Nat /\ m[k] \in Nat /\ k \in DOMAIN m
    BY <1>1, <1>3, <1>4, NumberIs
  <2>3. j \in S
    BY <1>4, <2>1, <2>2
  <2>4. j <= k /\ j # k
    BY <1>3, <1>4, <2>1, <2>2, <2>3
  <2>5. m[j] + 1 < k
    BY <2>2, <2>4, Apart
  <2>6. k <= m[k]
    BY <2>2, KeyIs
  <2>. QED
    BY <1>4, <2>1, <2>2, <2>5, <2>6
<1>5. k \in DOMAIN m /\ k <= h /\ \A j \in DOMAIN m : j <= h => j <= k
  BY <1>3
<1>. QED
  BY <1>4, <1>5, Zenon DEF IsBelow, k

\* Whether a name is in the set.
LEMMA BelowTells ==
    ASSUME NEW ns, Numbers(ns), NEW m, Runs(m, ns), NEW h \in Nat, NEW k, IsBelow(m, ns, k, h)
    PROVE  h \in ns <=> m[k] >= h
<1>1. /\ k \in DOMAIN m /\ k <= h /\ k \in Nat /\ m[k] \in Nat
      /\ \A n \in Nat : k <= n /\ n <= m[k] => n \in ns
  BY KeyIs DEF IsBelow
<1>. QED
  BY <1>1 DEF IsBelow

LEMMA PrependRuns ==
    ASSUME Counting, NEW ns, Numbers(ns), NEW m, Runs(m, ns), NEW h \in Nat, h <= MaxHandle,
           NEW k, IsBelow(m, ns, k, h), m[k] + 1 < h
    PROVE  Numbers(ns \cup {h}) /\ Runs(Prepend(m, k, h), ns \cup {h})
<1>. DEFINE ms == ns \cup {h}
            A == After(m, k)
            v == Prepend(m, k, h)
<1>1. /\ k \in DOMAIN m /\ k <= h /\ k \in Nat /\ m[k] \in Nat /\ k <= m[k]
      /\ \A j \in DOMAIN m : j <= h => j <= k
  BY KeyIs DEF IsBelow
<1>2. h \notin ns /\ h - 1 \notin ns
  BY <1>1 DEF IsBelow
<1>3. Numbers(ms) /\ \A n \in Int : n \in ms <=> n \in ns \/ n = h
  BY LastHandle DEF Numbers
<1>. HIDE DEF ms
<1>4. \A j \in DOMAIN m : j \in Nat /\ j \in ns /\ m[j] \in Nat /\ j <= m[j] /\ m[j] \in ns /\ m[j] + 1 \notin ns
                         /\ \A n \in Nat : j <= n /\ n <= m[j] => n \in ns
  BY KeyIs
<1>5. \A j \in DOMAIN m : h < j \/ m[j] + 1 < h
  <2>1. \A j \in DOMAIN m : j < k => m[j] + 1 < k
    BY Apart, <1>1
  <2>. QED
    BY <1>1, <1>4, <2>1
<1>6. \A n \in Nat : n \in DOMAIN m <=> n \in ns /\ n - 1 \notin ns
  BY DEF Runs
<1>7. CASE Adjacent(m, k, h)
  <2>. DEFINE next == Min(A)
              g == erase(m, next)
  <2>1. next = h + 1 /\ next \in DOMAIN m
    BY <1>1, <1>7, AdjacentIs, AfterIs, Zenon
  <2>2. v = insert(g, h, m[next])
    BY <1>7, Zenon DEF Prepend
  <2>. HIDE DEF next
  <2>3. DOMAIN g = DOMAIN m \ {next} /\ \A j \in DOMAIN g : g[j] = m[j]
    BY DEF erase, Restrict
  <2>. HIDE DEF g
  <2>4. v = [j \in DOMAIN g \cup {h} |-> IF j \in DOMAIN g THEN g[j] ELSE m[next]]
    BY <2>2, Zenon DEF insert
  <2>5. /\ v = [j \in DOMAIN v |-> v[j]] /\ DOMAIN v = (DOMAIN m \ {next}) \cup {h}
        /\ v[h] = m[next] /\ \A j \in DOMAIN v : j # h => v[j] = m[j]
    BY <1>2, <1>4, <2>3, <2>4
  <2>. HIDE DEF v
  <2>6. \A n \in Nat : n \in DOMAIN v <=> n \in ms /\ n - 1 \notin ms
    BY <1>2, <1>3, <1>6, <2>1, <2>5
  <2>7. ASSUME NEW j \in DOMAIN v
        PROVE  /\ j \in Nat /\ v[j] \in ms /\ j <= v[j] /\ v[j] + 1 \notin ms
               /\ \A n \in Nat : j <= n /\ n <= v[j] => n \in ms
    <3>1. CASE j = h
      BY <1>3, <1>4, <2>1, <2>5, <3>1
    <3>2. CASE j # h
      BY <1>3, <1>4, <1>5, <2>5, <3>2
    <3>. QED
      BY <3>1, <3>2, Zenon
  <2>8. Runs(v, ms)
    BY <1>3, <2>5, <2>6, <2>7, RunsIf, Zenon
  <2>. QED
    BY <1>3, <2>8, Zenon DEF ms, v
<1>8. CASE ~Adjacent(m, k, h)
  <2>1. h + 1 \notin ns
    <3>. SUFFICES ASSUME h + 1 \in ns PROVE FALSE
      OBVIOUS
    <3>1. h + 1 \in DOMAIN m /\ k < h + 1
      BY <1>1, <1>2, <1>6
    <3>2. h + 1 \in A /\ A # {}
      BY <1>1, <3>1, AfterIs, Zenon
    <3>3. Min(A) \in DOMAIN m /\ k < Min(A) /\ Min(A) <= h + 1
      BY <1>1, <3>2, AfterIs, Zenon
    <3>4. Min(A) = h + 1
      BY <1>1, <1>4, <3>3
    <3>. QED
      BY <1>1, <1>8, <3>2, <3>4, AdjacentIs, Zenon
  <2>2. v = [j \in DOMAIN m \cup {h} |-> IF j \in DOMAIN m THEN m[j] ELSE h]
    BY <1>8, Zenon DEF Prepend, insert
  <2>3. /\ v = [j \in DOMAIN v |-> v[j]] /\ DOMAIN v = DOMAIN m \cup {h}
        /\ v[h] = h /\ \A j \in DOMAIN v : j # h => v[j] = m[j]
    BY <1>2, <1>4, <2>2
  <2>. HIDE DEF v
  <2>4. \A n \in Nat : n \in DOMAIN v <=> n \in ms /\ n - 1 \notin ms
    BY <1>2, <1>3, <1>6, <2>1, <2>3
  <2>5. ASSUME NEW j \in DOMAIN v
        PROVE  /\ j \in Nat /\ v[j] \in ms /\ j <= v[j] /\ v[j] + 1 \notin ms
               /\ \A n \in Nat : j <= n /\ n <= v[j] => n \in ms
    <3>1. CASE j = h
      BY <1>3, <2>1, <2>3, <3>1
    <3>2. CASE j # h
      BY <1>3, <1>4, <1>5, <2>3, <3>2
    <3>. QED
      BY <3>1, <3>2, Zenon
  <2>6. Runs(v, ms)
    BY <1>3, <2>3, <2>4, <2>5, RunsIf, Zenon
  <2>. QED
    BY <1>3, <2>6, Zenon DEF ms, v
<1>. QED
  BY <1>7, <1>8, Zenon

-------------------------------------------------------------------------------
(* The first gap that is large enough.                                     *)

Fits(m, k, range) == After(m, k) = {} \/ Min(After(m, k)) - m[k] > range

\* There is such a gap: the one above the last range.
LEMMA FirstFitIs ==
    ASSUME Counting, NEW ns, Numbers(ns), NEW m, Runs(m, ns), NEW range
    PROVE  /\ FirstFit(m, range) \in DOMAIN m /\ Fits(m, FirstFit(m, range), range)
           /\ \A j \in DOMAIN m : Fits(m, j, range) => FirstFit(m, range) <= j
<1>. DEFINE S == {k \in DOMAIN m : Fits(m, k, range)}
<1>1. \A j \in DOMAIN m : j \in Nat /\ j <= MaxHandle
  BY KeyIs
<1>2. DOMAIN m \in SUBSET (0 .. MaxHandle) /\ DOMAIN m # {}
  BY <1>1, ZeroIsKey
<1>3. Max(DOMAIN m) \in DOMAIN m /\ \A j \in DOMAIN m : j <= Max(DOMAIN m)
  BY <1>2, GreatestIs, Zenon
<1>4. After(m, Max(DOMAIN m)) = {}
  BY <1>1, <1>3 DEF After
<1>5. Max(DOMAIN m) \in S
  BY <1>3, <1>4, Zenon DEF Fits
<1>6. FirstFit(m, range) = Min(S)
  BY Zenon DEF FirstFit, Fits
<1>7. S \in SUBSET (0 .. MaxHandle) /\ S # {}
  BY <1>2, <1>5, Zenon
<1>8. Min(S) \in S /\ \A y \in S : Min(S) <= y
  <2>. HIDE DEF S
  <2>. QED
    BY <1>7, LeastIs, Zenon
<1>. QED
  BY <1>6, <1>8, Zenon

Free(ns, first, range) ==
    first + range - 1 <= MaxHandle /\ \A n \in ns : ~(first <= n /\ n <= first + range - 1)

\* The names that a range of names adds to a set.
With(ns, first, range) == ns \cup (first .. first + range - 1)

\* What TakeRange answers.
Allocated(a, m, ns, range) ==
    \/ a = [map |-> m, first |-> 0] /\ \A f \in Handles : ~Free(ns, f, range)
    \/ /\ a.first \in Handles /\ Free(ns, a.first, range)
       /\ Numbers(With(ns, a.first, range)) /\ Runs(a.map, With(ns, a.first, range))

\* In the gap after range k there is no room for any other place.
LEMMA NoRoom ==
    ASSUME Counting, NEW ns, Numbers(ns), NEW m, Runs(m, ns), NEW range \in Handles,
           NEW k \in DOMAIN m, After(m, k) = {}, m[k] + range > MaxHandle,
           \A j \in DOMAIN m : Fits(m, j, range) => k <= j,
           NEW f \in Handles
    PROVE  ~Free(ns, f, range)
<1>. SUFFICES ASSUME Free(ns, f, range) PROVE FALSE
  OBVIOUS
<1>. DEFINE j == Below(m, f)
<1>1. f \in Nat /\ 1 <= f /\ range \in Nat /\ 1 <= range /\ f <= MaxHandle
  BY LastHandle DEF Handles
<1>2. IsBelow(m, ns, j, f)
  BY <1>1, BelowIs
<1>. HIDE DEF j
<1>3. /\ j \in DOMAIN m /\ j \in Nat /\ m[j] \in Nat /\ j <= f
      /\ \A i \in DOMAIN m : i <= f => i <= j
  BY <1>2, KeyIs DEF IsBelow
<1>4. k \in Nat /\ m[k] \in Nat /\ \A i \in DOMAIN m : i \in Nat /\ i <= k
  <2>1. k \in Nat /\ m[k] \in Nat /\ \A i \in DOMAIN m : i \in Nat
    BY KeyIs, Zenon
  <2>2. \A i \in DOMAIN m : ~(k < i)
    BY AfterIs, Zenon
  <2>. QED
    BY <2>1, <2>2
<1>5. m[j] < f
  <2>1. f \notin ns
    BY <1>1 DEF Free
  <2>. QED
    BY <1>1, <1>2, <1>3, <2>1, BelowTells
<1>6. CASE j = k
  BY <1>1, <1>3, <1>5, <1>6, LastHandle DEF Free
<1>7. CASE j # k
  <2>1. j < k /\ After(m, j) # {}
    <3>1. j < k
      BY <1>3, <1>4, <1>7
    <3>2. k \in After(m, j)
      BY <1>3, <3>1, AfterIs, Zenon
    <3>. QED
      BY <3>1, <3>2, Zenon
  <2>. DEFINE next == Min(After(m, j))
  <2>2. next \in DOMAIN m /\ j < next
    BY <1>3, <2>1, AfterIs, Zenon
  <2>3. next \in Nat /\ next \in ns
    BY <2>2, KeyIs
  <2>4. f < next
    BY <1>1, <1>3, <2>2, <2>3
  <2>5. next > f + range - 1
    BY <1>1, <2>3, <2>4 DEF Free
  <2>6. next - m[j] > range
    BY <1>1, <1>3, <1>5, <2>3, <2>5
  <2>7. k <= j
    BY <1>3, <2>6, Zenon DEF Fits
  <2>. QED
    BY <1>3, <1>4, <2>1, <2>7
<1>. QED
  BY <1>6, <1>7, Zenon

\* allocateRange takes a free run, or there is none.
LEMMA AllocateIs ==
    ASSUME Counting, NEW ns, Numbers(ns), NEW m, Runs(m, ns), NEW range \in Handles
    PROVE  Allocated(TakeRange(m, range), m, ns, range)
<1>. DEFINE k == FirstFit(m, range)
            first == GLuint(m[k] + 1)
            last == GLuint(first + range - 1)
            A == After(m, k)
            a == TakeRange(m, range)
<1>1. range \in Nat /\ 1 <= range /\ range <= MaxHandle
  BY LastHandle DEF Handles
<1>2. k \in DOMAIN m /\ Fits(m, k, range) /\ \A j \in DOMAIN m : Fits(m, j, range) => k <= j
  BY FirstFitIs, Zenon
<1>3. a = IF first = 0 \/ last < first THEN [map |-> m, first |-> 0]
          ELSE [map |-> Extend(m, k, last), first |-> first]
  BY Zenon DEF TakeRange, kInvalidHandle
<1>. HIDE DEF k, a
<1>4. k \in Nat /\ m[k] \in Nat /\ m[k] <= MaxHandle
  BY <1>2, KeyIs
<1>5. /\ first = IF m[k] + 1 <= MaxHandle THEN m[k] + 1 ELSE 0
      /\ first \in Nat /\ first <= MaxHandle
  <2>. DEFINE n == m[k] + 1
  <2>1. n \in Nat /\ n <= 2 * MaxHandle + 1 /\ first = GLuint(n)
    BY <1>4, LastHandle
  <2>2. first = IF n <= MaxHandle THEN n ELSE n - MaxHandle - 1
    <3>. HIDE DEF n, first
    <3>. QED
      BY <2>1, GLuintWraps
  <2>. QED
    BY <1>4, <2>2, LastHandle
<1>. HIDE DEF first
<1>6. last = IF first + range - 1 <= MaxHandle THEN first + range - 1 ELSE first + range - 1 - MaxHandle - 1
  <2>. DEFINE n == first + range - 1
  <2>1. n \in Nat /\ n <= 2 * MaxHandle + 1 /\ last = GLuint(n)
    BY <1>1, <1>5, LastHandle
  <2>2. last = IF n <= MaxHandle THEN n ELSE n - MaxHandle - 1
    <3>. HIDE DEF n, last
    <3>. QED
      BY <2>1, GLuintWraps
  <2>. QED
    BY <1>1, <1>5, <2>2, LastHandle
<1>. HIDE DEF last
<1>7. CASE m[k] + range <= MaxHandle
  <2>1. first = m[k] + 1 /\ last = m[k] + range /\ last >= first
    BY <1>1, <1>4, <1>5, <1>6, <1>7, LastHandle
  <2>2. a = [map |-> Extend(m, k, last), first |-> first]
    BY <1>3, <1>4, <1>1, <2>1
  <2>3. \A n \in ns : ~(m[k] < n /\ n <= last)
    <3>. SUFFICES ASSUME NEW n \in ns, m[k] < n, n <= last PROVE FALSE
      OBVIOUS
    <3>1. PICK j \in DOMAIN m : j <= n /\ n <= m[j]
      BY InRange, Zenon
    <3>2. n \in Nat /\ j \in Nat /\ m[j] \in Nat
      BY <3>1, KeyIs, NumberIs
    <3>3. k < j
      <4>1. ~(j < k)
        <5>. SUFFICES ASSUME j < k PROVE FALSE
          OBVIOUS
        <5>1. m[j] + 1 < k /\ k <= m[k]
          BY <1>2, <3>1, Apart, KeyIs
        <5>. QED
          BY <1>4, <3>1, <3>2, <5>1
      <4>2. j # k
        BY <1>4, <3>1, <3>2
      <4>. QED
        BY <1>4, <3>2, <4>1, <4>2
    <3>4. j \in A /\ A # {} /\ Min(A) <= j /\ Min(A) \in DOMAIN m
      BY <1>2, <3>1, <3>3, AfterIs, Zenon
    <3>5. Min(A) \in Nat
      BY <3>4, KeyIs
    <3>6. Min(A) - m[k] > range
      BY <1>2, <3>4, Zenon DEF Fits
    <3>. QED
      BY <1>1, <1>4, <2>1, <3>1, <3>2, <3>4, <3>5, <3>6
  <2>4. m[k] + 1 .. last = first .. first + range - 1 /\ last \in Nat /\ m[k] < last /\ last <= MaxHandle
    BY <1>1, <1>4, <1>7, <2>1
  <2>5. Numbers(With(ns, first, range)) /\ Runs(Extend(m, k, last), With(ns, first, range))
    BY <1>2, <2>3, <2>4, ExtendRuns, Zenon DEF With
  <2>6. first \in Handles /\ Free(ns, first, range)
    <3>1. \A n \in ns : n \in Nat
      BY NumberIs
    <3>2. \A n \in ns : ~(first <= n /\ n <= first + range - 1)
      BY <1>1, <1>4, <2>1, <2>3, <3>1
    <3>. QED
      BY <1>1, <1>4, <1>7, <2>1, <3>2, LastHandle DEF Handles, Free
  <2>7. a.map = Extend(m, k, last) /\ a.first = first
    BY <2>2
  <2>. QED
    BY <2>5, <2>6, <2>7, Zenon DEF Allocated, a
<1>8. CASE m[k] + range > MaxHandle
  <2>1. After(m, k) = {}
    <3>. SUFFICES ASSUME A # {} PROVE FALSE
      OBVIOUS
    <3>1. Min(A) \in DOMAIN m /\ Min(A) - m[k] > range
      BY <1>2, AfterIs, Zenon DEF Fits
    <3>2. Min(A) \in Nat /\ Min(A) <= MaxHandle
      BY <3>1, KeyIs, Zenon
    <3>. QED
      BY <1>1, <1>4, <1>8, <3>1, <3>2, LastHandle
  <2>2. a = [map |-> m, first |-> 0]
    <3>1. first = 0 \/ last < first
      BY <1>1, <1>4, <1>5, <1>6, <1>8, LastHandle
    <3>. QED
      BY <1>3, <3>1, Zenon
  <2>3. \A f \in Handles : ~Free(ns, f, range)
    BY <1>2, <1>8, <2>1, NoRoom, Zenon
  <2>. QED
    BY <2>2, <2>3, Zenon DEF Allocated, a
<1>. QED
  BY <1>1, <1>4, <1>7, <1>8, LastHandle

-------------------------------------------------------------------------------
(* Release.  Each range that meets first..last is cut once, and the cuts   *)
(* do not disturb each other, so the loop has a closed form: Cut.          *)

Span(first, last) == first \in Nat /\ last \in Nat /\ 1 <= first /\ first <= last /\ last <= MaxHandle

Meeting(m, first, last) == {k \in DOMAIN m : k <= last /\ m[k] >= first}

\* The first name above last, where a range of t goes on above last.
Rest(m, t, last) == {last + 1 : j \in {i \in t : last < m[i]}}

\* The map m with names first..last taken out of the ranges t.
Cut(m, t, first, last) ==
    [k \in (DOMAIN m \ {j \in t : j >= first}) \cup Rest(m, t, last) |->
        IF k \in DOMAIN m THEN IF k \in t THEN first - 1 ELSE m[k] ELSE m[Below(m, last)]]

\* Only one range goes on above last: the last one that starts at or below it.
LEMMA RestIs ==
    ASSUME Counting, NEW ns, Numbers(ns), NEW m, Runs(m, ns), NEW first, NEW last, Span(first, last),
           NEW j \in DOMAIN m, j <= last, last < m[j]
    PROVE  j = Below(m, last) /\ last + 1 \notin DOMAIN m
<1>. DEFINE k == Below(m, last)
<1>1. last \in Nat
  BY DEF Span
<1>2. IsBelow(m, ns, k, last)
  BY <1>1, BelowIs
<1>. HIDE DEF k
<1>3. k \in DOMAIN m /\ k <= last /\ j <= k
  BY <1>2, Zenon DEF IsBelow
<1>4. k \in Nat /\ j \in Nat /\ m[j] \in Nat
  BY <1>3, KeyIs
<1>5. j = k
  <2>. SUFFICES ASSUME j # k PROVE FALSE
    OBVIOUS
  <2>1. j < k
    BY <1>3, <1>4
  <2>2. m[j] + 1 < k
    BY <1>3, <2>1, Apart, Zenon
  <2>. QED
    BY <1>1, <1>3, <1>4, <2>2
<1>6. last + 1 \notin DOMAIN m
  <2>. SUFFICES ASSUME last + 1 \in DOMAIN m PROVE FALSE
    OBVIOUS
  <2>1. j < last + 1
    BY <1>1, <1>4
  <2>2. m[j] + 1 < last + 1
    BY <2>1, Apart, Zenon
  <2>. QED
    BY <1>1, <1>4, <2>2
<1>. QED
  BY <1>5, <1>6 DEF k

\* Cutting one more range is one round of the loop.
LEMMA CutMore ==
    ASSUME Counting, NEW ns, Numbers(ns), NEW m, Runs(m, ns), NEW first, NEW last, Span(first, last),
           NEW t \in SUBSET Meeting(m, first, last), NEW x \in t
    PROVE  Trim(Cut(m, t \ {x}, first, last), x, first, last) = Cut(m, t, first, last)
<1>. DEFINE u == t \ {x}
            w == Cut(m, u, first, last)
            v == Cut(m, t, first, last)
            Value(r, k) == IF k \in DOMAIN m THEN IF k \in r THEN first - 1 ELSE m[k] ELSE m[Below(m, last)]
<1>1. \A j \in t : /\ j \in DOMAIN m /\ j <= last
                   /\ last < m[j] => j = Below(m, last) /\ last + 1 \notin DOMAIN m
  <2>. SUFFICES ASSUME NEW j \in t
                PROVE  /\ j \in DOMAIN m /\ j <= last
                       /\ last < m[j] => j = Below(m, last) /\ last + 1 \notin DOMAIN m
    OBVIOUS
  <2>1. j \in DOMAIN m /\ j <= last
    BY Zenon DEF Meeting
  <2>. QED
    BY <2>1, RestIs, Zenon
<1>2. first \in Nat /\ last \in Nat /\ \A j \in t : j \in Nat
  BY <1>1, KeyIs DEF Span
<1>3. /\ DOMAIN w = (DOMAIN m \ {j \in u : j >= first}) \cup Rest(m, u, last)
      /\ \A k \in DOMAIN w : w[k] = Value(u, k)
      /\ w = [k \in DOMAIN w |-> w[k]]
  BY Zenon DEF Cut
<1>4. v = [k \in (DOMAIN m \ {j \in t : j >= first}) \cup Rest(m, t, last) |-> Value(t, k)]
  BY DEF Cut
<1>5. x \in DOMAIN m /\ x \in DOMAIN w /\ w[x] = m[x] /\ x # last + 1
  <2>1. x \in DOMAIN m /\ x \in DOMAIN w
    BY <1>1, <1>3, Zenon
  <2>2. w[x] = Value(u, x)
    BY <1>3, <2>1, Zenon
  <2>3. w[x] = m[x]
    BY <2>1, <2>2, Zenon
  <2>4. x # last + 1
    <3>1. x \in Nat /\ x <= last /\ last \in Nat
      BY <1>1, <1>2, Zenon
    <3>. QED
      BY <3>1
  <2>. QED
    BY <2>1, <2>3, <2>4, Zenon
<1>. DEFINE cut == IF x >= first THEN erase(w, x) ELSE [w EXCEPT ![x] = first - 1]
<1>6. Trim(w, x, first, last) = IF last < m[x] THEN insert(cut, last + 1, m[x]) ELSE cut
  BY <1>5, Zenon DEF Trim
<1>. HIDE DEF w, v
<1>7. /\ DOMAIN cut = (DOMAIN m \ {j \in t : j >= first}) \cup Rest(m, u, last)
      /\ \A k \in DOMAIN cut : cut[k] = Value(t, k)
      /\ cut = [k \in DOMAIN cut |-> cut[k]]
  <2>1. x \notin Rest(m, u, last)
    BY <1>5 DEF Rest
  <2>2. CASE x >= first
    <3>1. cut = [k \in DOMAIN w \ {x} |-> w[k]]
      BY <2>2 DEF erase, Restrict
    <3>2. DOMAIN w \ {x} = (DOMAIN m \ {j \in t : j >= first}) \cup Rest(m, u, last)
      BY <1>3, <2>1, <2>2
    <3>3. \A k \in DOMAIN w \ {x} : w[k] = Value(t, k)
      BY <1>3
    <3>. QED
      BY <3>1, <3>2, <3>3, Zenon
  <2>3. CASE ~(x >= first)
    <3>1. cut = [k \in DOMAIN w |-> IF k = x THEN first - 1 ELSE w[k]]
      BY <1>3, <2>3, Zenon
    <3>2. DOMAIN w = (DOMAIN m \ {j \in t : j >= first}) \cup Rest(m, u, last)
      BY <1>3, <1>5, <2>1, <2>3
    <3>3. \A k \in DOMAIN w : (IF k = x THEN first - 1 ELSE w[k]) = Value(t, k)
      BY <1>3, <1>5
    <3>. QED
      BY <3>1, <3>2, <3>3, Zenon
  <2>. QED
    BY <2>2, <2>3, Zenon
<1>. HIDE DEF cut
<1>8. CASE last < m[x]
  <2>1. Rest(m, t, last) = {last + 1} /\ Rest(m, u, last) = {}
    BY <1>1, <1>8, Zenon DEF Rest
  <2>2. last + 1 \notin DOMAIN cut /\ last + 1 \notin DOMAIN m /\ m[Below(m, last)] = m[x]
    BY <1>1, <1>7, <1>8, <2>1
  <2>3. Trim(w, x, first, last)
          = [k \in DOMAIN cut \cup {last + 1} |-> IF k \in DOMAIN cut THEN cut[k] ELSE m[x]]
    BY <1>6, <1>8 DEF insert
  <2>4. DOMAIN cut \cup {last + 1} = (DOMAIN m \ {j \in t : j >= first}) \cup Rest(m, t, last)
    BY <1>7, <2>1
  <2>5. \A k \in DOMAIN cut \cup {last + 1} : (IF k \in DOMAIN cut THEN cut[k] ELSE m[x]) = Value(t, k)
    BY <1>7, <2>2
  <2>. QED
    BY <1>4, <2>3, <2>4, <2>5, Zenon DEF w, v
<1>9. CASE ~(last < m[x])
  <2>1. Rest(m, t, last) = Rest(m, u, last)
    BY <1>9 DEF Rest
  <2>2. Trim(w, x, first, last) = cut
    BY <1>6, <1>9
  <2>. QED
    BY <1>4, <1>7, <2>1, <2>2 DEF w, v
<1>. QED
  BY <1>8, <1>9, Zenon

LEMMA OneLess ==
    ASSUME Counting, NEW S, IsFiniteSet(S), NEW x \in S
    PROVE  Cardinality(S \ {x}) = Cardinality(S) - 1
BY Zenon DEF Counting

\* When every range that meets first..last is cut, the runs are those of the other
\* names.
LEMMA CutAll ==
    ASSUME Counting, NEW ns, Numbers(ns), NEW m, Runs(m, ns), NEW first, NEW last, Span(first, last)
    PROVE  /\ Numbers(ns \ (first .. last))
           /\ Runs(Cut(m, Meeting(m, first, last), first, last), ns \ (first .. last))
<1>. DEFINE t == Meeting(m, first, last)
            v == Cut(m, t, first, last)
            ms == ns \ (first .. last)
<1>1. first \in Nat /\ last \in Nat /\ 1 <= first /\ first <= last /\ last <= MaxHandle
  BY DEF Span
<1>2. Numbers(ms)
  BY <1>1 DEF Numbers
<1>3. \A n \in Nat : n \in ms <=> n \in ns /\ ~(first <= n /\ n <= last)
  BY <1>1
<1>4. \A k \in DOMAIN m : /\ k \in Nat /\ k \in ns /\ k - 1 \notin ns
                         /\ m[k] \in Nat /\ k <= m[k] /\ m[k] + 1 \notin ns
                         /\ \A n \in Nat : k <= n /\ n <= m[k] => n \in ns
  BY KeyIs
<1>5. \A k \in DOMAIN m : k \in t <=> k <= last /\ m[k] >= first
  BY DEF Meeting
<1>6. t \subseteq DOMAIN m
  BY DEF Meeting
<1>7. \A n : n \in Rest(m, t, last) <=> n = last + 1 /\ \E j \in t : last < m[j]
  BY DEF Rest
<1>8. \A j \in t : last < m[j] => j = Below(m, last)
  BY <1>5, <1>6, RestIs, Zenon
<1>9. v = [k \in (DOMAIN m \ {j \in t : j >= first}) \cup Rest(m, t, last) |->
            IF k \in DOMAIN m THEN IF k \in t THEN first - 1 ELSE m[k] ELSE m[Below(m, last)]]
  BY Zenon DEF Cut
<1>10. \A n \in Nat : n \in DOMAIN m <=> n \in ns /\ n - 1 \notin ns
  BY <1>4 DEF Runs
<1>. HIDE DEF ms, t, v
<1>11. ASSUME NEW n \in Nat
       PROVE  n \in DOMAIN v <=> n \in ms /\ n - 1 \notin ms
  <2>1. n \in DOMAIN v <=> \/ n \in DOMAIN m /\ ~(n \in t /\ n >= first)
                           \/ n = last + 1 /\ \E j \in t : last < m[j]
    BY <1>7, <1>9
  <2>2. ASSUME n \in DOMAIN m PROVE ~(n \in t /\ n >= first) <=> ~(first <= n /\ n <= last)
    BY <1>1, <1>4, <1>5, <2>2
  <2>3. n - 1 \in ms <=> n - 1 \in ns /\ ~(first <= n - 1 /\ n - 1 <= last)
    BY <1>1 DEF ms
  <2>4. ASSUME n = last + 1, n \in ns, last \in ns PROVE \E j \in t : last < m[j]
    <3>1. PICK j \in DOMAIN m : j <= last /\ last <= m[j]
      BY <2>4, InRange, Zenon
    <3>2. m[j] # last
      BY <1>4, <2>4, <3>1
    <3>3. last < m[j] /\ m[j] >= first
      BY <1>1, <1>4, <3>1, <3>2
    <3>. QED
      BY <1>5, <3>1, <3>3, Zenon
  <2>5. ASSUME n = last + 1, NEW j \in t, last < m[j] PROVE n \in ns
    <3>1. j \in DOMAIN m /\ j <= last
      BY <1>5, <1>6, Zenon
    <3>. QED
      BY <1>1, <1>4, <2>5, <3>1
  <2>6. CASE n \in DOMAIN m
    <3>1. n \in ns /\ n - 1 \notin ns
      BY <1>4, <2>6, Zenon
    <3>2. n \notin ms => first <= n /\ n <= last
      BY <1>3, <3>1, Zenon
    <3>3. n = last + 1 => n \in ms
      BY <1>1, <1>3, <3>1
    <3>4. n \in ms => ~(first <= n /\ n <= last)
      BY <1>3, Zenon
    <3>. QED
      BY <2>1, <2>2, <2>3, <2>6, <3>1, <3>2, <3>3, <3>4, Zenon
  <2>7. CASE n \notin DOMAIN m
    <3>1. ASSUME n \in DOMAIN v PROVE n \in ms /\ n - 1 \notin ms
      <4>1. n = last + 1 /\ n \in ns
        BY <2>1, <2>5, <2>7, <3>1, Zenon
      <4>. QED
        BY <1>1, <1>3, <2>3, <4>1
    <3>2. ASSUME n \in ms, n - 1 \notin ms PROVE n \in DOMAIN v
      <4>1. n \in ns /\ n - 1 \in ns
        BY <1>3, <1>10, <2>7, <3>2, Zenon
      <4>2. n = last + 1
        BY <1>1, <1>3, <2>3, <3>2, <4>1
      <4>3. last = n - 1
        BY <1>1, <4>2
      <4>. QED
        BY <2>1, <2>4, <4>1, <4>2, <4>3, Zenon
    <3>. QED
      BY <3>1, <3>2, Zenon
  <2>. QED
    BY <2>6, <2>7, Zenon
<1>12. ASSUME NEW k \in DOMAIN v
       PROVE  /\ k \in Nat /\ v[k] \in ms /\ k <= v[k] /\ v[k] + 1 \notin ms
              /\ \A n \in Nat : k <= n /\ n <= v[k] => n \in ms
  <2>1. v[k] = IF k \in DOMAIN m THEN IF k \in t THEN first - 1 ELSE m[k] ELSE m[Below(m, last)]
    BY <1>9, Zenon
  <2>2. CASE k \in DOMAIN m /\ k \notin t
    <3>1. v[k] = m[k] /\ (k > last \/ m[k] < first)
      BY <1>1, <1>4, <1>5, <2>1, <2>2
    <3>2. m[k] + 1 \notin ms
      BY <1>4, <2>2 DEF ms
    <3>. QED
      BY <1>1, <1>3, <1>4, <2>2, <3>1, <3>2
  <2>3. CASE k \in DOMAIN m /\ k \in t
    <3>1. v[k] = first - 1 /\ m[k] >= first /\ k < first
      <4>1. ~(k >= first)
        <5>1. k \notin Rest(m, t, last)
          BY <1>1, <1>4, <1>5, <1>7, <2>3
        <5>. QED
          BY <1>9, <2>3, <5>1
      <4>. QED
        BY <1>1, <1>4, <1>5, <2>1, <2>3, <4>1
    <3>2. first \notin ms
      BY <1>1, <1>3
    <3>. QED
      BY <1>1, <1>3, <1>4, <2>3, <3>1, <3>2
  <2>4. CASE k \notin DOMAIN m
    <3>1. k = last + 1 /\ \E j \in t : last < m[j]
      BY <1>7, <1>9, <2>4
    <3>2. PICK j \in t : last < m[j]
      BY <3>1, Zenon
    <3>3. j \in DOMAIN m /\ j <= last /\ v[k] = m[j]
      BY <1>5, <1>6, <1>8, <2>1, <2>4, <3>2, Zenon
    <3>4. m[j] + 1 \notin ms
      BY <1>4, <3>3 DEF ms
    <3>. QED
      BY <1>1, <1>3, <1>4, <3>1, <3>2, <3>3, <3>4
  <2>. QED
    BY <2>2, <2>3, <2>4, Zenon
<1>13. v = [k \in DOMAIN v |-> v[k]]
  BY <1>9
<1>14. Runs(v, ms)
  BY <1>2, <1>11, <1>12, <1>13, RunsIf, Zenon
<1>. QED
  BY <1>2, <1>14 DEF ms, v, t

Pick(t) == CHOOSE x \in t : TRUE

\* The loop of Release, as the function that FoldSet defines.
Rounds(g, m, S, first, last) ==
    g = [t \in SUBSET S |-> IF t = {} THEN m ELSE Trim(g[t \ {Pick(t)}], Pick(t), first, last)]

Loop(m, S, first, last) == FoldSet(LAMBDA key, w : Trim(w, key, first, last), m, S)

LEMMA LoopRounds ==
    ASSUME NEW m, NEW S, NEW first, NEW last
    PROVE  Loop(m, S, first, last) = (CHOOSE g : Rounds(g, m, S, first, last))[S]
BY DEF Loop, FoldSet, MapThenFoldSet, Pick, Rounds

LEMMA LoopIs ==
    ASSUME Counting, NEW ns, Numbers(ns), NEW m, Runs(m, ns), NEW first, NEW last, Span(first, last)
    PROVE  Loop(m, Meeting(m, first, last), first, last) = Cut(m, Meeting(m, first, last), first, last)
<1>. DEFINE S == Meeting(m, first, last)
            f == [t \in SUBSET S |-> Cut(m, t, first, last)]
            g == CHOOSE h : Rounds(h, m, S, first, last)
<1>1. IsFiniteSet(S)
  <2>1. \A k \in DOMAIN m : k \in Nat /\ k <= MaxHandle
    BY KeyIs
  <2>2. S \in SUBSET (0 .. MaxHandle)
    BY <2>1, LastHandle DEF Meeting
  <2>3. 0 \in Int /\ MaxHandle \in Int
    BY LastHandle
  <2>4. IsFiniteSet(0 .. MaxHandle)
    BY <2>3, Zenon DEF Counting
  <2>. QED
    BY <2>2, <2>4, Zenon DEF Counting
<1>2. Cut(m, {}, first, last) = m
  <2>1. m = [k \in DOMAIN m |-> m[k]]
    BY Zenon DEF Runs
  <2>2. Rest(m, {}, last) = {}
    BY DEF Rest
  <2>. QED
    BY <2>1, <2>2 DEF Cut
<1>3. \A t \in SUBSET S : \A x \in t :
          Trim(Cut(m, t \ {x}, first, last), x, first, last) = Cut(m, t, first, last)
  BY CutMore, Zenon
<1>. HIDE DEF S
<1>4. \A t \in SUBSET S : t # {} => Pick(t) \in t /\ t \ {Pick(t)} \in SUBSET S
  BY DEF Pick
<1>5. Rounds(f, m, S, first, last)
  <2>1. ASSUME NEW t \in SUBSET S
        PROVE  Cut(m, t, first, last)
                 = IF t = {} THEN m ELSE Trim(f[t \ {Pick(t)}], Pick(t), first, last)
    <3>1. CASE t = {}
      BY <1>2, <3>1
    <3>2. CASE t # {}
      <4>1. f[t \ {Pick(t)}] = Cut(m, t \ {Pick(t)}, first, last)
        BY <1>4, <3>2
      <4>2. Trim(Cut(m, t \ {Pick(t)}, first, last), Pick(t), first, last) = Cut(m, t, first, last)
        BY <1>3, <1>4, <3>2, Zenon
      <4>. HIDE DEF f
      <4>. QED
        BY <3>2, <4>1, <4>2, Zenon
    <3>. QED
      BY <3>1, <3>2, Zenon
  <2>2. f = [t \in SUBSET S |-> IF t = {} THEN m ELSE Trim(f[t \ {Pick(t)}], Pick(t), first, last)]
    BY <2>1, Zenon
  <2>. QED
    BY <2>2, Zenon DEF Rounds
<1>6. Rounds(g, m, S, first, last)
  <2>. HIDE DEF f
  <2>. QED
    BY <1>5, Zenon
<1>. HIDE DEF g
<1>7. \A t \in SUBSET S : g[t] = IF t = {} THEN m ELSE Trim(g[t \ {Pick(t)}], Pick(t), first, last)
  BY <1>6, Zenon DEF Rounds
<1>. DEFINE Wrong == {t \in SUBSET S : g[t] # Cut(m, t, first, last)}
            Counts == {Cardinality(t) : t \in Wrong}
<1>8. Wrong = {}
  <2>. SUFFICES ASSUME Wrong # {} PROVE FALSE
    BY Zenon
  <2>1. \A t \in SUBSET S : IsFiniteSet(t) /\ Cardinality(t) \in Nat
    BY <1>1, Zenon DEF Counting
  <2>2. Counts \in SUBSET Nat /\ Counts # {}
    BY <2>1, Zenon
  <2>3. PICK n \in Counts : \A k \in Counts : n <= k
    <3>. HIDE DEF Counts
    <3>. QED
      BY <2>2, Zenon DEF Counting
  <2>4. PICK t \in Wrong : n = Cardinality(t)
    BY <2>3, Zenon
  <2>5. t \in SUBSET S /\ g[t] # Cut(m, t, first, last)
    BY <2>4, Zenon
  <2>6. t # {}
    BY <1>2, <1>7, <2>5, Zenon
  <2>. DEFINE u == t \ {Pick(t)}
  <2>7. u \in SUBSET S /\ Pick(t) \in t
    BY <1>4, <2>5, <2>6, Zenon
  <2>8. Cardinality(u) = Cardinality(t) - 1
    BY <2>1, <2>5, <2>7, OneLess, Zenon
  <2>9. u \notin Wrong
    <3>. SUFFICES ASSUME u \in Wrong PROVE FALSE
      BY Zenon
    <3>1. Cardinality(u) \in Counts
      BY Zenon
    <3>2. n <= Cardinality(u) /\ n \in Nat
      BY <2>2, <2>3, <3>1, Zenon
    <3>. HIDE DEF u, Counts, Wrong
    <3>. QED
      BY <2>4, <2>8, <3>2
  <2>10. g[u] = Cut(m, u, first, last)
    BY <2>7, <2>9, Zenon
  <2>11. g[t] = Trim(g[u], Pick(t), first, last)
    BY <1>7, <2>5, <2>6, Zenon
  <2>12. Trim(Cut(m, u, first, last), Pick(t), first, last) = Cut(m, t, first, last)
    BY <1>3, <2>5, <2>7, Zenon
  <2>. HIDE DEF u
  <2>. QED
    BY <2>5, <2>10, <2>11, <2>12, Zenon
<1>9. g[S] = Cut(m, S, first, last)
  BY <1>8, Zenon
<1>10. Loop(m, S, first, last) = g[S]
  BY LoopRounds DEF g
<1>. QED
  BY <1>9, <1>10 DEF S

\* What is left of the names when range names from start on are released.
Without(ns, start, range) == (ns \ (start .. start + range - 1)) \cup {0}

\* releaseRange releases the names it is asked to and keeps the runs maximal, also
\* when the range goes past the last GLuint or starts at 0.
LEMMA ReleaseIs ==
    ASSUME Counting, NEW ns, Numbers(ns), NEW m, Runs(m, ns),
           NEW start \in 0 .. MaxHandle, NEW count \in 0 .. MaxHandle
    PROVE  /\ Numbers(Without(ns, start, count))
           /\ Runs(Release(m, start, count), Without(ns, start, count))
<1>. DEFINE first == IF start = 0 THEN 1 ELSE start
            range == IF start = 0 THEN count - 1 ELSE count
            n == first + range - 1
            end == GLuint(n)
            last == IF end < first THEN MaxHandle ELSE end
            None == count = 0 \/ (start = 0 /\ count = 1)
            kept == Without(ns, start, count)
<1>1. start \in Nat /\ count \in Nat /\ start <= MaxHandle /\ count <= MaxHandle
  BY LastHandle
<1>2. 0 \in ns /\ \A i \in ns : i \in Nat /\ i <= MaxHandle
  BY NumberIs, Zenon DEF Numbers
<1>3. Release(m, start, count) = IF None THEN m ELSE Loop(m, Meeting(m, first, last), first, last)
  BY Zenon DEF Release, Loop, Meeting
<1>4. CASE None
  <2>1. kept = ns
    <3>1. ASSUME NEW i \in ns PROVE i \notin start .. start + count - 1 \/ i = 0
      BY <1>1, <1>2, <1>4
    <3>. QED
      BY <1>2, <3>1, Zenon DEF Without
  <2>2. Release(m, start, count) = m
    BY <1>3, <1>4, Zenon
  <2>. QED
    BY <2>1, <2>2
<1>5. CASE ~None
  <2>1. /\ first \in Nat /\ range \in Nat /\ 1 <= first /\ 1 <= range /\ first <= MaxHandle
        /\ range <= MaxHandle /\ first + range = start + count
    BY <1>1, <1>5, LastHandle
  <2>. HIDE DEF first, range
  <2>2. n \in Nat /\ n <= 2 * MaxHandle + 1 /\ n = first + range - 1
    BY <2>1, LastHandle
  <2>. HIDE DEF n
  <2>3. end = IF n <= MaxHandle THEN n ELSE n - MaxHandle - 1
    BY <2>2, GLuintWraps
  <2>. HIDE DEF end
  <2>4. last = IF n <= MaxHandle THEN n ELSE MaxHandle
    BY <2>1, <2>2, <2>3, LastHandle
  <2>. HIDE DEF last
  <2>5. Span(first, last)
    BY <2>1, <2>2, <2>4, LastHandle DEF Span
  <2>6. kept = ns \ (first .. last)
    <3>1. ASSUME NEW i \in ns
          PROVE  (i \in start .. start + count - 1 /\ i # 0) <=> i \in first .. last
      <4>1. i \in Nat /\ i <= MaxHandle
        BY <1>2, Zenon
      <4>. QED
        BY <1>1, <2>1, <2>2, <2>4, <4>1, LastHandle DEF first
    <3>2. 0 \notin first .. last
      BY <2>1
    <3>. QED
      BY <1>2, <3>1, <3>2, Zenon DEF Without
  <2>7. Release(m, start, count) = Cut(m, Meeting(m, first, last), first, last)
    <3>1. Release(m, start, count) = Loop(m, Meeting(m, first, last), first, last)
      BY <1>3, <1>5, Zenon DEF first, range, n, end, last
    <3>. QED
      BY <2>5, <3>1, LoopIs
  <2>. HIDE DEF kept
  <2>8. Numbers(kept) /\ Runs(Release(m, start, count), kept)
    BY <2>5, <2>6, <2>7, CutAll
  <2>. QED
    BY <2>8, Zenon DEF kept
<1>. QED
  BY <1>4, <1>5, Zenon

-------------------------------------------------------------------------------
(* The steps.                                                              *)

\* The map m stores exactly the names s and name 0.
Stores(m, s) == Numbers(s \cup {0}) /\ Runs(m, s \cup {0}) /\ 0 \notin s

RangeInv == Stores(mUsed, inUse)

LEMMA StoresGive ==
    ASSUME NEW s, NEW m, Stores(m, s), NEW w, NEW first \in Handles, NEW range \in Handles,
           Numbers(With(s \cup {0}, first, range)), Runs(w, With(s \cup {0}, first, range))
    PROVE  Stores(w, s \cup (first .. first + range - 1))
<1>. DEFINE run == first .. first + range - 1
<1>1. 0 \notin run
  BY LastHandle DEF Handles
<1>2. With(s \cup {0}, first, range) = (s \cup run) \cup {0}
  BY DEF With
<1>. HIDE DEF run
<1>3. 0 \notin s \cup run
  BY <1>1, Zenon DEF Stores
<1>4. Stores(w, s \cup run)
  BY <1>2, <1>3 DEF Stores
<1>. QED
  BY <1>4 DEF run

LEMMA StoresOne ==
    ASSUME NEW s, NEW m, Stores(m, s), NEW w, NEW h \in Handles,
           Numbers((s \cup {0}) \cup {h}), Runs(w, (s \cup {0}) \cup {h})
    PROVE  Stores(w, s \cup (h .. h + 1 - 1))
<1>1. h .. h + 1 - 1 = {h} /\ h # 0
  BY LastHandle DEF Handles
<1>2. (s \cup {0}) \cup {h} = (s \cup {h}) \cup {0} /\ 0 \notin s \cup {h}
  BY <1>1, Zenon DEF Stores
<1>. QED
  BY <1>1, <1>2 DEF Stores

LEMMA StoresTake ==
    ASSUME Counting, NEW s, NEW m, Stores(m, s),
           NEW start \in 0 .. MaxHandle, NEW count \in 0 .. MaxHandle
    PROVE  Stores(Release(m, start, count), s \ (start .. start + count - 1))
<1>. DEFINE ms == s \ (start .. start + count - 1)
<1>1. Without(s \cup {0}, start, count) = ms \cup {0}
  BY Zenon DEF Without
<1>2. Numbers(Without(s \cup {0}, start, count))
      /\ Runs(Release(m, start, count), Without(s \cup {0}, start, count))
  BY ReleaseIs, Zenon DEF Stores
<1>3. 0 \notin ms
  BY Zenon DEF Stores
<1>. HIDE DEF ms
<1>4. Stores(Release(m, start, count), ms)
  BY <1>1, <1>2, <1>3 DEF Stores
<1>. QED
  BY <1>4 DEF ms

LEMMA StoresType ==
    ASSUME NEW s, NEW m, Stores(m, s)
    PROVE  s \subseteq Handles /\ \A n \in s : n \in Nat
BY LastHandle DEF Stores, Numbers, Handles

\* Free is what RangePool calls a free run.
LEMMA FreeIs ==
    ASSUME RangeInv, NEW f \in Handles, NEW range \in Handles
    PROVE  Free(inUse \cup {0}, f, range) <=> Pool!FreeRun(f, range)
<1>1. f \in Nat /\ 1 <= f /\ range \in Nat /\ 1 <= range
  BY LastHandle DEF Handles
<1>2. \A n \in inUse : n \in Nat
  BY StoresType DEF RangeInv
<1>3. \A n \in inUse : n \in f .. f + range - 1 <=> f <= n /\ n <= f + range - 1
  BY <1>1, <1>2
<1>4. ~(f <= 0)
  BY <1>1
<1>. QED
  BY <1>3, <1>4 DEF Free, Pool!FreeRun

LEMMA allocateRangeStep ==
    ASSUME Counting, RangeInv, NEW range \in Handles, allocateRange(range)
    PROVE  RangeInv' /\ Pool!AllocateRange(range)
<1>. DEFINE a == TakeRange(mUsed, range)
            ns == inUse \cup {0}
<1>1. Allocated(a, mUsed, ns, range)
  BY AllocateIs, Zenon DEF RangeInv, Stores
<1>2. Answer("allocateRange", range, a.map, a.first, range)
  BY Zenon DEF allocateRange
<1>. HIDE DEF a
<1>3. CASE a = [map |-> mUsed, first |-> 0] /\ \A f \in Handles : ~Free(ns, f, range)
  <2>1. mUsed' = mUsed /\ inUse' = inUse /\ answer' = <<"allocateRange", range, 0>>
    BY <1>2, <1>3 DEF Answer, kInvalidHandle
  <2>2. \A f \in Pool!Handles : ~Pool!FreeRun(f, range)
    BY <1>3, FreeIs, Zenon DEF Handles, Pool!Handles
  <2>. QED
    BY <2>1, <2>2 DEF RangeInv, Pool!AllocateRange, Pool!Refuse
<1>4. CASE /\ a.first \in Handles /\ Free(ns, a.first, range)
           /\ Numbers(With(ns, a.first, range)) /\ Runs(a.map, With(ns, a.first, range))
  <2>. DEFINE first == a.first
  <2>1. first # 0
    BY <1>4, LastHandle DEF Handles
  <2>2. /\ mUsed' = a.map /\ inUse' = inUse \cup (first .. first + range - 1)
        /\ answer' = <<"allocateRange", range, first>>
    BY <1>2, <2>1 DEF Answer, kInvalidHandle
  <2>3. Stores(a.map, inUse \cup (first .. first + range - 1))
    BY <1>4, StoresGive, Zenon DEF RangeInv
  <2>4. Pool!FreeRun(first, range) /\ first \in Pool!Handles
    BY <1>4, FreeIs, Zenon DEF Handles, Pool!Handles
  <2>. HIDE DEF first
  <2>5. Pool!AllocateRange(range)
    BY <2>2, <2>4, Zenon DEF Pool!AllocateRange, Pool!Give
  <2>. QED
    BY <2>2, <2>3, <2>5 DEF RangeInv
<1>. QED
  BY <1>1, <1>3, <1>4, Zenon DEF Allocated

LEMMA releaseRangeStep ==
    ASSUME Counting, RangeInv, NEW start \in 0 .. MaxHandle, NEW count \in 0 .. MaxHandle,
           releaseRange(start, count)
    PROVE  RangeInv' /\ Pool!ReleaseRange(start, count)
<1>1. /\ mUsed' = Release(mUsed, start, count) /\ inUse' = inUse \ (start .. start + count - 1)
      /\ answer' = answer
  BY Zenon DEF releaseRange
<1>2. Stores(Release(mUsed, start, count), inUse \ (start .. start + count - 1))
  BY StoresTake, Zenon DEF RangeInv
<1>. QED
  BY <1>1, <1>2 DEF RangeInv, Pool!ReleaseRange

\* Whenever ranges are maximal runs there is room for one name after the first.
LEMMA FirstName ==
    ASSUME Counting, NEW ns, Numbers(ns), NEW m, Runs(m, ns), NEW h \in Handles, h \notin ns
    PROVE  TakeRange(m, 1).first \in Handles /\ TakeRange(m, 1).first <= h
<1>. DEFINE k == FirstFit(m, 1)
            first == GLuint(m[k] + 1)
            last == GLuint(first + 1 - 1)
<1>1. h \in Nat /\ 1 <= h /\ h <= MaxHandle
  BY LastHandle DEF Handles
<1>2. k \in DOMAIN m /\ \A j \in DOMAIN m : Fits(m, j, 1) => k <= j
  BY FirstFitIs, Zenon
<1>3. 0 \in DOMAIN m /\ Fits(m, 0, 1)
  <2>1. 0 \in DOMAIN m
    BY ZeroIsKey
  <2>2. ASSUME After(m, 0) # {} PROVE Min(After(m, 0)) - m[0] > 1
    <3>1. Min(After(m, 0)) \in DOMAIN m /\ m[0] + 1 < Min(After(m, 0))
      BY <2>1, <2>2, AfterIs, Zenon
    <3>2. Min(After(m, 0)) \in Nat /\ m[0] \in Nat
      BY <2>1, <3>1, KeyIs
    <3>. QED
      BY <3>1, <3>2
  <2>. QED
    BY <2>1, <2>2, Zenon DEF Fits
<1>4. k = 0
  BY <1>2, <1>3, KeyIs
<1>5. m[0] \in Nat /\ m[0] < h
  <2>1. m[0] \in Nat /\ \A n \in Nat : 0 <= n /\ n <= m[0] => n \in ns
    BY <1>3, KeyIs
  <2>. QED
    BY <1>1, <2>1
<1>6. first = m[0] + 1
  <2>. DEFINE n == m[0] + 1
  <2>1. n \in Nat /\ n <= MaxHandle /\ n <= 2 * MaxHandle + 1
    BY <1>1, <1>5, LastHandle
  <2>2. GLuint(n) = n
    <3>. HIDE DEF n
    <3>. QED
      BY <2>1, GLuintWraps
  <2>. QED
    BY <1>4, <2>2
<1>7. last = first
  <2>. HIDE DEF first
  <2>1. first \in Nat /\ first <= MaxHandle /\ first <= 2 * MaxHandle + 1 /\ first + 1 - 1 = first
    BY <1>1, <1>5, <1>6, LastHandle
  <2>2. GLuint(first) = first
    BY <2>1, GLuintWraps
  <2>. QED
    BY <2>1, <2>2
<1>8. TakeRange(m, 1) = IF first = 0 \/ last < first THEN [map |-> m, first |-> 0]
                        ELSE [map |-> Extend(m, k, last), first |-> first]
  BY Zenon DEF TakeRange, kInvalidHandle
<1>. HIDE DEF first, last, k
<1>9. TakeRange(m, 1).first = first
  <2>1. ~(first = 0 \/ last < first)
    BY <1>5, <1>6, <1>7
  <2>2. TakeRange(m, 1) = [map |-> Extend(m, k, last), first |-> first]
    BY <1>8, <2>1, Zenon
  <2>. QED
    BY <2>2
<1>. QED
  BY <1>1, <1>5, <1>6, <1>9, LastHandle DEF Handles

\* A range of one name, added above the last range at or below it.
LEMMA ExtendOne ==
    ASSUME Counting, NEW s, NEW m, Stores(m, s), NEW k \in DOMAIN m,
           NEW h \in Handles, m[k] + 1 = h
    PROVE  h \notin s /\ Stores(Extend(m, k, h), s \cup (h .. h + 1 - 1))
<1>. DEFINE ns == s \cup {0}
<1>1. Numbers(ns) /\ Runs(m, ns)
  BY Zenon DEF Stores
<1>2. h \in Nat /\ h <= MaxHandle
  BY LastHandle DEF Handles
<1>. HIDE DEF ns
<1>3. m[k] \in Nat /\ h \notin ns
  BY <1>1, KeyIs
<1>4. m[k] < h /\ m[k] + 1 .. h = {h}
  BY <1>2, <1>3
<1>5. \A n \in ns : ~(m[k] < n /\ n <= h)
  <2>1. \A n \in ns : n \in Nat
    BY <1>1, NumberIs
  <2>. QED
    BY <1>2, <1>3, <2>1
<1>6. Numbers(ns \cup {h}) /\ Runs(Extend(m, k, h), ns \cup {h})
  <2>1. Numbers(ns \cup (m[k] + 1 .. h)) /\ Runs(Extend(m, k, h), ns \cup (m[k] + 1 .. h))
    BY <1>1, <1>2, <1>4, <1>5, ExtendRuns, Zenon
  <2>. QED
    BY <1>4, <2>1
<1>7. Stores(Extend(m, k, h), s \cup (h .. h + 1 - 1))
  BY <1>6, StoresOne, Zenon DEF ns
<1>8. h \notin s
  BY <1>3, Zenon DEF ns
<1>. QED
  BY <1>7, <1>8, Zenon

LEMMA PrependOne ==
    ASSUME Counting, NEW s, NEW m, Stores(m, s), NEW h \in Handles, NEW k,
           IsBelow(m, s \cup {0}, k, h), m[k] + 1 < h
    PROVE  h \notin s /\ Stores(Prepend(m, k, h), s \cup (h .. h + 1 - 1))
<1>1. h \in Nat /\ h <= MaxHandle
  BY LastHandle DEF Handles
<1>2. Numbers(s \cup {0}) /\ Runs(m, s \cup {0})
  BY Zenon DEF Stores
<1>3. Numbers((s \cup {0}) \cup {h}) /\ Runs(Prepend(m, k, h), (s \cup {0}) \cup {h})
  BY <1>1, <1>2, PrependRuns, Zenon
<1>4. Stores(Prepend(m, k, h), s \cup (h .. h + 1 - 1))
  BY <1>3, StoresOne, Zenon
<1>5. h \notin s
  <2>. DEFINE ns == s \cup {0}
  <2>1. k \in DOMAIN m /\ (h \in ns <=> m[k] >= h)
    <3>1. k \in DOMAIN m
      BY Zenon DEF IsBelow
    <3>. HIDE DEF ns
    <3>2. Numbers(ns) /\ Runs(m, ns) /\ IsBelow(m, ns, k, h)
      BY <1>2 DEF ns
    <3>. QED
      BY <1>1, <3>1, <3>2, BelowTells
  <2>2. m[k] \in Nat
    BY <1>2, <2>1, KeyIs
  <2>3. ~(m[k] >= h)
    BY <1>1, <2>2
  <2>. QED
    BY <2>1, <2>3, Zenon
<1>. QED
  BY <1>4, <1>5, Zenon

\* The names that a request for one from wanted on can be given.
Wanted(wanted) == {h \in Pool!Handles \ inUse : h >= wanted}

LEMMA GiveAbove ==
    ASSUME NEW wanted, NEW h \in Handles, h \notin inUse, NEW w, Stores(w, inUse \cup (h .. h + 1 - 1)),
           Answer("allocateAtOrAbove", wanted, w, h, 1),
           \/ h >= wanted /\ \A g \in Wanted(wanted) : h <= g
           \/ Wanted(wanted) = {}
    PROVE  RangeInv' /\ Pool!AllocateAtOrAbove(wanted)
<1>1. h # 0
  BY LastHandle DEF Handles
<1>2. /\ mUsed' = w /\ inUse' = inUse \cup (h .. h + 1 - 1)
      /\ answer' = <<"allocateAtOrAbove", wanted, h>>
  BY <1>1 DEF Answer, kInvalidHandle
<1>3. RangeInv'
  BY <1>2 DEF RangeInv
<1>4. h \in Pool!Handles \ inUse
  BY Zenon DEF Handles, Pool!Handles
<1>5. Pool!AllocateAtOrAbove(wanted)
  BY <1>2, <1>4, Zenon DEF Pool!AllocateAtOrAbove, Pool!Give, Wanted
<1>. QED
  BY <1>3, <1>5, Zenon

LEMMA allocateAtOrAboveStep ==
    ASSUME Counting, RangeInv, NEW wanted \in 0 .. MaxHandle, allocateAtOrAbove(wanted)
    PROVE  RangeInv' /\ Pool!AllocateAtOrAbove(wanted)
<1>. DEFINE k == Below(mUsed, wanted)
            last == GLuint(mUsed[k] + 1)
            append == wanted - 1 <= mUsed[k]
            one == TakeRange(mUsed, 1)
            ns == inUse \cup {0}
<1>1. wanted \in Nat /\ wanted <= MaxHandle
  BY LastHandle
<1>2. Stores(mUsed, inUse) /\ Numbers(ns) /\ Runs(mUsed, ns)
  BY Zenon DEF RangeInv, Stores
<1>. HIDE DEF ns
<1>3. IsBelow(mUsed, ns, k, wanted)
  BY <1>1, <1>2, BelowIs
<1>4. IF wanted \in {0, 1} \/ (append /\ last = 0)
      THEN Answer("allocateAtOrAbove", wanted, one.map, one.first, 1)
      ELSE IF append
      THEN Answer("allocateAtOrAbove", wanted, Extend(mUsed, k, last), last, 1)
      ELSE Answer("allocateAtOrAbove", wanted, Prepend(mUsed, k, wanted), wanted, 1)
  BY Zenon DEF allocateAtOrAbove
<1>. HIDE DEF k, one
<1>5. /\ k \in DOMAIN mUsed /\ k \in Nat /\ k <= wanted /\ mUsed[k] \in Nat /\ mUsed[k] <= MaxHandle
      /\ \A n \in Nat : k <= n /\ n <= mUsed[k] => n \in ns
  BY <1>2, <1>3, KeyIs DEF IsBelow
<1>6. \A h \in Handles : h \in Nat /\ 1 <= h /\ h <= MaxHandle /\ (h \in ns <=> h \in inUse)
  BY LastHandle DEF Handles, ns
<1>7. \A h : h \in Wanted(wanted) <=> h \in Handles /\ h \notin inUse /\ h >= wanted
  BY DEF Wanted, Handles, Pool!Handles
<1>8. last = IF mUsed[k] + 1 <= MaxHandle THEN mUsed[k] + 1 ELSE 0
  <2>. DEFINE n == mUsed[k] + 1
  <2>1. n \in Nat /\ n <= 2 * MaxHandle + 1 /\ last = GLuint(n)
    BY <1>5, LastHandle
  <2>2. last = IF n <= MaxHandle THEN n ELSE n - MaxHandle - 1
    <3>. HIDE DEF n, last
    <3>. QED
      BY <2>1, GLuintWraps
  <2>3. last = IF n <= MaxHandle THEN n ELSE 0
    <3>1. n <= MaxHandle + 1 /\ n \in Nat /\ MaxHandle \in Nat
      BY <1>5, LastHandle
    <3>. HIDE DEF n, last
    <3>. QED
      BY <2>2, <3>1
  <2>. QED
    BY <2>3, Zenon
<1>. HIDE DEF last
<1>9. CASE wanted \in {0, 1} \/ (append /\ last = 0)
  <2>1. Answer("allocateAtOrAbove", wanted, one.map, one.first, 1)
    BY <1>4, <1>9, Zenon
  <2>2. 1 \in Handles
    BY LastHandle DEF Handles
  <2>3. Allocated(one, mUsed, ns, 1)
    BY <1>2, <2>2, AllocateIs, Zenon DEF one
  <2>4. CASE one = [map |-> mUsed, first |-> 0] /\ \A f \in Handles : ~Free(ns, f, 1)
    <3>1. mUsed' = mUsed /\ inUse' = inUse /\ answer' = <<"allocateAtOrAbove", wanted, 0>>
      BY <2>1, <2>4 DEF Answer, kInvalidHandle
    <3>2. ASSUME NEW h \in Handles PROVE h \in inUse
      <4>1. \A n \in ns : n \in Nat
        BY <1>2, NumberIs
      <4>2. h + 1 - 1 = h
        BY <1>6
      <4>3. PICK n \in ns : h <= n /\ n <= h
        BY <1>6, <2>4, <4>2 DEF Free
      <4>4. n = h
        BY <1>6, <4>1, <4>3
      <4>. QED
        BY <1>6, <4>4
    <3>3. Pool!Handles \ inUse = {}
      BY <3>2, Zenon DEF Handles, Pool!Handles
    <3>4. Pool!AllocateAtOrAbove(wanted)
      BY <3>1, <3>3, Zenon DEF Pool!AllocateAtOrAbove, Pool!Refuse
    <3>. QED
      BY <1>2, <3>1, <3>4 DEF RangeInv
  <2>5. CASE /\ one.first \in Handles /\ Free(ns, one.first, 1)
             /\ Numbers(With(ns, one.first, 1)) /\ Runs(one.map, With(ns, one.first, 1))
    <3>. DEFINE h == one.first
    <3>1. h \in Handles /\ h \in Nat /\ h + 1 - 1 = h
      BY <1>6, <2>5
    <3>2. h \notin inUse
      <4>1. h \notin ns
        <5>. HIDE DEF h
        <5>1. \A n \in ns : ~(h <= n /\ n <= h + 1 - 1)
          BY <2>5, Zenon DEF Free, h
        <5>2. h <= h
          BY <3>1
        <5>. QED
          BY <3>1, <5>1, <5>2
      <4>. QED
        BY <1>6, <3>1, <4>1, Zenon
    <3>3. Stores(one.map, inUse \cup (h .. h + 1 - 1))
      BY <1>2, <2>2, <2>5, StoresGive, Zenon DEF ns
    <3>4. ASSUME NEW g \in Wanted(wanted) PROVE h <= g
      <4>1. g \in Handles /\ g \notin ns
        BY <1>6, <1>7, Zenon
      <4>. QED
        BY <1>2, <4>1, FirstName, Zenon DEF one
    <3>5. h >= wanted \/ Wanted(wanted) = {}
      <4>1. CASE wanted \in {0, 1}
        BY <1>6, <3>1, <4>1
      <4>2. CASE append /\ last = 0
        <5>1. mUsed[k] = MaxHandle
          BY <1>5, <1>8, <4>2, LastHandle
        <5>2. ASSUME NEW g \in Wanted(wanted) PROVE FALSE
          <6>1. g \in Handles /\ g \notin ns /\ g >= wanted
            BY <1>6, <1>7, Zenon
          <6>2. g \in Nat /\ g <= MaxHandle
            BY <1>6, <6>1, Zenon
          <6>. QED
            BY <1>1, <1>5, <5>1, <6>1, <6>2
        <5>. QED
          BY <5>2, Zenon
      <4>. QED
        BY <1>9, <4>1, <4>2, Zenon
    <3>. HIDE DEF h
    <3>. QED
      BY <2>1, <3>1, <3>2, <3>3, <3>4, <3>5, GiveAbove, Zenon DEF h
  <2>. QED
    BY <2>3, <2>4, <2>5, Zenon DEF Allocated
<1>10. CASE ~(wanted \in {0, 1} \/ (append /\ last = 0)) /\ append
  <2>1. Answer("allocateAtOrAbove", wanted, Extend(mUsed, k, last), last, 1)
    BY <1>4, <1>10, Zenon
  <2>2. last = mUsed[k] + 1 /\ last \in Handles /\ last >= wanted
    BY <1>1, <1>5, <1>8, <1>10, LastHandle DEF Handles
  <2>3. last \notin inUse /\ Stores(Extend(mUsed, k, last), inUse \cup (last .. last + 1 - 1))
    BY <1>2, <1>5, <2>2, ExtendOne
  <2>4. ASSUME NEW g \in Wanted(wanted) PROVE last <= g
    <3>1. g \in Handles /\ g \notin ns /\ g >= wanted
      BY <1>6, <1>7, Zenon
    <3>2. g \in Nat /\ k <= g
      BY <1>1, <1>5, <1>6, <3>1
    <3>. QED
      BY <1>5, <2>2, <3>1, <3>2
  <2>. QED
    BY <2>1, <2>2, <2>3, <2>4, GiveAbove, Zenon
<1>11. CASE ~(wanted \in {0, 1} \/ (append /\ last = 0)) /\ ~append
  <2>1. Answer("allocateAtOrAbove", wanted, Prepend(mUsed, k, wanted), wanted, 1)
    BY <1>4, <1>11, Zenon
  <2>2. wanted \in Handles /\ wanted >= wanted /\ mUsed[k] + 1 < wanted
    BY <1>1, <1>5, <1>11, LastHandle DEF Handles
  <2>3. wanted \notin inUse /\ Stores(Prepend(mUsed, k, wanted), inUse \cup (wanted .. wanted + 1 - 1))
    BY <1>2, <1>3, <2>2, PrependOne, Zenon DEF ns
  <2>4. \A g \in Wanted(wanted) : wanted <= g
    <3>1. \A g \in Wanted(wanted) : g \in Nat /\ g >= wanted
      BY <1>6, <1>7, Zenon
    <3>. QED
      BY <1>1, <3>1
  <2>. QED
    BY <2>1, <2>2, <2>3, <2>4, GiveAbove, Zenon
<1>. QED
  BY <1>9, <1>10, <1>11, Zenon

LEMMA markAsUsedStep ==
    ASSUME Counting, RangeInv, NEW handle \in Handles, markAsUsed(handle)
    PROVE  RangeInv' /\ Pool!MarkAsUsed(handle)
<1>. DEFINE k == Below(mUsed, handle)
            ns == inUse \cup {0}
<1>1. handle \in Nat /\ handle <= MaxHandle /\ handle # 0
  BY LastHandle DEF Handles
<1>2. Stores(mUsed, inUse) /\ Numbers(ns) /\ Runs(mUsed, ns)
  BY Zenon DEF RangeInv, Stores
<1>. HIDE DEF ns
<1>3. IsBelow(mUsed, ns, k, handle)
  BY <1>1, <1>2, BelowIs
<1>4. IF mUsed[k] >= handle THEN Answer("markAsUsed", handle, mUsed, 0, 1)
      ELSE IF mUsed[k] + 1 = handle THEN Answer("markAsUsed", handle, Extend(mUsed, k, handle), handle, 1)
      ELSE Answer("markAsUsed", handle, Prepend(mUsed, k, handle), handle, 1)
  BY Zenon DEF markAsUsed, kInvalidHandle
<1>. HIDE DEF k
<1>5. k \in DOMAIN mUsed /\ mUsed[k] \in Nat
  BY <1>2, <1>3, KeyIs DEF IsBelow
<1>6. CASE mUsed[k] >= handle
  <2>1. Answer("markAsUsed", handle, mUsed, 0, 1)
    BY <1>4, <1>6, Zenon
  <2>2. handle \in ns
    BY <1>1, <1>2, <1>3, <1>6, BelowTells, Zenon
  <2>3. handle \in inUse
    BY <1>1, <2>2 DEF ns
  <2>. QED
    BY <1>2, <2>1, <2>3 DEF Answer, kInvalidHandle, RangeInv, Pool!MarkAsUsed, Pool!Refuse
<1>7. ASSUME NEW w, Answer("markAsUsed", handle, w, handle, 1), handle \notin inUse,
             Stores(w, inUse \cup (handle .. handle + 1 - 1))
      PROVE  RangeInv' /\ Pool!MarkAsUsed(handle)
  <2>1. /\ mUsed' = w /\ inUse' = inUse \cup (handle .. handle + 1 - 1)
        /\ answer' = <<"markAsUsed", handle, handle>>
    BY <1>1, <1>7 DEF Answer, kInvalidHandle
  <2>2. Pool!MarkAsUsed(handle)
    BY <1>7, <2>1, Zenon DEF Pool!MarkAsUsed, Pool!Give
  <2>. QED
    BY <1>7, <2>1, <2>2 DEF RangeInv
<1>8. CASE ~(mUsed[k] >= handle) /\ mUsed[k] + 1 = handle
  <2>1. Answer("markAsUsed", handle, Extend(mUsed, k, handle), handle, 1)
    BY <1>4, <1>8, Zenon
  <2>2. handle \notin inUse /\ Stores(Extend(mUsed, k, handle), inUse \cup (handle .. handle + 1 - 1))
    BY <1>2, <1>5, <1>8, ExtendOne
  <2>. QED
    BY <1>7, <2>1, <2>2, Zenon
<1>9. CASE ~(mUsed[k] >= handle) /\ mUsed[k] + 1 # handle
  <2>1. Answer("markAsUsed", handle, Prepend(mUsed, k, handle), handle, 1)
    BY <1>4, <1>9, Zenon
  <2>2. mUsed[k] + 1 < handle
    BY <1>1, <1>5, <1>9
  <2>3. handle \notin inUse /\ Stores(Prepend(mUsed, k, handle), inUse \cup (handle .. handle + 1 - 1))
    BY <1>2, <1>3, <2>2, PrependOne, Zenon DEF ns
  <2>. QED
    BY <1>7, <2>1, <2>3, Zenon
<1>. QED
  BY <1>6, <1>8, <1>9, Zenon

-------------------------------------------------------------------------------
(* The path manager.                                                       *)

\* The inductive invariant: the map stores exactly the names in use, whoever
\* uses the allocator, and the path manager has a path for each of them.
PathInv == RangeInv /\ (user = "PathManager" => mPaths = inUse)

LEMMA createPathsStep ==
    ASSUME Counting, PathInv, user = "PathManager", NEW range \in 1 .. MaxRange, NEW created \in BOOLEAN,
           createPaths(range, created)
    PROVE  /\ RangeInv' /\ mPaths' = inUse'
           /\ Pool!AllocateRange(range) \/ UNCHANGED <<inUse, answer>>
<1>. DEFINE a == TakeRange(mUsed, range)
            ns == inUse \cup {0}
            run == a.first .. a.first + range - 1
<1>1. range \in Handles /\ range \in 0 .. MaxHandle
  BY LastHandle DEF Handles
<1>2. RangeInv /\ mPaths = inUse
  BY Zenon DEF PathInv
<1>3. CASE created \/ a.first = 0
  <2>1. allocateRange(range) /\ mPaths' = mPaths \cup Created(a, range)
    BY <1>3, Zenon DEF createPaths, kInvalidHandle
  <2>2. RangeInv' /\ Pool!AllocateRange(range)
    BY <1>1, <1>2, <2>1, allocateRangeStep, Zenon
  <2>3. Answer("allocateRange", range, a.map, a.first, range)
    BY <2>1, Zenon DEF allocateRange
  <2>. HIDE DEF a
  <2>4. mPaths' = inUse'
    BY <1>2, <2>1, <2>3 DEF Answer, Created
  <2>. QED
    BY <2>2, <2>4, Zenon
<1>4. CASE ~(created \/ a.first = 0)
  <2>1. /\ mUsed' = Release(a.map, a.first, range)
        /\ inUse' = inUse /\ answer' = answer /\ mPaths' = mPaths
    BY <1>4, Zenon DEF createPaths, kInvalidHandle
  <2>2. Allocated(a, mUsed, ns, range)
    BY <1>1, <1>2, AllocateIs, Zenon DEF RangeInv, Stores
  <2>. HIDE DEF a
  <2>3. /\ a.first \in Handles /\ Free(ns, a.first, range)
        /\ Numbers(With(ns, a.first, range)) /\ Runs(a.map, With(ns, a.first, range))
    BY <1>4, <2>2 DEF Allocated
  <2>4. a.first \in 0 .. MaxHandle
    BY <2>3, LastHandle DEF Handles
  <2>5. Stores(a.map, inUse \cup run)
    BY <1>1, <1>2, <2>3, StoresGive, Zenon DEF RangeInv
  <2>6. Stores(Release(a.map, a.first, range), (inUse \cup run) \ run)
    BY <1>1, <2>4, <2>5, StoresTake, Zenon
  <2>7. inUse \cap run = {}
    BY <1>1, <1>2, <2>3, FreeIs, Zenon DEF Pool!FreeRun
  <2>8. (inUse \cup run) \ run = inUse
    BY <2>7, Zenon
  <2>9. Stores(mUsed', inUse')
    <3>. HIDE DEF run
    <3>. QED
      BY <2>1, <2>6, <2>8
  <2>10. RangeInv'
    BY <2>9 DEF RangeInv
  <2>. QED
    BY <1>2, <2>1, <2>10
<1>. QED
  BY <1>3, <1>4, Zenon

LEMMA deletePathsStep ==
    ASSUME Counting, PathInv, user = "PathManager",
           NEW first \in 0 .. MaxHandle, NEW range \in 1 .. MaxRange, deletePaths(first, range)
    PROVE  RangeInv' /\ mPaths' = inUse' /\ Pool!ReleaseRange(first, range) /\ range \in 0 .. MaxHandle
<1>1. range \in 0 .. MaxHandle
  BY LastHandle
<1>2. RangeInv /\ mPaths = inUse
  BY Zenon DEF PathInv
<1>3. releaseRange(first, range) /\ mPaths' = mPaths \ (first .. first + range - 1)
  BY Zenon DEF deletePaths
<1>4. RangeInv' /\ Pool!ReleaseRange(first, range)
  BY <1>1, <1>2, <1>3, releaseRangeStep, Zenon
<1>5. inUse' = inUse \ (first .. first + range - 1)
  BY <1>3, Zenon DEF releaseRange
<1>. QED
  BY <1>1, <1>2, <1>3, <1>4, <1>5

\* Every step keeps the invariant, and is a step of RangePool or changes nothing
\* that RangePool sees.
LEMMA UserStep ==
    ASSUME Counting, PathInv, UserNext
    PROVE  PathInv' /\ (Pool!Next \/ UNCHANGED <<inUse, answer>>)
<1>1. user' = user /\ RangeInv
  BY Zenon DEF UserNext, PathInv
<1>2. ASSUME user = "PathManager", PathNext
      PROVE  RangeInv' /\ mPaths' = inUse' /\ (Pool!Next \/ UNCHANGED <<inUse, answer>>)
  <2>1. ASSUME NEW range \in 1 .. MaxRange, NEW created \in BOOLEAN, createPaths(range, created)
        PROVE  RangeInv' /\ mPaths' = inUse' /\ (Pool!Next \/ UNCHANGED <<inUse, answer>>)
    <3>1. range \in Pool!Handles
      BY LastHandle DEF Pool!Handles
    <3>2. /\ RangeInv' /\ mPaths' = inUse'
          /\ Pool!AllocateRange(range) \/ UNCHANGED <<inUse, answer>>
      BY <1>2, <2>1, createPathsStep, Zenon
    <3>. QED
      BY <3>1, <3>2, Zenon DEF Pool!Next
  <2>2. ASSUME NEW first \in 0 .. MaxHandle, NEW range \in 1 .. MaxRange, deletePaths(first, range)
        PROVE  RangeInv' /\ mPaths' = inUse' /\ Pool!Next
    <3>1. RangeInv' /\ mPaths' = inUse' /\ Pool!ReleaseRange(first, range) /\ range \in 0 .. MaxHandle
      BY <1>2, <2>2, deletePathsStep, Zenon
    <3>. QED
      BY <3>1, Zenon DEF Pool!Next
  <2>. QED
    BY <1>2, <2>1, <2>2, Zenon DEF PathNext
<1>3. ASSUME RangeNext
      PROVE  RangeInv' /\ Pool!Next
  <2>1. ASSUME NEW range \in Handles, allocateRange(range) PROVE RangeInv' /\ Pool!Next
    <3>1. RangeInv' /\ Pool!AllocateRange(range)
      BY <1>1, <2>1, allocateRangeStep, Zenon
    <3>. QED
      BY <3>1, Zenon DEF Handles, Pool!Handles, Pool!Next
  <2>2. ASSUME NEW wanted \in 0 .. MaxHandle, allocateAtOrAbove(wanted) PROVE RangeInv' /\ Pool!Next
    <3>1. RangeInv' /\ Pool!AllocateAtOrAbove(wanted)
      BY <1>1, <2>2, allocateAtOrAboveStep, Zenon
    <3>. QED
      BY <3>1, Zenon DEF Pool!Next
  <2>3. ASSUME NEW handle \in Handles, markAsUsed(handle) PROVE RangeInv' /\ Pool!Next
    <3>1. RangeInv' /\ Pool!MarkAsUsed(handle)
      BY <1>1, <2>3, markAsUsedStep, Zenon
    <3>. QED
      BY <3>1, Zenon DEF Handles, Pool!Handles, Pool!Next
  <2>4. ASSUME NEW first \in 0 .. MaxHandle, NEW range \in 0 .. MaxHandle, releaseRange(first, range)
        PROVE  RangeInv' /\ Pool!Next
    <3>1. RangeInv' /\ Pool!ReleaseRange(first, range)
      BY <1>1, <2>4, releaseRangeStep, Zenon
    <3>. QED
      BY <3>1, Zenon DEF Pool!Next
  <2>. QED
    BY <1>3, <2>1, <2>2, <2>3, <2>4, Zenon DEF RangeNext
<1>4. CASE user = "PathManager" /\ PathNext
  BY <1>1, <1>2, <1>4, Zenon DEF PathInv
<1>5. CASE user = "any" /\ RangeNext
  <2>1. user' # "PathManager"
    BY <1>1, <1>5
  <2>. QED
    BY <1>3, <1>5, <2>1, Zenon DEF PathInv
<1>. QED
  BY <1>4, <1>5, Zenon DEF UserNext

LEMMA PathInitial ==
    ASSUME PathInit
    PROVE  PathInv /\ Pool!Init
<1>1. mUsed = [k \in {0} |-> 0] /\ inUse = {} /\ answer = <<>> /\ mPaths = {}
  BY Zenon DEF PathInit, RangeInit
<1>. DEFINE ns == {} \cup {0}
            m == [k \in {0} |-> 0]
<1>2. Numbers(ns)
  BY LastHandle DEF Numbers
<1>3. ns = {0} /\ DOMAIN m = {0} /\ m[0] = 0 /\ m = [k \in DOMAIN m |-> m[k]]
  OBVIOUS
<1>4. 0 .. 0 = {0} /\ {n \in {0} : n - 1 \notin {0}} = {0}
  OBVIOUS
<1>. HIDE DEF m, ns
<1>5. Runs(m, ns)
  BY <1>3, <1>4 DEF Runs
<1>6. Stores(m, {})
  BY <1>2, <1>5 DEF Stores, ns
<1>. QED
  BY <1>1, <1>6 DEF PathInv, RangeInv, Pool!Init, m

-------------------------------------------------------------------------------
(* What is supposed about finite sets follows from the library.            *)

Library == INSTANCE FiniteSetTheorems

LEMMA LeastExists ==
    ASSUME NEW T \in SUBSET Nat, T # {}
    PROVE  \E n \in T : \A m \in T : n <= m
<1>. DEFINE R == Library!OpToRel(<, Nat)
<1>1. Library!IsWellFoundedOn(R, Nat)
  BY Library!NatLessThanWellFounded, Zenon
<1>2. \A x, y \in Nat : x < y => <<x, y>> \in R
  BY DEF Library!OpToRel
<1>. HIDE DEF R
<1>3. PICK x \in T : \A y \in T : ~(<<y, x>> \in R)
  BY <1>1, Library!WFMin, Zenon
<1>4. ASSUME NEW y \in T PROVE x <= y
  <2>1. x \in Nat /\ y \in Nat
    OBVIOUS
  <2>2. ~(y < x)
    BY <1>2, <1>3, <2>1, Zenon
  <2>. QED
    BY <2>1, <2>2
<1>. QED
  BY <1>4

LEMMA CountingHolds == Counting
<1>1. \A S : IsFiniteSet(S) = Library!IsFiniteSet(S)
  BY Zenon DEF IsFiniteSet, Library!IsFiniteSet
<1>2. \A S : Cardinality(S) = Library!Cardinality(S)
  BY Zenon DEF Cardinality, Library!Cardinality
<1>3. /\ IsFiniteSet({})
      /\ \A S : IsFiniteSet(S) => Cardinality(S) \in Nat /\ (Cardinality(S) = 0 <=> S = {})
  BY <1>1, <1>2, Library!FS_EmptySet, Library!FS_CardinalityType
<1>4. \A S, x : IsFiniteSet(S) =>
          /\ IsFiniteSet(S \cup {x})
          /\ Cardinality(S \cup {x}) = IF x \in S THEN Cardinality(S) ELSE Cardinality(S) + 1
  BY <1>1, <1>2, Library!FS_AddElement
<1>5. \A S, x : IsFiniteSet(S) =>
          /\ IsFiniteSet(S \ {x})
          /\ Cardinality(S \ {x}) = IF x \in S THEN Cardinality(S) - 1 ELSE Cardinality(S)
  BY <1>1, <1>2, Library!FS_RemoveElement
<1>6. \A S : \A T \in SUBSET S : IsFiniteSet(S) =>
          /\ IsFiniteSet(T)
          /\ Cardinality(T) <= Cardinality(S)
          /\ Cardinality(S) = Cardinality(T) => S = T
  BY <1>1, <1>2, Library!FS_Subset
<1>7. \A S, T : IsFiniteSet(S) =>
          /\ IsFiniteSet(S \ T)
          /\ Cardinality(S \ T) = Cardinality(S) - Cardinality(S \cap T)
  BY <1>1, <1>2, Library!FS_Difference
<1>8. \A S, T : IsFiniteSet(S) /\ IsFiniteSet(T) => IsFiniteSet(S \X T)
  BY <1>1, Library!FS_Product
<1>9. \A a, b \in Int :
          /\ IsFiniteSet(a .. b)
          /\ Cardinality(a .. b) = IF a > b THEN 0 ELSE b - a + 1
  BY <1>1, <1>2, Library!FS_Interval
<1>. QED
  BY <1>3, <1>4, <1>5, <1>6, <1>7, <1>8, <1>9, LeastExists, Zenon DEF Counting

\* The allocator and the path manager keep the invariant from the start on, for
\* every width of GLuint.
THEOREM PathInvariant == PathSpec => []PathInv
<1>1. PathInit => PathInv
  BY PathInitial, Zenon
<1>2. PathInv /\ [UserNext]_pathVars => PathInv'
  <2>1. ASSUME PathInv, UserNext PROVE PathInv'
    BY <2>1, CountingHolds, UserStep, Zenon
  <2>2. ASSUME PathInv, UNCHANGED pathVars PROVE PathInv'
    BY <2>2 DEF pathVars, rangeVars, PathInv, RangeInv
  <2>. QED
    BY <2>1, <2>2, Zenon
<1>. QED
  BY <1>1, <1>2, PTL DEF PathSpec

\* The map of HandleRangeAllocator holds the names in use and name 0 as their
\* maximal runs, for every width of GLuint and both users of the allocator.
THEOREM RangesAlwaysMaximal == PathSpec => []MaximalRuns
<1>1. ASSUME PathInv PROVE MaximalRuns
  <2>1. Stores(mUsed, inUse)
    BY <1>1, Zenon DEF PathInv, RangeInv
  <2>2. inUse \subseteq Handles
    BY <2>1, StoresType
  <2>. QED
    BY <2>1, <2>2 DEF MaximalRuns, Stores, Runs
<1>2. PathInv => MaximalRuns
  BY <1>1, Zenon
<1>. QED
  BY <1>2, PathInvariant, PTL

\* A name that PathManager::hasPath accepts has a path object and no other name
\* has, for every width of GLuint, names given back after a failed creation
\* included.
THEOREM PathAlwaysExists == PathSpec => []PathExists
<1>1. ASSUME PathInv PROVE PathExists
  <2>. SUFFICES ASSUME user = "PathManager", NEW handle \in 0 .. MaxHandle
                PROVE  hasPath(handle) <=> handle \in mPaths
    BY Zenon DEF PathExists
  <2>. DEFINE ns == inUse \cup {0}
              k == Below(mUsed, handle)
  <2>1. Numbers(ns) /\ Runs(mUsed, ns) /\ 0 \notin inUse /\ mPaths = inUse
    BY <1>1, Zenon DEF PathInv, RangeInv, Stores
  <2>2. handle \in Nat
    BY LastHandle
  <2>. HIDE DEF ns
  <2>3. IsBelow(mUsed, ns, k, handle)
    BY <2>1, <2>2, CountingHolds, BelowIs
  <2>4. handle \in ns <=> mUsed[k] >= handle
    <3>. HIDE DEF k
    <3>. QED
      BY <2>1, <2>2, <2>3, BelowTells
  <2>5. hasPath(handle) <=> handle # 0 /\ handle \in ns
    BY <2>4, Zenon DEF hasPath, isUsed, kInvalidHandle
  <2>. QED
    BY <2>1, <2>5 DEF ns
<1>2. PathInv => PathExists
  BY <1>1, Zenon
<1>. QED
  BY <1>2, PathInvariant, PTL

\* HandleRangeAllocator, used directly or by PathManager, implements RangePool: it
\* hands out free and contiguous names, returns none only when there is none,
\* and releases exactly the names it is asked to, wraparound of GLuint included.
THEOREM RangesImplementPool == PathSpec => PoolSpec
<1>1. PathInit => Pool!Init
  BY PathInitial, Zenon
<1>2. PathInv /\ [UserNext]_pathVars => [Pool!Next]_<<inUse, answer>>
  <2>1. ASSUME PathInv, UserNext PROVE Pool!Next \/ UNCHANGED <<inUse, answer>>
    BY <2>1, CountingHolds, UserStep, Zenon
  <2>2. ASSUME UNCHANGED pathVars PROVE UNCHANGED <<inUse, answer>>
    BY <2>2 DEF pathVars, rangeVars
  <2>. QED
    BY <2>1, <2>2, Zenon
<1>. QED
  BY <1>1, <1>2, PathInvariant, PTL DEF PathSpec, PoolSpec, Pool!Spec
===============================================================================
