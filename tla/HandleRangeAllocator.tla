-------------------------- MODULE HandleRangeAllocator -------------------------
(***************************************************************************)
(* gl::HandleRangeAllocator (src/libANGLE/HandleRangeAllocator.cpp), which *)
(* hands out runs of path names.  mUsed maps the first name of each used   *)
(* range to the last; name 0, which is no name, is always in a range, so   *)
(* that there is a range below any name.  GLuint has Width bits.           *)
(***************************************************************************)
EXTENDS Integers, FiniteSets, FiniteSetsExt, Functions

CONSTANT Width

\* The rest follows from the first conjunct; the provers know nothing of powers.
ASSUME WidthAssumption ==
    Width \in Nat \ {0} /\ 2^(Width - 1) \in Nat \ {0} /\ 2^Width = 2 * 2^(Width - 1)

VARIABLES
    mUsed,
    inUse,      \* history: the names handed out or marked, and not released
    answer      \* history: the last allocation or mark, and what it returned

rangeVars == <<mUsed, inUse, answer>>

MaxHandle == 2^Width - 1
Handles == 1..MaxHandle

GLuint(n) == n % 2^Width
kInvalidHandle == 0

RangeInit ==
    /\ mUsed = [k \in {0} |-> 0]
    /\ inUse = {}
    /\ answer = <<>>

-------------------------------------------------------------------------------
\* std::map<GLuint, GLuint>.

erase(map, key) == Restrict(map, DOMAIN map \ {key})
insert(map, key, value) ==
    [k \in DOMAIN map \cup {key} |-> IF k \in DOMAIN map THEN map[k] ELSE value]

\* The keys after the given one; the key of the last range that starts at or
\* below a name.
After(map, key) == {k \in DOMAIN map : k > key}
Below(map, handle) == Max({k \in DOMAIN map : k <= handle})

\* The range after key starts just above last.
Adjacent(map, key, last) ==
    After(map, key) # {} /\ GLuint(Min(After(map, key)) - 1) = last

\* Mutant: the ranges are not merged.
ExtendNoMerge(map, key, last) == [map EXCEPT ![key] = last]

\* Range key is made to end at last, and merged with the next one if they touch.
Extend(map, key, last) ==
    IF Adjacent(map, key, last)
    THEN LET next == Min(After(map, key))
         IN  [erase(map, next) EXCEPT ![key] = map[next]]
    ELSE [map EXCEPT ![key] = last]

\* A name that touches no range below it: it starts a range, or is put in front
\* of the next one.
Prepend(map, key, handle) ==
    IF Adjacent(map, key, handle)
    THEN LET next == Min(After(map, key))
         IN  insert(erase(map, next), handle, map[next])
    ELSE insert(map, handle, handle)

-------------------------------------------------------------------------------
\* Operations.

\* Mutant: a gap of exactly range names is passed over.
FirstFitTooTight(map, range) ==
    Min({k \in DOMAIN map :
            After(map, k) = {} \/ Min(After(map, k)) - map[k] > range + 1})

\* The range after which there is room for range names, or the last one.
FirstFit(map, range) ==
    Min({k \in DOMAIN map :
            After(map, k) = {} \/ Min(After(map, k)) - map[k] > range})

\* The map with range more names, and the first of them.
TakeRange(map, range) ==
    LET current == FirstFit(map, range)
        first == GLuint(map[current] + 1)
        last == GLuint(first + range - 1)
    IN  IF first = 0 \/ last < first
        THEN [map |-> map, first |-> kInvalidHandle]
        ELSE [map |-> Extend(map, current, last), first |-> first]

\* What an operation that returns a name does to the map and to the histories.
Answer(operation, argument, map, first, range) ==
    /\ mUsed' = map
    /\ inUse' = IF first = kInvalidHandle THEN inUse
                ELSE inUse \cup first .. first + range - 1
    /\ answer' = <<operation, argument, first>>

allocateRange(range) ==
    LET a == TakeRange(mUsed, range)
    IN  Answer("allocateRange", range, a.map, a.first, range)

allocateAtOrAbove(wanted) ==
    LET current == Below(mUsed, wanted)
        last == GLuint(mUsed[current] + 1)
        append == wanted - 1 <= mUsed[current]
        one == TakeRange(mUsed, 1)
    IN  IF wanted \in {0, 1} \/ (append /\ last = 0)
        THEN Answer("allocateAtOrAbove", wanted, one.map, one.first, 1)
        ELSE IF append
        THEN Answer("allocateAtOrAbove", wanted, Extend(mUsed, current, last), last, 1)
        ELSE Answer("allocateAtOrAbove", wanted, Prepend(mUsed, current, wanted), wanted, 1)

\* Returns whether it marked the name (here, the name for true and 0 for false).
markAsUsed(handle) ==
    LET current == Below(mUsed, handle)
    IN  IF mUsed[current] >= handle
        THEN Answer("markAsUsed", handle, mUsed, kInvalidHandle, 1)
        ELSE IF mUsed[current] + 1 = handle
        THEN Answer("markAsUsed", handle, Extend(mUsed, current, handle), handle, 1)
        ELSE Answer("markAsUsed", handle, Prepend(mUsed, current, handle), handle, 1)

\* Names first..last are taken out of range key.
Trim(map, key, first, last) ==
    LET cut == IF key >= first THEN erase(map, key) ELSE [map EXCEPT ![key] = first - 1]
    IN  IF last < map[key] THEN insert(cut, last + 1, map[key]) ELSE cut

\* The map without range names from start on.  The loop visits the ranges that
\* meet first..last, from the last one down.
Release(map, start, count) ==
    LET first == IF start = 0 THEN 1 ELSE start
        range == IF start = 0 THEN count - 1 ELSE count
        end == GLuint(first + range - 1)
        last == IF end < first THEN MaxHandle ELSE end
        meeting == {k \in DOMAIN map : k <= last /\ map[k] >= first}
    IN  IF count = 0 \/ (start = 0 /\ count = 1) THEN map
        ELSE FoldSet(LAMBDA key, m : Trim(m, key, first, last), map, meeting)

releaseRange(start, count) ==
    /\ mUsed' = Release(mUsed, start, count)
    /\ inUse' = inUse \ start .. start + count - 1
    /\ UNCHANGED answer

isUsed(handle) ==
    handle # kInvalidHandle /\ mUsed[Below(mUsed, handle)] >= handle

RangeNext ==
    \/ \E range \in Handles : allocateRange(range)
    \/ \E wanted \in 0..MaxHandle : allocateAtOrAbove(wanted)
    \/ \E handle \in Handles : markAsUsed(handle)
    \/ \E first, range \in 0..MaxHandle : releaseRange(first, range)

RangeSpec == RangeInit /\ [][RangeNext]_rangeVars

-------------------------------------------------------------------------------
\* Properties.

\* mUsed holds name 0 and the names in use, as their maximal runs: ranges never
\* overlap, and ranges that come to touch are merged, so that the gap test of
\* allocateRange sees every run of free names.
MaximalRuns ==
    LET names == inUse \cup {0}
    IN  /\ inUse \subseteq Handles
        /\ DOMAIN mUsed = {n \in names : n - 1 \notin names}
        /\ \A k \in DOMAIN mUsed :
              k <= mUsed[k] /\ k..mUsed[k] \subseteq names /\ mUsed[k] + 1 \notin names

\* The allocator does what RangePool promises: it hands out free, contiguous
\* names, returns none only when there is none, and releases exactly what it is
\* asked to, wraparound of GLuint included.
Pool == INSTANCE RangePool
PoolSpec == Pool!Spec
===============================================================================
