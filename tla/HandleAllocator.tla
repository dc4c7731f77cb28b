---------------------------- MODULE HandleAllocator ----------------------------
(***************************************************************************)
(* gl::HandleAllocator (src/libANGLE/HandleAllocator.cpp), the allocator   *)
(* behind every kind of GL object name.  The free names are kept in two    *)
(* places: never-allocated names as a sorted list of inclusive ranges, and *)
(* released names in a heap.                                               *)
(*                                                                         *)
(* The heap is modelled by the set of its elements: which released name    *)
(* allocate reuses is left open.  (It is the greatest one while the vector *)
(* is a heap, but the erase in reserve does not restore the heap order, so *)
(* after a reserve any element may be at the front.)                       *)
(***************************************************************************)
EXTENDS Integers, Sequences

CONSTANT MaxHandle  \* std::numeric_limits<GLuint>::max()

ASSUME MaxHandleAssumption == MaxHandle \in Nat \ {0}

VARIABLES
    mUnallocatedList,  \* sequence of ranges [begin, end] of never-used names
    mReleasedList,     \* the names given back by release
    inUse,             \* history: names handed out and not released since
    taken              \* history: the name handed out last

allocatorVars == <<mUnallocatedList, mReleasedList, inUse, taken>>

Handles == 1..MaxHandle

HandleRange(b, e) == [begin |-> b, end |-> e]

AllocatorInit ==
    /\ mUnallocatedList = <<HandleRange(1, MaxHandle)>>
    /\ mReleasedList = {}
    /\ inUse = {}
    /\ taken = 0

-------------------------------------------------------------------------------
\* What the operations do to the range list.

\* Mutant: the range is never erased.
PopFirstKeepsEmpty(list) ==
    [list EXCEPT ![1] = HandleRange(list[1].begin + 1, list[1].end)]

\* The first range loses its first name, and disappears if that was its last.
PopFirst(list) ==
    IF list[1].begin = list[1].end
    THEN Tail(list)
    ELSE [list EXCEPT ![1] = HandleRange(list[1].begin + 1, list[1].end)]

\* std::lower_bound with HandleRangeComparator: the first range that does not
\* end before the name; 0 stands for list.end().
LowerBound(list, handle) ==
    LET I == {i \in 1..Len(list) : list[i].end >= handle}
    IN  IF I # {} THEN CHOOSE i \in I : \A j \in I : i <= j ELSE 0

\* Mutant: the two halves of a split are inserted in the wrong order.
CutRangeSwapped(list, i, handle) ==
    LET b == list[i].begin
        e == list[i].end
    IN  IF handle = b /\ b = e THEN SubSeq(list, 1, i - 1) \o SubSeq(list, i + 1, Len(list))
        ELSE IF handle = b THEN [list EXCEPT ![i] = HandleRange(b + 1, e)]
        ELSE IF handle = e THEN [list EXCEPT ![i] = HandleRange(b, e - 1)]
        ELSE SubSeq(list, 1, i - 1)
             \o <<HandleRange(handle + 1, e), HandleRange(b, handle - 1)>>
             \o SubSeq(list, i + 1, Len(list))

\* Take the name out of the i-th range, which shrinks, disappears or splits.
CutRange(list, i, handle) ==
    LET b == list[i].begin
        e == list[i].end
    IN  IF handle = b /\ b = e THEN SubSeq(list, 1, i - 1) \o SubSeq(list, i + 1, Len(list))
        ELSE IF handle = b THEN [list EXCEPT ![i] = HandleRange(b + 1, e)]
        ELSE IF handle = e THEN [list EXCEPT ![i] = HandleRange(b, e - 1)]
        ELSE SubSeq(list, 1, i - 1)
             \o <<HandleRange(b, handle - 1), HandleRange(handle + 1, e)>>
             \o SubSeq(list, i + 1, Len(list))

-------------------------------------------------------------------------------
\* The operations.  None of them knows which names are in use: the callers'
\* discipline is in AllocatorNext.

\* Mutant: the reused name is not popped from the heap.
allocateNoPop(handle) ==
    /\ IF mReleasedList # {}
       THEN /\ handle \in mReleasedList
            /\ UNCHANGED <<mUnallocatedList, mReleasedList>>
       ELSE /\ mUnallocatedList # <<>>
            /\ handle = mUnallocatedList[1].begin
            /\ mUnallocatedList' = PopFirst(mUnallocatedList)
            /\ UNCHANGED mReleasedList
    /\ inUse' = inUse \cup {handle}
    /\ taken' = handle

\* allocate() returns handle; the released names go first.
allocate(handle) ==
    /\ IF mReleasedList # {}
       THEN /\ handle \in mReleasedList
            /\ mReleasedList' = mReleasedList \ {handle}
            /\ UNCHANGED mUnallocatedList
       ELSE /\ mUnallocatedList # <<>>
            /\ handle = mUnallocatedList[1].begin
            /\ mUnallocatedList' = PopFirst(mUnallocatedList)
            /\ UNCHANGED mReleasedList
    /\ inUse' = inUse \cup {handle}
    /\ taken' = handle

release(handle) ==
    /\ mReleasedList' = mReleasedList \cup {handle}
    /\ inUse' = inUse \ {handle}
    /\ UNCHANGED <<mUnallocatedList, taken>>

\* Mutant: reserve does not look for the name among the released ones.
reserveUnallocatedOnly(handle) ==
    LET i == LowerBound(mUnallocatedList, handle)
    IN  /\ i # 0
        /\ mUnallocatedList' = CutRange(mUnallocatedList, i, handle)
        /\ inUse' = inUse \cup {handle}
        /\ taken' = handle
        /\ UNCHANGED mReleasedList

reserve(handle) ==
    /\ IF handle \in mReleasedList
       THEN /\ mReleasedList' = mReleasedList \ {handle}
            /\ UNCHANGED mUnallocatedList
       ELSE LET i == LowerBound(mUnallocatedList, handle)
            IN  /\ i # 0
                /\ mUnallocatedList' = CutRange(mUnallocatedList, i, handle)
                /\ UNCHANGED mReleasedList
    /\ inUse' = inUse \cup {handle}
    /\ taken' = handle

resetAllocator ==
    /\ mUnallocatedList' = <<HandleRange(1, MaxHandle)>>
    /\ mReleasedList' = {}
    /\ inUse' = {}
    /\ UNCHANGED taken

\* The object managers release a name only while it is in use and reserve one
\* only while it is not (TypedResourceManager::deleteObject, ...).
Allocate == \E h \in Handles : allocate(h)
Release  == \E h \in inUse : release(h)
Reserve  == \E h \in Handles \ inUse : reserve(h)
Reset    == resetAllocator

AllocatorNext == Allocate \/ Release \/ Reserve \/ Reset

AllocatorSpec == AllocatorInit /\ [][AllocatorNext]_allocatorVars

-------------------------------------------------------------------------------
Ranges == [begin : Handles, end : Handles]

Sorted(list) ==
    /\ \A i \in 1..Len(list) : list[i].begin <= list[i].end
    /\ \A i, j \in 1..Len(list) : i < j => list[i].end < list[j].begin

InRange(r, h) == r.begin <= h /\ h <= r.end

Holds(list, h) == \E i \in 1..Len(list) : InRange(list[i], h)

\* The list holds ranges of names, and every name is between 1 and MaxHandle.
AllocatorTypeOK ==
    /\ mUnallocatedList \in Seq(Ranges)
    /\ mReleasedList \subseteq Handles
    /\ inUse \subseteq Handles
    /\ taken \in Handles \cup {0}

\* lower_bound needs a sorted list: every range is non-empty and ends before
\* the next one begins, whatever order names were reserved and split off in.
RangesSorted == Sorted(mUnallocatedList)

\* No name is lost and none is free twice: each name is in exactly one of the
\* two free lists or in use.  A name in a free list and in use would be handed
\* out again for a second object; a name in neither would never be reusable.
FreeListsExact ==
    \A h \in Handles :
        /\ h \in inUse <=> ~Holds(mUnallocatedList, h) /\ h \notin mReleasedList
        /\ ~(Holds(mUnallocatedList, h) /\ h \in mReleasedList)

\* The allocator implements the pool: a name it hands out was not in use.
Pool == INSTANCE HandlePool
PoolSpec == Pool!Spec
===============================================================================
