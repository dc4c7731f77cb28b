------------------------------- MODULE RangePool -------------------------------
(***************************************************************************)
(* What an allocator of contiguous names promises: the set of names in     *)
(* use and the last request with its answer, with no word on how the set   *)
(* is stored.                                                              *)
(***************************************************************************)
EXTENDS Integers

CONSTANT MaxHandle

VARIABLES
    inUse,
    answer  \* the last request: operation, argument, and the name given (0: none)

Handles == 1..MaxHandle

Init == inUse = {} /\ answer = <<>>

FreeRun(first, range) ==
    first + range - 1 <= MaxHandle /\ first .. first + range - 1 \cap inUse = {}

Give(operation, argument, first, range) ==
    /\ answer' = <<operation, argument, first>>
    /\ inUse' = inUse \cup first .. first + range - 1

Refuse(operation, argument) ==
    /\ answer' = <<operation, argument, 0>>
    /\ UNCHANGED inUse

\* Any run of free names will do; there is none only when none exists.
AllocateRange(range) ==
    \/ \E first \in Handles :
          FreeRun(first, range) /\ Give("allocateRange", range, first, range)
    \/ /\ \A first \in Handles : ~FreeRun(first, range)
       /\ Refuse("allocateRange", range)

\* The least free name from wanted on; any name if all of those are in use.
AllocateAtOrAbove(wanted) ==
    LET free == Handles \ inUse
        above == {h \in free : h >= wanted}
    IN  \/ \E h \in above :
              (\A g \in above : h <= g) /\ Give("allocateAtOrAbove", wanted, h, 1)
        \/ above = {} /\ \E h \in free : Give("allocateAtOrAbove", wanted, h, 1)
        \/ free = {} /\ Refuse("allocateAtOrAbove", wanted)

MarkAsUsed(handle) ==
    IF handle \in inUse THEN Refuse("markAsUsed", handle)
    ELSE Give("markAsUsed", handle, handle, 1)

ReleaseRange(first, range) ==
    /\ inUse' = inUse \ first .. first + range - 1
    /\ UNCHANGED answer

Next ==
    \/ \E range \in Handles : AllocateRange(range)
    \/ \E wanted \in 0..MaxHandle : AllocateAtOrAbove(wanted)
    \/ \E handle \in Handles : MarkAsUsed(handle)
    \/ \E first, range \in 0..MaxHandle : ReleaseRange(first, range)

Spec == Init /\ [][Next]_<<inUse, answer>>
===============================================================================
