------------------------------ MODULE PathManager ------------------------------
(***************************************************************************)
(* gl::PathManager (src/libANGLE/ResourceManager.cpp) on top of the range  *)
(* allocator: the names are the allocator's, the path objects are in       *)
(* mPaths.  The calls are the ones that ValidateGenPaths and               *)
(* ValidateDeletePaths let through; a GLsizei is one bit narrower than a   *)
(* GLuint.                                                                 *)
(***************************************************************************)
EXTENDS HandleRangeAllocator

VARIABLES
    user,       \* who uses the allocator: the path manager, or any caller
    mPaths      \* the names that have a path object

pathVars == <<rangeVars, user, mPaths>>

MaxRange == 2^(Width - 1) - 1

PathInit ==
    /\ RangeInit
    /\ user \in {"PathManager", "any"}
    /\ mPaths = {}

\* The paths of the names that an allocation of range names has given.
Created(a, range) ==
    IF a.first = kInvalidHandle THEN {} ELSE a.first .. a.first + range - 1

\* Mutant: the names stay allocated when the driver creates no paths.
createPathsLeaks(range, created) ==
    /\ allocateRange(range)
    /\ mPaths' = IF created THEN mPaths \cup Created(TakeRange(mUsed, range), range)
                 ELSE mPaths

\* The names, then the objects; if the driver creates none the names are given
\* back.
createPaths(range, created) ==
    LET a == TakeRange(mUsed, range)
    IN  IF created \/ a.first = kInvalidHandle
        THEN /\ allocateRange(range)
             /\ mPaths' = mPaths \cup Created(a, range)
        ELSE /\ mUsed' = Release(a.map, a.first, range)
             /\ UNCHANGED <<inUse, answer, mPaths>>

\* Names without an object are passed over.
deletePaths(first, range) ==
    /\ first + range <= MaxHandle
    /\ mPaths' = mPaths \ first .. first + range - 1
    /\ releaseRange(first, range)

hasPath(handle) == isUsed(handle)

PathNext ==
    \/ \E range \in 1..MaxRange, created \in BOOLEAN : createPaths(range, created)
    \/ \E first \in 0..MaxHandle, range \in 1..MaxRange : deletePaths(first, range)

UserNext ==
    /\ UNCHANGED user
    /\ \/ user = "PathManager" /\ PathNext
       \/ user = "any" /\ RangeNext /\ UNCHANGED mPaths

PathSpec == PathInit /\ [][UserNext]_pathVars

-------------------------------------------------------------------------------
\* Properties.

\* A name that hasPath accepts has a path object, and no other has: the path
\* commands validate with hasPath and use getPath's result.
PathExists ==
    user = "PathManager" =>
        \A handle \in 0..MaxHandle : hasPath(handle) <=> handle \in mPaths
===============================================================================
