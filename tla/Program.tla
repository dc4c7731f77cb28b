------------------------------- MODULE Program -------------------------------
(***************************************************************************)
(* The shaders and programs of a share group: ShaderProgramManager         *)
(* (src/libANGLE/ResourceManager.cpp), Shader.cpp and Program.cpp.         *)
(* Both kinds take their names from one allocator.  A program that is in   *)
(* use and a shader that is attached are not deleted but flagged, and go   *)
(* with the last reference.                                                *)
(*                                                                         *)
(* A manager is a record of the functions mShaders and mPrograms, from the *)
(* names that exist.  An object is identified with its name: the name is   *)
(* released only when the object goes.  Programs are graphics programs.    *)
(***************************************************************************)
EXTENDS Integers, FiniteSetsExt, Functions

CONSTANTS Names         \* without 0, the name that is no name

ASSUME NamesAssumption == 0 \notin Names /\ IsFiniteSet(Names)

Types == {"vertex", "fragment"}

NewManager == [mShaders |-> << >>, mPrograms |-> << >>]

InUse(m) == DOMAIN m.mShaders \cup DOMAIN m.mPrograms

\* ResourceMap::assign.
assign(objects, name, object) ==
    [n \in DOMAIN objects \cup {name} |-> IF n = name THEN object ELSE objects[n]]

\* Which free name the allocator gives is HandleAllocator's matter.
createShader(m, name, type) ==
    [m EXCEPT !.mShaders = assign(@, name, [type |-> type, mRefCount |-> 0,
                                            mDeleteStatus |-> FALSE, mCompiled |-> FALSE])]

createProgram(m, name) ==
    [m EXCEPT !.mPrograms = assign(@, name, [mRefCount |-> 0, mDeleteStatus |-> FALSE,
                                             mLinked |-> FALSE,
                                             mAttached |-> [t \in Types |-> 0]])]

-------------------------------------------------------------------------------

\* deleteObject of a shader.
deleteShader(m, s) ==
    IF m.mShaders[s].mRefCount = 0
    THEN [m EXCEPT !.mShaders = Restrict(@, DOMAIN @ \ {s})]
    ELSE [m EXCEPT !.mShaders[s].mDeleteStatus = TRUE]

\* Shader::release.
releaseShader(m, s) ==
    LET n == [m EXCEPT !.mShaders[s].mRefCount = @ - 1]
    IN  IF n.mShaders[s].mRefCount = 0 /\ n.mShaders[s].mDeleteStatus
        THEN deleteShader(n, s) ELSE n

attachShader(m, p, s) ==
    [m EXCEPT !.mPrograms[p].mAttached[m.mShaders[s].type] = s, !.mShaders[s].mRefCount = @ + 1]

detachShader(m, p, t) ==
    [releaseShader(m, m.mPrograms[p].mAttached[t]) EXCEPT !.mPrograms[p].mAttached[t] = 0]

\* Program::onDestroy, and the name is free.
destroyProgram(m, p) ==
    LET detach(n, t) == IF n.mPrograms[p].mAttached[t] = 0 THEN n ELSE detachShader(n, p, t)
        detached == detach(detach(m, "vertex"), "fragment")
    IN  [detached EXCEPT !.mPrograms = Restrict(@, DOMAIN @ \ {p})]

\* deleteObject of a program.
deleteProgram(m, p) ==
    IF m.mPrograms[p].mRefCount = 0 THEN destroyProgram(m, p)
    ELSE [m EXCEPT !.mPrograms[p].mDeleteStatus = TRUE]

\* Program::addRef and release, through a pointer that may be null.
addRef(m, p) == IF p = 0 THEN m ELSE [m EXCEPT !.mPrograms[p].mRefCount = @ + 1]

release(m, p) ==
    IF p = 0 THEN m
    ELSE LET n == [m EXCEPT !.mPrograms[p].mRefCount = @ - 1]
         IN  IF n.mPrograms[p].mRefCount = 0 /\ n.mPrograms[p].mDeleteStatus
             THEN deleteProgram(n, p) ELSE n

\* ShaderProgramManager::reset.  Its loops end only if nothing is left of it.
reset(m) ==
    LET noPrograms == FoldSet(LAMBDA p, n : deleteProgram(n, p), m, DOMAIN m.mPrograms)
    IN  FoldSet(LAMBDA s, n : deleteShader(n, s), noPrograms, DOMAIN noPrograms.mShaders)

-------------------------------------------------------------------------------

\* The compilation itself is put off until its result is asked for; its input
\* is fixed here.
compile(m, s, success) == [m EXCEPT !.mShaders[s].mCompiled = success]

Attached(m, p) == {m.mPrograms[p].mAttached[t] : t \in Types}

\* Unlinks first, so that failing leaves the program unlinked.  A program found
\* in the memory cache (hit) is taken whatever its shaders; otherwise both have
\* to be attached and compiled, and the rest of linking may still fail.
link(m, p, hit, success) ==
    [m EXCEPT !.mPrograms[p].mLinked =
        \/ hit
        \/ /\ success /\ 0 \notin Attached(m, p)
           /\ \A s \in Attached(m, p) : m.mShaders[s].mCompiled]

\* The shaders play no part.
loadBinary(m, p, success) == [m EXCEPT !.mPrograms[p].mLinked = success]
===============================================================================
