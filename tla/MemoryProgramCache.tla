-------------------------- MODULE MemoryProgramCache --------------------------
(***************************************************************************)
(* Linking a program with the cache of program binaries that the contexts  *)
(* of a display share (src/libANGLE/MemoryProgramCache.cpp, Program.cpp,   *)
(* Shader.cpp), on the Direct3D 11 renderer, which compiles the parts of   *)
(* the executable in worker threads (renderer/d3d/ProgramD3D.cpp,          *)
(* WorkerThread.cpp) and adds to the executable when a draw needs more of  *)
(* it (Context11.cpp).                                                     *)
(*                                                                         *)
(* There is one program; other programs of the process meet it only in the *)
(* cache, and what they put there is what Populate puts there.  Its        *)
(* vertex and fragment shader are one shader here.  A source stands for a  *)
(* source string.  Of the bindings that are set on a program before it is  *)
(* linked, one name has a location as an attribute and one as a uniform.   *)
(* An executable is named by what it was linked from.                      *)
(***************************************************************************)
EXTENDS SizedMRUCache, TLC

CONSTANTS
    Sources,            \* the source strings
    Compilable,         \* those that compile
    Clients,            \* records: the sources and locations that a client gives,
                        \* and the sizes of binaries and limits of the cache that it meets
    nullptr

\* The order in which the tasks are posted and waited for.
Tasks == <<"vertex", "pixel", "geometry">>

\* The locations of the name, as the entries of a Program::Bindings.
Locations == UNION {c.attributes \cup c.uniforms : c \in Clients}
BindingsOf(locations) == {<< >>} \cup {<<l>> : l \in locations}
Executables == (Sources \cup {nullptr}) \X BindingsOf(Locations) \X BindingsOf(Locations)

\* The key of a source and of bindings.  HashStream writes the maps one after the
\* other as names and locations: which map an entry was in does not show.
HashOf(source, attributes, uniforms) == <<source, attributes \o uniforms>>

\* What a link call keeps; see linking.
Keys == {HashOf(e[1], e[2], e[3]) : e \in Executables}
LinkCalls == [hash : Keys, waited : 0 .. Len(Tasks), futures : SUBSET Range(Tasks)]

ASSUME CacheAssumption ==
    /\ Compilable \subseteq Sources
    /\ nullptr \notin Executables \cup LinkCalls
    /\ \A c \in Clients :
           /\ c.sources \subseteq Sources
           /\ c.sizes \subseteq Nat /\ c.limits \subseteq Nat
           /\ \E m \in c.limits : \A n \in c.limits : n <= m

VARIABLES
    client,             \* the client, in Clients
    async,              \* the pool is an AsyncWorkerPool, not a SingleThreadedWorkerPool
    shader,             \* mSource, mLastCompiledSource, mCompileStatus
    program,            \* attached, its bindings, mLinked, executable
    linking,            \* nullptr, or the link call: its hash, how many events it has
                        \* waited for, and the tasks whose events hold a future
    tasks,              \* from the worker tasks to what has become of them
    cache,              \* mProgramBinaryCache
    stale               \* not in the code: whether what a link would use was changed since
                        \* the last one, and whether the executable came from a stale entry

programVars == <<program, stale>>
cacheVars == <<client, async, shader, program, linking, tasks, cache, stale>>

\* A binary that does not deserialize: of another version, or of another device.
Damaged == nullptr

\* Mutant: the locations of uniforms are forgotten.
ComputeHashNoUniforms(s, p) ==
    HashOf(IF p.attached THEN s.mSource ELSE nullptr, p.mAttributeBindings, << >>)

\* The key of the shader that is attached and of the bindings.
ComputeHash(s, p) ==
    HashOf(IF p.attached THEN s.mSource ELSE nullptr, p.mAttributeBindings, p.mUniformLocationBindings)

-------------------------------------------------------------------------------
(* The shader and the program.                                             *)

Idle == linking = nullptr

SetShader(s) == Idle /\ shader' = s /\ UNCHANGED <<client, async, program, linking, tasks, cache>>

SetProgram(p) ==
    /\ Idle /\ program' = p
    /\ stale' = [stale EXCEPT !.changed = TRUE]
    /\ UNCHANGED <<client, async, shader, linking, tasks, cache>>

setSource(source) ==
    /\ SetShader([shader EXCEPT !.mSource = source])
    /\ stale' = [stale EXCEPT !.changed = TRUE]

\* The source is kept as it is now; the compiler runs when its result is needed.
compile ==
    /\ SetShader([shader EXCEPT !.mLastCompiledSource = shader.mSource,
                                !.mCompileStatus = "COMPILE_REQUESTED"])
    /\ UNCHANGED stale

Resolved(s) ==
    IF s.mCompileStatus # "COMPILE_REQUESTED" THEN s
    ELSE [s EXCEPT !.mCompileStatus = IF s.mLastCompiledSource \in Compilable THEN "COMPILED"
                                      ELSE "NOT_COMPILED"]

\* glGetShaderiv and other queries.
resolveCompile ==
    /\ shader.mCompileStatus = "COMPILE_REQUESTED"
    /\ SetShader(Resolved(shader)) /\ UNCHANGED stale

attachShader == ~program.attached /\ SetProgram([program EXCEPT !.attached = TRUE])

detachShader == program.attached /\ SetProgram([program EXCEPT !.attached = FALSE])

\* Bindings take effect when the program is linked the next time; none is taken back.
bindAttributeLocation(l) == SetProgram([program EXCEPT !.mAttributeBindings = <<l>>])

bindUniformLocation(l) == SetProgram([program EXCEPT !.mUniformLocationBindings = <<l>>])

unlink(p) == [p EXCEPT !.mLinked = FALSE, !.executable = nullptr]

-------------------------------------------------------------------------------
(* Linking.                                                                *)

Loads(c, hash) == Has(c, hash) /\ Peek(c, hash).value # Damaged

\* MemoryProgramCache::getProgram: an entry that does not load goes.
getProgram(c, hash) ==
    IF Has(c, hash) /\ ~Loads(c, hash) THEN eraseByKey(c, hash) ELSE get(c, hash)

\* Program::link that finds the program in the cache.
LinkLoads ==
    LET hash == ComputeHash(shader, program)
    IN  /\ Idle /\ Loads(cache, hash)
        /\ program' = [program EXCEPT !.mLinked = TRUE, !.executable = Peek(cache, hash).value]
        /\ stale' = [changed |-> FALSE, executable |-> Peek(cache, hash).stale]
        /\ cache' = getProgram(cache, hash)
        /\ UNCHANGED <<client, async, shader, linking, tasks>>

\* Program::link with an error from Deserialize: the renderer has no memory for the
\* shaders, or does not take them.  The entry stays.
LinkErrs ==
    LET hash == ComputeHash(shader, program)
    IN  /\ Idle /\ Has(cache, hash)
        /\ program' = unlink(program)
        /\ cache' = get(cache, hash)
        /\ UNCHANGED <<client, async, shader, linking, tasks, stale>>

\* Mutant: a pool of two threads leaves the third task, whose event has a future,
\* in a queue.
postWorkerTasksFew(made) ==
    [t \in Range(Tasks) |-> IF ~async THEN made[t] ELSE IF t = "geometry" THEN "none" ELSE "posted"]

\* AsyncWorkerPool starts a thread for each; SingleThreadedWorkerPool runs them.
postWorkerTasks(made) == [t \in Range(Tasks) |-> IF async THEN "posted" ELSE made[t]]

\* Program::link that does not, up to the wait in compileProgramExecutables.  It
\* ends early if no compiled shader is attached, or the shaders do not match.
LinkCompiles(match, made) ==
    LET hash == ComputeHash(shader, program)
    IN  /\ Idle /\ ~Loads(cache, hash)
        /\ cache' = getProgram(cache, hash)
        /\ program' = unlink(program)
        /\ shader' = IF program.attached THEN Resolved(shader) ELSE shader
        /\ IF program.attached /\ shader'.mCompileStatus = "COMPILED" /\ match
           THEN /\ linking' = [hash |-> hash, waited |-> 0,
                               futures |-> IF async THEN Range(Tasks) ELSE {}]
                /\ tasks' = postWorkerTasks(made)
           ELSE UNCHANGED <<linking, tasks>>
        /\ UNCHANGED <<client, async, stale>>

\* The thread of a task; without a result it failed.
RunTask(t, result) ==
    /\ tasks[t] = "posted"
    /\ tasks' = [tasks EXCEPT ![t] = result]
    /\ UNCHANGED <<client, async, shader, program, linking, cache, stale>>

Finished(t) == tasks[t] \in {"result", "no result"}

\* AsyncWaitableEvent::wait returns at once if the event has no future, and resets
\* the event once the future is ready; SingleThreadedWaitableEvent has nothing to wait for.
Waits(t) == t \in linking.futures => Finished(t)

\* Mutant: one event that is signaled is enough.
WaitManyAny ==
    /\ ~Idle /\ linking.waited < Len(Tasks) /\ \E t \in Range(Tasks) : Waits(t)
    /\ linking' = [linking EXCEPT !.waited = Len(Tasks), !.futures = {}]
    /\ UNCHANGED <<client, async, shader, program, tasks, cache, stale>>

\* One wait of WaitMany, which has the events in order.
WaitMany ==
    /\ ~Idle /\ linking.waited < Len(Tasks) /\ Waits(Tasks[linking.waited + 1])
    /\ linking' = [linking EXCEPT !.waited = @ + 1, !.futures = @ \ {Tasks[linking.waited + 1]}]
    /\ UNCHANGED <<client, async, shader, program, tasks, cache, stale>>

Entry(hash, value, size, old) == [key |-> hash, value |-> value, size |-> size, stale |-> old]

putProgram(hash, executable, size, old) == put(cache, Entry(hash, executable, size, old))

\* The rest of Program::link; the tasks go with its stack.  Programs with
\* transform feedback are not cached where the driver has that workaround.
\* The executable is of the source that was compiled, the hash of the one given last.
LinkEnds(cached, size) ==
    LET linked == \A t \in Range(Tasks) : tasks[t] = "result"
        executable == <<shader.mLastCompiledSource, program.mAttributeBindings,
                        program.mUniformLocationBindings>>
        old == shader.mSource # shader.mLastCompiledSource
    IN  /\ ~Idle /\ linking.waited = Len(Tasks)
        /\ IF linked
           THEN /\ program' = [program EXCEPT !.mLinked = TRUE, !.executable = executable]
                /\ stale' = [changed |-> FALSE, executable |-> old]
                /\ cache' = IF cached THEN putProgram(linking.hash, executable, size, old) ELSE cache
           ELSE UNCHANGED <<programVars, cache>>
        /\ linking' = nullptr
        /\ tasks' = [t \in Range(Tasks) |-> IF Finished(t) THEN "none" ELSE tasks[t]]
        /\ UNCHANGED <<client, async, shader>>

\* A draw that needs another variant of a shader makes it and stores the program
\* again, under the hash of what the program has now.
updateProgram(size) ==
    /\ Idle /\ program.mLinked
    /\ cache' = putProgram(ComputeHash(shader, program), program.executable, size,
                           stale.changed \/ stale.executable)
    /\ UNCHANGED <<client, async, shader, program, linking, tasks, stale>>

-------------------------------------------------------------------------------
(* The cache is also reached through EGL, from other threads too.  Nothing *)
(* in the cache locks: the callers are taken to make one call at a time.   *)

SetCache(c) == cache' = c /\ UNCHANGED <<client, async, shader, program, linking, tasks, stale>>

\* eglProgramCachePopulateANGLE, putBinary: what was once stored under the hash of
\* what it was linked from, or a binary of another version.  Another program that is
\* linked does the same.
Populate(executable, damaged, size) ==
    LET hash == HashOf(executable[1], executable[2], executable[3])
    IN  SetCache(put(cache, Entry(hash, IF damaged THEN Damaged ELSE executable, size, FALSE)))

Resize(limit) == SetCache(resize(cache, limit))

Trim(limit) == SetCache(shrinkToSize(cache, limit))

NewShader == [mSource |-> nullptr, mLastCompiledSource |-> nullptr, mCompileStatus |-> "NOT_COMPILED"]

NewProgram ==
    [attached |-> FALSE, mAttributeBindings |-> << >>, mUniformLocationBindings |-> << >>,
     mLinked |-> FALSE, executable |-> nullptr]

\* Display::terminate, and the program goes with its context.
Terminate ==
    /\ Idle
    /\ cache' = clear(cache)
    /\ shader' = NewShader /\ program' = NewProgram
    /\ stale' = [changed |-> FALSE, executable |-> FALSE]
    /\ UNCHANGED <<client, async, linking, tasks>>

-------------------------------------------------------------------------------

CacheInit ==
    /\ client \in Clients
    /\ async \in BOOLEAN
    /\ shader = NewShader /\ program = NewProgram
    /\ linking = nullptr
    /\ tasks = [t \in Range(Tasks) |-> "none"]
    /\ cache = NewCache(Max(client.limits))
    /\ stale = [changed |-> FALSE, executable |-> FALSE]

Client ==
    \/ \E source \in client.sources : setSource(source)
    \/ compile
    \/ resolveCompile
    \/ attachShader
    \/ detachShader
    \/ \E l \in client.attributes : bindAttributeLocation(l)
    \/ \E l \in client.uniforms : bindUniformLocation(l)
    \/ LinkLoads
    \/ LinkErrs
    \/ \E match \in BOOLEAN, made \in [Range(Tasks) -> {"result", "no result"}] : LinkCompiles(match, made)
    \/ \E size \in client.sizes : updateProgram(size)
    \/ Terminate

Worker(t) == \E result \in {"result", "no result"} : RunTask(t, result)

Linker == WaitMany \/ \E cached \in BOOLEAN, size \in client.sizes : LinkEnds(cached, size)

Egl ==
    \/ \E source \in client.sources \cap Compilable, damaged \in BOOLEAN, size \in client.sizes :
          \E a \in BindingsOf(client.attributes), u \in BindingsOf(client.uniforms) :
             Populate(<<source, a, u>>, damaged, size)
    \/ \E limit \in client.limits : Resize(limit) \/ Trim(limit)

CacheNext == Client \/ Linker \/ Egl \/ \E t \in Range(Tasks) : Worker(t)

\* A thread that std::async started runs, and so does the one that links.
CacheSpec ==
    /\ CacheInit /\ [][CacheNext]_cacheVars
    /\ WF_cacheVars(Linker) /\ \A t \in Range(Tasks) : WF_cacheVars(Worker(t))

-------------------------------------------------------------------------------

\* The cache's account of its size is the sum of the sizes of its entries, it is
\* within the limit, and no key is there twice, however entries were replaced,
\* evicted or dropped (SizedMRUCache::put, eraseByKey, shrinkToSize).
SizeExact ==
    /\ cache.mCurrentSize = Sizes(cache.mStore)
    /\ cache.mCurrentSize <= cache.mMaximumTotalSize
    /\ \A i, j \in DOMAIN cache.mStore : cache.mStore[i].key = cache.mStore[j].key => i = j

\* The hash that the entry is under is the hash of what its executable was linked from.
Matches(entry) ==
    entry.value # Damaged => entry.key = HashOf(entry.value[1], entry.value[2], entry.value[3])

\* The cache has for a program a binary whose key is the program's key
\* (MemoryProgramCache::getProgram: "Check if the cache contains a binary matching
\* the specified program").  Two ways of storing an entry break it: see the next one.
EntriesMatch == \A i \in DOMAIN cache.mStore : Matches(cache.mStore[i])

\* An entry that is not under the key of what its executable was linked from was
\* stored by a link of a shader that had been given another source since it was
\* compiled, or by an update of a program of which the shaders, a source or a binding
\* had been changed since it was linked, or of one that was loaded from such an entry
\* (Program::link, MemoryProgramCache::ComputeHash, updateProgram).  Two programs
\* with one key, as by a name bound as an attribute or as a uniform, are not told apart.
EntriesMatchUnlessStale ==
    \A i \in DOMAIN cache.mStore : cache.mStore[i].stale \/ Matches(cache.mStore[i])

\* No task runs any more when link reads what the tasks made, nor once it has
\* returned: the tasks are on its stack (ProgramD3D::compileProgramExecutables, WaitMany).
TasksJoined ==
    Idle \/ linking.waited = Len(Tasks) => \A t \in Range(Tasks) : tasks[t] # "posted"

\* Linking returns, in whatever order the worker threads finish and whatever the
\* cache is used for meanwhile (AsyncWaitableEvent::waitImpl, WaitMany).
LinkReturns == linking # nullptr ~> linking = nullptr
===============================================================================
