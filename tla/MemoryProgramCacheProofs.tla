----------------------- MODULE MemoryProgramCacheProofs -----------------------
(***************************************************************************)
(* Proofs about MemoryProgramCache, for all sources, locations, sizes and  *)
(* limits: no worker task outlives link; an entry that is not under its    *)
(* key was stored by one of the two ways that EntriesMatchUnlessStale      *)
(* names; the account of the cache is exact.                               *)
(***************************************************************************)
EXTENDS MemoryProgramCache, SizedMRUCacheProofs

LEMMA getProgramCache ==
    ASSUME NEW S, NEW c, IsCache(c, S), NEW hash
    PROVE  IsCache(getProgram(c, hash), S)
  BY getCache, eraseByKeyCache, Zenon DEF getProgram

-------------------------------------------------------------------------------
(* The inductive invariants.                                               *)

Shaders ==
    [mSource : Sources \cup {nullptr}, mLastCompiledSource : Sources \cup {nullptr},
     mCompileStatus : {"NOT_COMPILED", "COMPILE_REQUESTED", "COMPILED"}]

Programs ==
    [attached : BOOLEAN, mAttributeBindings : BindingsOf(Locations),
     mUniformLocationBindings : BindingsOf(Locations), mLinked : BOOLEAN,
     executable : Executables \cup {nullptr}]

TaskStates == {"none", "posted", "result", "no result"}

Stales == [changed : BOOLEAN, executable : BOOLEAN]

Entries == [key : Keys, value : Executables \cup {nullptr}, size : Nat, stale : BOOLEAN]

Matching == {e \in Entries : e.stale \/ Matches(e)}

Typed ==
    /\ client \in Clients
    /\ async \in BOOLEAN
    /\ shader \in Shaders
    /\ program \in Programs
    /\ linking \in LinkCalls \cup {nullptr}
    /\ tasks \in [Range(Tasks) -> TaskStates]
    /\ stale \in Stales
    /\ IsCache(cache, Entries)

\* A task that has not ended has a future that link has yet to wait for, and the
\* events that link has waited for are of tasks that have ended: with it TasksJoined
\* is inductive.
TaskInv ==
    /\ Typed
    /\ TasksJoined
    /\ ~Idle => /\ \A t \in Range(Tasks) : t \in linking.futures \/ Finished(t)
                /\ \A i \in 1 .. linking.waited : Finished(Tasks[i])

\* The executable of a linked program.
LinkedMatches ==
    program.mLinked /\ ~stale.changed /\ ~stale.executable /\ program.executable # nullptr =>
        ComputeHash(shader, program) =
            HashOf(program.executable[1], program.executable[2], program.executable[3])

\* Nothing that makes the key changes while link waits.
LinkingMatches == ~Idle => program.attached /\ linking.hash = ComputeHash(shader, program)

\* What is linked, and what is being linked, has the key of what it is linked from:
\* the calls that store to the cache have the executable from one and the key from
\* the other.
MatchInv == Typed /\ LinkedMatches /\ LinkingMatches /\ IsCache(cache, Matching)

-------------------------------------------------------------------------------
(* What the types say.                                                     *)

LEMMA TaskNames ==
    /\ Range(Tasks) = {"vertex", "pixel", "geometry"}
    /\ Len(Tasks) = 3
    /\ Tasks[1] = "vertex" /\ Tasks[2] = "pixel" /\ Tasks[3] = "geometry"
<1>1. Len(Tasks) = 3 /\ Tasks[1] = "vertex" /\ Tasks[2] = "pixel" /\ Tasks[3] = "geometry"
  BY DEF Tasks
<1>2. DOMAIN Tasks = {1, 2, 3}
  BY DEF Tasks
<1> QED
  BY <1>1, <1>2 DEF Range

LEMMA EventsWaitedFor ==
    /\ 0 \in 0 .. 3 /\ 0 # 3
    /\ 1 .. 0 = {}
    /\ \A w \in 0 .. 3 : \A i \in 1 .. w : i \in {1, 2, 3}
  OBVIOUS

\* What a client gives.
LEMMA ClientGives ==
    ASSUME NEW c \in Clients
    PROVE  /\ c.sources \subseteq Sources /\ c.sizes \subseteq Nat /\ c.limits \subseteq Nat
           /\ BindingsOf(c.attributes) \subseteq BindingsOf(Locations)
           /\ BindingsOf(c.uniforms) \subseteq BindingsOf(Locations)
           /\ \A l \in c.attributes \cup c.uniforms : <<l>> \in BindingsOf(Locations)
           /\ Max(c.limits) \in Nat
<1>1. c.sources \subseteq Sources /\ c.sizes \subseteq Nat /\ c.limits \subseteq Nat
  BY CacheAssumption, Zenon
<1>2. c.attributes \subseteq Locations /\ c.uniforms \subseteq Locations
  BY Zenon DEF Locations
<1>3. /\ BindingsOf(c.attributes) \subseteq BindingsOf(Locations)
      /\ BindingsOf(c.uniforms) \subseteq BindingsOf(Locations)
      /\ \A l \in c.attributes \cup c.uniforms : <<l>> \in BindingsOf(Locations)
  BY <1>2, Zenon DEF BindingsOf
<1>4. Max(c.limits) \in c.limits
  <2>1. \E m \in c.limits : \A n \in c.limits : n <= m
    BY CacheAssumption, Zenon
  <2>2. \A n, m \in c.limits : n <= m <=> m >= n
    BY <1>1
  <2>3. \E m \in c.limits : \A n \in c.limits : m >= n
    BY <2>1, <2>2, Zenon
  <2> QED
    BY <2>3, Zenon DEF Max
<1> QED
  BY <1>1, <1>3, <1>4, Zenon

\* The key of an executable.
LEMMA HashOfTyped ==
    ASSUME NEW source \in Sources \cup {nullptr}, NEW a \in BindingsOf(Locations),
           NEW u \in BindingsOf(Locations)
    PROVE  /\ <<source, a, u>> \in Executables
           /\ HashOf(source, a, u) \in Keys
<1> DEFINE e == <<source, a, u>>
<1>1. e \in Executables /\ e[1] = source /\ e[2] = a /\ e[3] = u
  BY DEF Executables
<1> HIDE DEF e
<1>2. HashOf(source, a, u) \in Keys
  BY <1>1, Zenon DEF Keys
<1> QED
  BY <1>1, <1>2 DEF e

\* The key of whatever is attached.
LEMMA HashTyped ==
    ASSUME NEW s \in Shaders, NEW p \in Programs
    PROVE  ComputeHash(s, p) \in Keys
<1>1. /\ s.mSource \in Sources \cup {nullptr}
      /\ p.mAttributeBindings \in BindingsOf(Locations)
      /\ p.mUniformLocationBindings \in BindingsOf(Locations)
  BY Zenon DEF Shaders, Programs
<1>2. (IF p.attached THEN s.mSource ELSE nullptr) \in Sources \cup {nullptr}
  BY <1>1, Zenon
<1> QED
  BY <1>1, <1>2, HashOfTyped, Zenon DEF ComputeHash

LEMMA EntryTyped ==
    ASSUME NEW key \in Keys, NEW value \in Executables \cup {nullptr}, NEW size \in Nat,
           NEW old \in BOOLEAN
    PROVE  Entry(key, value, size, old) \in Entries
  BY Zenon DEF Entry, Entries

\* A link call that has waited for nothing yet, and one that has waited for one more.
LEMMA LinkCall ==
    /\ \A h \in Keys, f \in SUBSET Range(Tasks) :
          LET l == [hash |-> h, waited |-> 0, futures |-> f]
          IN  l \in LinkCalls /\ l.hash = h /\ l.waited = 0 /\ l.futures = f
    /\ \A l \in LinkCalls :
          /\ l # nullptr
          /\ l.waited \in 0 .. 3
          /\ l.waited < 3 =>
                LET t == Tasks[l.waited + 1]
                    m == [l EXCEPT !.waited = @ + 1, !.futures = @ \ {t}]
                IN  /\ m \in LinkCalls /\ m.hash = l.hash
                    /\ m.waited = l.waited + 1 /\ m.futures = l.futures \ {t}
                    /\ t \in Range(Tasks)
<1>1. LinkCalls = [hash : Keys, waited : 0 .. 3, futures : SUBSET Range(Tasks)]
  BY TaskNames, Zenon DEF LinkCalls
<1>2. ASSUME NEW h \in Keys, NEW f \in SUBSET Range(Tasks)
      PROVE  LET l == [hash |-> h, waited |-> 0, futures |-> f]
             IN  l \in LinkCalls /\ l.hash = h /\ l.waited = 0 /\ l.futures = f
  BY <1>1, EventsWaitedFor, Zenon
<1>3. ASSUME NEW l \in LinkCalls
      PROVE  l # nullptr /\ l.waited \in 0 .. 3
  BY <1>1, <1>3, CacheAssumption, Zenon
<1>4. ASSUME NEW l \in LinkCalls, l.waited < 3
      PROVE  LET t == Tasks[l.waited + 1]
                 m == [l EXCEPT !.waited = @ + 1, !.futures = @ \ {t}]
             IN  /\ m \in LinkCalls /\ m.hash = l.hash
                 /\ m.waited = l.waited + 1 /\ m.futures = l.futures \ {t}
                 /\ t \in Range(Tasks)
  <2>1. l.waited + 1 \in 1 .. 3 /\ l.waited + 1 \in 0 .. 3
    BY <1>3, <1>4
  <2>2. Tasks[l.waited + 1] \in Range(Tasks)
    BY <2>1, TaskNames
  <2> QED
    BY <1>1, <2>1, <2>2, Zenon
<1> QED
  BY <1>2, <1>3, <1>4, Zenon

-------------------------------------------------------------------------------
(* Typed is inductive.                                                     *)

LEMMA TypedInit == CacheInit => Typed
<1> SUFFICES ASSUME CacheInit PROVE Typed
  OBVIOUS
<1>1. IsCache(cache, Entries)
  <2>1. cache = NewCache(Max(client.limits))
    BY DEF CacheInit
  <2> QED
    BY <2>1 DEF NewCache, IsCache
<1>2. tasks \in [Range(Tasks) -> TaskStates]
  BY Zenon DEF CacheInit, TaskStates
<1>3. NewShader \in Shaders /\ NewProgram \in Programs
  BY Zenon DEF NewShader, NewProgram, Shaders, Programs, BindingsOf
<1>4. stale \in Stales
  BY Zenon DEF CacheInit, Stales
<1> QED
  BY <1>1, <1>2, <1>3, <1>4, Zenon DEF CacheInit, Typed

\* The calls of the client between links.
LEMMA ShaderTyped ==
    ASSUME Typed
    PROVE  /\ \A source \in client.sources : setSource(source) => shader' \in Shaders /\ stale' \in Stales
           /\ compile \/ resolveCompile => shader' \in Shaders /\ stale' \in Stales
           /\ attachShader \/ detachShader => program' \in Programs /\ stale' \in Stales
           /\ \A l \in client.attributes : bindAttributeLocation(l) => program' \in Programs /\ stale' \in Stales
           /\ \A l \in client.uniforms : bindUniformLocation(l) => program' \in Programs /\ stale' \in Stales
<1>1. shader \in Shaders /\ program \in Programs /\ stale \in Stales /\ client \in Clients
  BY DEF Typed
<1>2. [stale EXCEPT !.changed = TRUE] \in Stales
  BY <1>1, Zenon DEF Stales
<1>3. ASSUME NEW source \in client.sources, setSource(source)
      PROVE  shader' \in Shaders /\ stale' \in Stales
  BY <1>1, <1>2, <1>3, ClientGives, Zenon DEF setSource, SetShader, Shaders
<1>4. CASE compile
  BY <1>1, <1>4, Zenon DEF compile, SetShader, Shaders
<1>5. CASE resolveCompile
  BY <1>1, <1>5, Zenon DEF resolveCompile, Resolved, SetShader, Shaders
<1>6. CASE attachShader
  BY <1>1, <1>2, <1>6, Zenon DEF attachShader, SetProgram, Programs
<1>7. CASE detachShader
  BY <1>1, <1>2, <1>7, Zenon DEF detachShader, SetProgram, Programs
<1>8. ASSUME NEW l \in client.attributes, bindAttributeLocation(l)
      PROVE  program' \in Programs /\ stale' \in Stales
  <2>1. <<l>> \in BindingsOf(Locations)
    BY <1>1, ClientGives, Zenon
  <2> QED
    BY <1>1, <1>2, <1>8, <2>1, Zenon DEF bindAttributeLocation, SetProgram, Programs
<1>9. ASSUME NEW l \in client.uniforms, bindUniformLocation(l)
      PROVE  program' \in Programs /\ stale' \in Stales
  <2>1. <<l>> \in BindingsOf(Locations)
    BY <1>1, ClientGives, Zenon
  <2> QED
    BY <1>1, <1>2, <1>9, <2>1, Zenon DEF bindUniformLocation, SetProgram, Programs
<1> QED
  BY <1>3, <1>4, <1>5, <1>6, <1>7, <1>8, <1>9, Zenon

\* Those that change neither the link call nor its tasks.
Between ==
    \/ \E source \in client.sources : setSource(source)
    \/ compile \/ resolveCompile \/ attachShader \/ detachShader
    \/ \E l \in client.attributes : bindAttributeLocation(l)
    \/ \E l \in client.uniforms : bindUniformLocation(l)

\* What they leave alone.
LEMMA BetweenKeeps ==
    ASSUME Between
    PROVE  /\ Idle /\ UNCHANGED <<client, async, linking, tasks, cache>>
           /\ shader' = shader \/ program' = program
  BY Zenon DEF Between, setSource, compile, resolveCompile, attachShader, detachShader,
     bindAttributeLocation, bindUniformLocation, SetShader, SetProgram

LEMMA BetweenTyped ==
    ASSUME Typed, Between
    PROVE  Typed'
<1>1. shader' \in Shaders
  <2>1. shader \in Shaders
    BY DEF Typed
  <2> QED
    BY <2>1, ShaderTyped, Zenon DEF Between, attachShader, detachShader, bindAttributeLocation,
       bindUniformLocation, SetProgram
<1>2. program' \in Programs
  <2>1. program \in Programs
    BY DEF Typed
  <2> QED
    BY <2>1, ShaderTyped, Zenon DEF Between, setSource, compile, resolveCompile, SetShader
<1>3. stale' \in Stales
  BY ShaderTyped, Zenon DEF Between
<1> QED
  <2>1. UNCHANGED <<client, async, linking, tasks, cache>>
    BY BetweenKeeps, Zenon
  <2> QED
    BY <1>1, <1>2, <1>3, <2>1, Zenon DEF Typed

\* A step that changes the cache only.
LEMMA SetCacheTyped ==
    ASSUME Typed, NEW c, SetCache(c), IsCache(c, Entries)
    PROVE  Typed'
  BY Zenon DEF Typed, SetCache, Entries

LEMMA LinkLoadsTyped ==
    ASSUME Typed, LinkLoads
    PROVE  Typed'
<1> DEFINE hash == ComputeHash(shader, program)
<1>1. Has(cache, hash) /\ cache' = getProgram(cache, hash)
  BY DEF LinkLoads, Loads
<1>2. program' = [program EXCEPT !.mLinked = TRUE, !.executable = Peek(cache, hash).value]
  BY DEF LinkLoads
<1>3. stale' = [changed |-> FALSE, executable |-> Peek(cache, hash).stale]
  BY DEF LinkLoads
<1>4. UNCHANGED <<client, async, shader, linking, tasks>>
  BY DEF LinkLoads
<1> HIDE DEF hash
<1>5. IsCache(cache', Entries)
  BY <1>1, getProgramCache, Zenon DEF Typed
<1>6. Peek(cache, hash) \in Entries
  BY <1>1, PositionFound, Zenon DEF Typed
<1>7. Peek(cache, hash).value \in Executables \cup {nullptr} /\ Peek(cache, hash).stale \in BOOLEAN
  BY <1>6, Zenon DEF Entries
<1>8. program' \in Programs /\ stale' \in Stales
  <2>1. program \in Programs
    BY DEF Typed
  <2> QED
    BY <1>2, <1>3, <1>7, <2>1, Zenon DEF Programs, Stales
<1> QED
  BY <1>4, <1>5, <1>8, Zenon DEF Typed

LEMMA unlinkTyped ==
    ASSUME NEW p \in Programs
    PROVE  /\ unlink(p) \in Programs /\ ~unlink(p).mLinked
           /\ unlink(p).attached = p.attached
           /\ unlink(p).mAttributeBindings = p.mAttributeBindings
           /\ unlink(p).mUniformLocationBindings = p.mUniformLocationBindings
  BY Zenon DEF unlink, Programs

LEMMA LinkErrsTyped ==
    ASSUME Typed, LinkErrs
    PROVE  Typed'
<1> DEFINE hash == ComputeHash(shader, program)
<1>1. /\ program' = unlink(program) /\ cache' = get(cache, hash)
      /\ UNCHANGED <<client, async, shader, linking, tasks, stale>>
  BY DEF LinkErrs
<1> HIDE DEF hash
<1>2. IsCache(cache', Entries)
  BY <1>1, getCache, Zenon DEF Typed
<1>3. program' \in Programs
  BY <1>1, unlinkTyped, Zenon DEF Typed
<1> QED
  BY <1>1, <1>2, <1>3, Zenon DEF Typed

\* What link does that compiles, named.
LEMMA LinkCompilesDoes ==
    ASSUME Typed, NEW match \in BOOLEAN, NEW made \in [Range(Tasks) -> {"result", "no result"}],
           LinkCompiles(match, made)
    PROVE  LET hash == ComputeHash(shader, program)
               futures == IF async THEN Range(Tasks) ELSE {}
               link == [hash |-> hash, waited |-> 0, futures |-> futures]
           IN  /\ Idle /\ UNCHANGED <<client, async, stale>>
               /\ cache' = getProgram(cache, hash) /\ program' = unlink(program)
               /\ hash \in Keys
               /\ shader' \in Shaders /\ shader'.mSource = shader.mSource
               /\ \/ UNCHANGED <<linking, tasks>>
                  \/ /\ program.attached /\ linking' = link /\ tasks' = postWorkerTasks(made)
                     /\ link \in LinkCalls /\ link.hash = hash /\ link.waited = 0
                     /\ link.futures = futures
<1> DEFINE hash == ComputeHash(shader, program)
           futures == IF async THEN Range(Tasks) ELSE {}
           link == [hash |-> hash, waited |-> 0, futures |-> futures]
<1>1. shader \in Shaders /\ program \in Programs
  BY DEF Typed
<1>2. /\ Idle /\ UNCHANGED <<client, async, stale>>
      /\ cache' = getProgram(cache, hash) /\ program' = unlink(program)
      /\ shader' \in {shader, Resolved(shader)}
      /\ \/ UNCHANGED <<linking, tasks>>
         \/ program.attached /\ linking' = link /\ tasks' = postWorkerTasks(made)
  BY Zenon DEF LinkCompiles
<1>3. hash \in Keys
  BY <1>1, HashTyped, Zenon
<1>4. shader' \in Shaders /\ shader'.mSource = shader.mSource
  <2>1. Resolved(shader) \in Shaders /\ Resolved(shader).mSource = shader.mSource
    BY <1>1, Zenon DEF Resolved, Shaders
  <2> QED
    BY <1>1, <1>2, <2>1, Zenon
<1>5. futures \in SUBSET Range(Tasks)
  BY Zenon
<1> HIDE DEF hash, futures
<1>6. link \in LinkCalls /\ link.hash = hash /\ link.waited = 0 /\ link.futures = futures
  BY <1>3, <1>5, LinkCall, Zenon
<1> QED
  BY <1>2, <1>3, <1>4, <1>6, Zenon DEF hash, futures

LEMMA postWorkerTasksTyped ==
    ASSUME NEW made \in [Range(Tasks) -> {"result", "no result"}]
    PROVE  /\ postWorkerTasks(made) \in [Range(Tasks) -> TaskStates]
           /\ ~async => \A t \in Range(Tasks) : postWorkerTasks(made)[t] \in {"result", "no result"}
  BY Zenon DEF postWorkerTasks, TaskStates

LEMMA LinkCompilesTyped ==
    ASSUME Typed, NEW match \in BOOLEAN, NEW made \in [Range(Tasks) -> {"result", "no result"}],
           LinkCompiles(match, made)
    PROVE  Typed'
<1> DEFINE hash == ComputeHash(shader, program)
           link == [hash |-> hash, waited |-> 0, futures |-> IF async THEN Range(Tasks) ELSE {}]
<1>1. /\ UNCHANGED <<client, async, stale>>
      /\ cache' = getProgram(cache, hash) /\ program' = unlink(program)
      /\ shader' \in Shaders
      /\ \/ UNCHANGED <<linking, tasks>>
         \/ linking' = link /\ tasks' = postWorkerTasks(made) /\ link \in LinkCalls
  BY LinkCompilesDoes, Zenon
<1> HIDE DEF hash, link
<1>2. IsCache(cache', Entries)
  BY <1>1, getProgramCache, Zenon DEF Typed
<1>3. program' \in Programs
  BY <1>1, unlinkTyped, Zenon DEF Typed
<1>4. linking' \in LinkCalls \cup {nullptr} /\ tasks' \in [Range(Tasks) -> TaskStates]
  BY <1>1, postWorkerTasksTyped, Zenon DEF Typed
<1> QED
  BY <1>1, <1>2, <1>3, <1>4, Zenon DEF Typed

LEMMA updateProgramTyped ==
    ASSUME Counting, Typed, NEW size \in client.sizes, updateProgram(size)
    PROVE  Typed'
<1> DEFINE entry == Entry(ComputeHash(shader, program), program.executable, size,
                          stale.changed \/ stale.executable)
<1>1. entry \in Entries
  <2>1. size \in Nat
    BY ClientGives, Zenon DEF Typed
  <2>2. ComputeHash(shader, program) \in Keys
    BY HashTyped, Zenon DEF Typed
  <2>3. program.executable \in Executables \cup {nullptr}
    BY Zenon DEF Typed, Programs
  <2>4. (stale.changed \/ stale.executable) \in BOOLEAN
    OBVIOUS
  <2> QED
    BY <2>1, <2>2, <2>3, <2>4, EntryTyped, Zenon
<1>2. SetCache(put(cache, entry))
  BY Zenon DEF updateProgram, putProgram, SetCache
<1> HIDE DEF entry
<1>3. IsCache(put(cache, entry), Entries)
  BY <1>1, putCache, Zenon DEF Typed
<1> QED
  BY <1>2, <1>3, SetCacheTyped, Zenon

LEMMA TerminateTyped ==
    ASSUME Typed, Terminate
    PROVE  Typed'
<1>1. IsCache(cache', Entries)
  BY clearCache, Zenon DEF Terminate, Typed
<1>2. shader' \in Shaders /\ program' \in Programs /\ stale' \in Stales
  BY Zenon DEF Terminate, NewShader, NewProgram, Shaders, Programs, Stales, BindingsOf
<1> QED
  BY <1>1, <1>2, Zenon DEF Terminate, Typed

\* What a wait does, named.
LEMMA WaitManyDoes ==
    ASSUME Typed, WaitMany
    PROVE  LET t == Tasks[linking.waited + 1]
           IN  /\ linking \in LinkCalls /\ linking' \in LinkCalls /\ ~Idle /\ ~Idle'
               /\ linking.waited \in 0 .. 3 /\ linking.waited < 3
               /\ Waits(t) /\ t \in Range(Tasks)
               /\ linking'.hash = linking.hash /\ linking'.waited = linking.waited + 1
               /\ linking'.futures = linking.futures \ {t}
               /\ UNCHANGED <<client, async, shader, program, tasks, cache, stale>>
<1>1. linking \in LinkCalls /\ ~Idle
  BY Zenon DEF WaitMany, Idle, Typed
<1>2. linking.waited < 3 /\ Waits(Tasks[linking.waited + 1])
  BY TaskNames, Zenon DEF WaitMany
<1>3. /\ linking' = [linking EXCEPT !.waited = @ + 1, !.futures = @ \ {Tasks[linking.waited + 1]}]
      /\ UNCHANGED <<client, async, shader, program, tasks, cache, stale>>
  BY Zenon DEF WaitMany
<1>4. /\ linking' \in LinkCalls /\ linking.waited \in 0 .. 3 /\ Tasks[linking.waited + 1] \in Range(Tasks)
      /\ linking'.hash = linking.hash /\ linking'.waited = linking.waited + 1
      /\ linking'.futures = linking.futures \ {Tasks[linking.waited + 1]}
  BY <1>1, <1>2, <1>3, LinkCall, Zenon
<1>5. ~Idle'
  BY <1>4, LinkCall, Zenon DEF Idle
<1> QED
  BY <1>1, <1>2, <1>3, <1>4, <1>5, Zenon

LEMMA WaitManyTyped ==
    ASSUME Typed, WaitMany
    PROVE  Typed'
<1>1. linking' \in LinkCalls /\ UNCHANGED <<client, async, shader, program, tasks, cache, stale>>
  BY WaitManyDoes, Zenon
<1> QED
  BY <1>1, Zenon DEF Typed

\* What the end of link does, named.
LEMMA LinkEndsDoes ==
    ASSUME Typed, NEW cached \in BOOLEAN, NEW size \in client.sizes, LinkEnds(cached, size)
    PROVE  LET executable == <<shader.mLastCompiledSource, program.mAttributeBindings,
                               program.mUniformLocationBindings>>
               old == shader.mSource # shader.mLastCompiledSource
               linked == [program EXCEPT !.mLinked = TRUE, !.executable = executable]
           IN  /\ linking \in LinkCalls /\ ~Idle /\ linking.waited = 3 /\ linking' = nullptr
               /\ executable \in Executables
               /\ Entry(linking.hash, executable, size, old) \in Entries
               /\ cache' \in {cache, put(cache, Entry(linking.hash, executable, size, old))}
               /\ \/ UNCHANGED <<program, stale>>
                  \/ /\ program' = linked /\ linked \in Programs
                     /\ stale' = [changed |-> FALSE, executable |-> old]
               /\ tasks' = [t \in Range(Tasks) |-> IF Finished(t) THEN "none" ELSE tasks[t]]
               /\ UNCHANGED <<client, async, shader>>
<1> DEFINE executable == <<shader.mLastCompiledSource, program.mAttributeBindings,
                           program.mUniformLocationBindings>>
           old == shader.mSource # shader.mLastCompiledSource
           linked == [program EXCEPT !.mLinked = TRUE, !.executable = executable]
           entry == Entry(linking.hash, executable, size, old)
<1>1. linking \in LinkCalls /\ ~Idle /\ linking' = nullptr /\ linking.waited = 3
  BY TaskNames, Zenon DEF LinkEnds, Idle, Typed
<1>2. /\ cache' \in {cache, put(cache, entry)}
      /\ \/ UNCHANGED <<program, stale>>
         \/ program' = linked /\ stale' = [changed |-> FALSE, executable |-> old]
      /\ tasks' = [t \in Range(Tasks) |-> IF Finished(t) THEN "none" ELSE tasks[t]]
      /\ UNCHANGED <<client, async, shader>>
  BY Zenon DEF LinkEnds, putProgram, programVars
<1>3. executable \in Executables
  BY HashOfTyped, Zenon DEF Typed, Shaders, Programs
<1> HIDE DEF executable
<1>4. linked \in Programs
  BY <1>3, Zenon DEF Typed, Programs
<1>5. entry \in Entries
  <2>1. size \in Nat /\ linking.hash \in Keys
    BY <1>1, ClientGives, Zenon DEF Typed, LinkCalls
  <2>2. old \in BOOLEAN
    OBVIOUS
  <2> HIDE DEF old
  <2> QED
    BY <1>3, <2>1, <2>2, EntryTyped, Zenon
<1> QED
  BY <1>1, <1>2, <1>3, <1>4, <1>5, Zenon DEF executable

LEMMA LinkEndsTyped ==
    ASSUME Counting, Typed, NEW cached \in BOOLEAN, NEW size \in client.sizes, LinkEnds(cached, size)
    PROVE  Typed'
<1> DEFINE executable == <<shader.mLastCompiledSource, program.mAttributeBindings,
                           program.mUniformLocationBindings>>
           old == shader.mSource # shader.mLastCompiledSource
           linked == [program EXCEPT !.mLinked = TRUE, !.executable = executable]
           entry == Entry(linking.hash, executable, size, old)
<1>1. /\ linking' = nullptr
      /\ entry \in Entries /\ cache' \in {cache, put(cache, entry)}
      /\ \/ UNCHANGED <<program, stale>>
         \/ /\ program' = linked /\ linked \in Programs
            /\ stale' = [changed |-> FALSE, executable |-> old]
      /\ tasks' = [t \in Range(Tasks) |-> IF Finished(t) THEN "none" ELSE tasks[t]]
      /\ UNCHANGED <<client, async, shader>>
  BY LinkEndsDoes, Zenon
<1>2. old \in BOOLEAN
  OBVIOUS
<1> HIDE DEF entry, old, linked
<1>3. IsCache(cache', Entries)
  <2>1. IsCache(put(cache, entry), Entries)
    BY <1>1, putCache, Zenon DEF Typed
  <2> QED
    BY <1>1, <2>1, Zenon DEF Typed
<1>4. program' \in Programs /\ stale' \in Stales
  <2>1. [changed |-> FALSE, executable |-> old] \in Stales
    BY <1>2, Zenon DEF Stales
  <2>2. program \in Programs /\ stale \in Stales
    BY DEF Typed
  <2> QED
    BY <1>1, <2>1, <2>2, Zenon
<1>5. tasks' \in [Range(Tasks) -> TaskStates]
  BY <1>1, Zenon DEF Typed, TaskStates
<1> QED
  BY <1>1, <1>3, <1>4, <1>5, Zenon DEF Typed

\* What is populated.
LEMMA PopulateDoes ==
    ASSUME Typed, NEW source \in client.sources \cap Compilable, NEW damaged \in BOOLEAN,
           NEW size \in client.sizes, NEW a \in BindingsOf(client.attributes),
           NEW u \in BindingsOf(client.uniforms), Populate(<<source, a, u>>, damaged, size)
    PROVE  \E entry \in Matching : SetCache(put(cache, entry))
<1> DEFINE e == <<source, a, u>>
           entry == Entry(HashOf(e[1], e[2], e[3]), IF damaged THEN Damaged ELSE e, size, FALSE)
<1>1. SetCache(put(cache, entry))
  BY Zenon DEF Populate
<1>2. source \in Sources \cup {nullptr} /\ a \in BindingsOf(Locations) /\ u \in BindingsOf(Locations)
  BY ClientGives, Zenon DEF Typed
<1>3. e \in Executables /\ HashOf(source, a, u) \in Keys
  BY <1>2, HashOfTyped, Zenon
<1>4. e[1] = source /\ e[2] = a /\ e[3] = u
  OBVIOUS
<1>5. HashOf(e[1], e[2], e[3]) \in Keys
  BY <1>3, <1>4, Zenon
<1> HIDE DEF e
<1>6. (IF damaged THEN Damaged ELSE e) \in {e, nullptr}
  BY Zenon DEF Damaged
<1>7. entry \in Entries
  <2>1. size \in Nat /\ FALSE \in BOOLEAN
    BY ClientGives, Zenon DEF Typed
  <2> QED
    BY <1>3, <1>5, <1>6, <2>1, EntryTyped, Zenon
<1>8. Matches(entry)
  BY <1>6, Zenon DEF Matches, Entry, Damaged
<1> HIDE DEF entry
<1> QED
  BY <1>1, <1>7, <1>8, Zenon DEF Matching

LEMMA EglTyped ==
    ASSUME Counting, Typed, Egl
    PROVE  Typed'
<1>1. CASE \E limit \in client.limits : Resize(limit) \/ Trim(limit)
  <2>1. PICK limit \in client.limits : Resize(limit) \/ Trim(limit)
    BY <1>1
  <2>2. IsCache(resize(cache, limit), Entries) /\ IsCache(shrinkToSize(cache, limit), Entries)
    BY clearCache, shrinkToSizeCache, Zenon DEF Typed
  <2> QED
    BY <2>1, <2>2, SetCacheTyped, Zenon DEF Resize, Trim
<1>2. CASE \E entry \in Matching : SetCache(put(cache, entry))
  <2>1. PICK entry \in Matching : SetCache(put(cache, entry))
    BY <1>2
  <2>2. entry \in Entries
    BY Zenon DEF Matching
  <2>3. IsCache(put(cache, entry), Entries)
    BY <2>2, putCache, Zenon DEF Typed
  <2> QED
    BY <2>1, <2>3, SetCacheTyped, Zenon
<1> QED
  BY <1>1, <1>2, PopulateDoes, Zenon DEF Egl

\* What a worker thread does, named.
LEMMA WorkerDoes ==
    ASSUME Typed, NEW t \in Range(Tasks), Worker(t)
    PROVE  /\ tasks[t] = "posted" /\ tasks' \in [Range(Tasks) -> TaskStates]
           /\ tasks'[t] \in {"result", "no result"}
           /\ \A u \in Range(Tasks) \ {t} : tasks'[u] = tasks[u]
           /\ UNCHANGED <<client, async, shader, program, linking, cache, stale>>
<1>1. PICK result \in {"result", "no result"} : RunTask(t, result)
  BY Zenon DEF Worker
<1> QED
  BY <1>1, Zenon DEF RunTask, Typed, TaskStates

LEMMA TypedStep ==
    ASSUME Counting, Typed, [CacheNext]_cacheVars
    PROVE  Typed'
<1>1. CASE UNCHANGED cacheVars
  BY <1>1, Zenon DEF cacheVars, Typed
<1>2. CASE Client
  BY <1>2, BetweenTyped, LinkLoadsTyped, LinkErrsTyped, LinkCompilesTyped, updateProgramTyped,
     TerminateTyped, Zenon DEF Client, Between
<1>3. CASE Linker
  BY <1>3, WaitManyTyped, LinkEndsTyped, Zenon DEF Linker
<1>4. ASSUME NEW t \in Range(Tasks), Worker(t) PROVE Typed'
  BY <1>4, WorkerDoes, Zenon DEF Typed
<1> QED
  BY <1>1, <1>2, <1>3, <1>4, EglTyped, Zenon DEF CacheNext

-------------------------------------------------------------------------------
(* No task outlives link.                                                  *)

LEMMA TaskInvInit == CacheInit => TaskInv
<1> SUFFICES ASSUME CacheInit PROVE TaskInv
  OBVIOUS
<1>1. linking = nullptr /\ tasks = [t \in Range(Tasks) |-> "none"]
  BY DEF CacheInit
<1>2. \A t \in Range(Tasks) : tasks[t] # "posted"
  BY <1>1
<1> QED
  BY <1>1, <1>2, TypedInit, Zenon DEF TaskInv, TasksJoined, Idle

LEMMA LinkCompilesJoins ==
    ASSUME TaskInv, Typed', NEW match \in BOOLEAN,
           NEW made \in [Range(Tasks) -> {"result", "no result"}], LinkCompiles(match, made),
           ~UNCHANGED <<linking, tasks>>
    PROVE  TaskInv'
<1> DEFINE link == [hash |-> ComputeHash(shader, program), waited |-> 0,
                    futures |-> IF async THEN Range(Tasks) ELSE {}]
<1>1. /\ linking' = link /\ tasks' = postWorkerTasks(made)
      /\ link \in LinkCalls /\ link.waited = 0 /\ link.futures = IF async THEN Range(Tasks) ELSE {}
  BY LinkCompilesDoes, Zenon DEF TaskInv
<1> HIDE DEF link
<1>2. ~Idle' /\ linking'.waited = 0
  BY <1>1, LinkCall, Zenon DEF Idle
<1>3. \A t \in Range(Tasks) : t \in linking'.futures \/ Finished(t)'
  BY <1>1, postWorkerTasksTyped, Zenon DEF Finished
<1>4. \A i \in 1 .. linking'.waited : Finished(Tasks[i])'
  BY <1>2, EventsWaitedFor, Zenon
<1>5. TasksJoined'
  BY <1>2, EventsWaitedFor, TaskNames, Zenon DEF TasksJoined
<1> QED
  BY <1>2, <1>3, <1>4, <1>5, Zenon DEF TaskInv

\* All the events are waited for: no task is posted.
LEMMA AllWaited ==
    ASSUME \A i \in 1 .. 3 : Finished(Tasks[i])
    PROVE  \A t \in Range(Tasks) : Finished(t) /\ tasks[t] # "posted"
<1>1. 1 \in 1 .. 3 /\ 2 \in 1 .. 3 /\ 3 \in 1 .. 3
  OBVIOUS
<1>2. \A t \in Range(Tasks) : Finished(t)
  BY <1>1, TaskNames, Zenon
<1> QED
  BY <1>2, Zenon DEF Finished

LEMMA WaitManyJoins ==
    ASSUME TaskInv, Typed', WaitMany
    PROVE  TaskInv'
<1> DEFINE t == Tasks[linking.waited + 1]
<1>1. /\ ~Idle /\ ~Idle' /\ linking.waited \in 0 .. 3 /\ Waits(t) /\ t \in Range(Tasks)
      /\ linking'.waited = linking.waited + 1 /\ linking'.futures = linking.futures \ {t}
      /\ UNCHANGED tasks
  BY WaitManyDoes, Zenon DEF TaskInv
<1>2. Finished(t)
  BY <1>1, Zenon DEF TaskInv, Waits
<1>3. \A u \in Range(Tasks) : u \in linking'.futures \/ Finished(u)
  BY <1>1, <1>2, Zenon DEF TaskInv
<1>4. \A i \in 1 .. linking.waited : Finished(Tasks[i])
  BY <1>1, Zenon DEF TaskInv
<1>5. ASSUME NEW i \in 1 .. linking'.waited PROVE Finished(Tasks[i])
  <2>1. i \in 1 .. linking.waited \/ i = linking.waited + 1
    BY <1>1
  <2> QED
    BY <1>2, <1>4, <2>1, Zenon
<1>6. linking'.waited = 3 => \A u \in Range(Tasks) : tasks[u] # "posted"
  BY <1>5, AllWaited, Zenon
<1> HIDE DEF t
<1>7. TasksJoined'
  BY <1>1, <1>6, TaskNames, Zenon DEF TasksJoined
<1> QED
  BY <1>1, <1>3, <1>5, <1>7, Zenon DEF TaskInv, Finished

LEMMA LinkEndsJoins ==
    ASSUME TaskInv, Typed', NEW cached \in BOOLEAN, NEW size \in client.sizes, LinkEnds(cached, size)
    PROVE  TaskInv'
<1>1. /\ ~Idle /\ linking.waited = 3 /\ linking' = nullptr
      /\ tasks' = [t \in Range(Tasks) |-> IF Finished(t) THEN "none" ELSE tasks[t]]
  BY LinkEndsDoes, Zenon DEF TaskInv
<1>2. \A i \in 1 .. 3 : Finished(Tasks[i])
  BY <1>1, Zenon DEF TaskInv
<1>3. \A t \in Range(Tasks) : Finished(t)
  BY <1>2, AllWaited, Zenon
<1>4. \A t \in Range(Tasks) : tasks'[t] # "posted"
  BY <1>1, <1>3
<1>5. Idle'
  BY <1>1, Zenon DEF Idle
<1> QED
  BY <1>4, <1>5, Zenon DEF TaskInv, TasksJoined

LEMMA WorkerJoins ==
    ASSUME TaskInv, Typed', NEW t \in Range(Tasks), Worker(t)
    PROVE  TaskInv'
<1>1. /\ tasks[t] = "posted" /\ tasks'[t] \in {"result", "no result"}
      /\ \A u \in Range(Tasks) \ {t} : tasks'[u] = tasks[u]
      /\ linking' = linking
  BY WorkerDoes, Zenon DEF TaskInv
<1>2. ~Idle /\ linking.waited # Len(Tasks)
  BY <1>1, Zenon DEF TaskInv, TasksJoined
<1>3. ~Idle' /\ TasksJoined'
  BY <1>1, <1>2, Zenon DEF TasksJoined, Idle
<1>4. \A u \in Range(Tasks) : Finished(u) => Finished(u)'
  BY <1>1, Zenon DEF Finished
<1>5. linking \in LinkCalls /\ linking.waited \in 0 .. 3
  BY <1>2, LinkCall, Zenon DEF TaskInv, Typed, Idle
<1>6. ASSUME NEW i \in 1 .. linking.waited PROVE Tasks[i] \in Range(Tasks)
  <2>1. i \in {1, 2, 3}
    BY <1>5, EventsWaitedFor, Zenon
  <2> QED
    BY <2>1, TaskNames, Zenon
<1> QED
  BY <1>1, <1>2, <1>3, <1>4, <1>6, Zenon DEF TaskInv

LEMMA TaskInvStep ==
    ASSUME Counting, TaskInv, [CacheNext]_cacheVars
    PROVE  TaskInv'
<1>1. Typed /\ Typed'
  BY TypedStep DEF TaskInv
<1>2. CASE UNCHANGED <<linking, tasks>>
  BY <1>1, <1>2, Zenon DEF TaskInv, TasksJoined, Idle, Finished
<1>3. \/ UNCHANGED <<linking, tasks>>
      \/ \E match \in BOOLEAN, made \in [Range(Tasks) -> {"result", "no result"}] : LinkCompiles(match, made)
      \/ Linker
      \/ \E t \in Range(Tasks) : Worker(t)
  <2>1. Between => UNCHANGED <<linking, tasks>>
    BY BetweenKeeps, Zenon
  <2>2. LinkLoads \/ LinkErrs \/ Terminate => UNCHANGED <<linking, tasks>>
    BY Zenon DEF LinkLoads, LinkErrs, Terminate
  <2>3. (\E size \in client.sizes : updateProgram(size)) => UNCHANGED <<linking, tasks>>
    BY Zenon DEF updateProgram
  <2>4. Egl => UNCHANGED <<linking, tasks>>
    BY Zenon DEF Egl, Populate, Resize, Trim, SetCache
  <2>5. UNCHANGED cacheVars => UNCHANGED <<linking, tasks>>
    BY Zenon DEF cacheVars
  <2> QED
    BY <2>1, <2>2, <2>3, <2>4, <2>5, Zenon DEF CacheNext, Client, Between
<1>4. CASE ~UNCHANGED <<linking, tasks>>
  BY <1>1, <1>3, <1>4, LinkCompilesJoins, WaitManyJoins, LinkEndsJoins, WorkerJoins, Zenon DEF Linker
<1> QED
  BY <1>2, <1>4, Zenon

-------------------------------------------------------------------------------
(* An entry is under its key unless it is stale.                           *)

\* A step that changes the cache only.
LEMMA SetCacheMatches ==
    ASSUME MatchInv, Typed', NEW c, SetCache(c), IsCache(c, Matching)
    PROVE  MatchInv'
  BY Zenon DEF MatchInv, SetCache, LinkedMatches, LinkingMatches, Idle, Matching, Matches, Entries

\* What changes the key makes the executable stale.
LEMMA BetweenMatches ==
    ASSUME MatchInv, Typed', Between
    PROVE  MatchInv'
<1>1. shader \in Shaders /\ stale \in Stales
  BY DEF MatchInv, Typed
<1>2. Idle /\ UNCHANGED <<linking, cache>>
  BY BetweenKeeps, Zenon
<1>3. CASE stale'.changed
  BY <1>2, <1>3, Zenon DEF MatchInv, LinkedMatches, LinkingMatches, Idle
<1>4. CASE compile \/ resolveCompile
  <2>1. shader'.mSource = shader.mSource /\ UNCHANGED <<program, stale>>
    BY <1>1, <1>4, Zenon DEF compile, resolveCompile, Resolved, SetShader, Shaders
  <2>2. ComputeHash(shader', program') = ComputeHash(shader, program)
    BY <2>1, Zenon DEF ComputeHash
  <2> QED
    BY <1>2, <2>1, <2>2, Zenon DEF MatchInv, LinkedMatches, LinkingMatches, Idle
<1>5. CASE ~(compile \/ resolveCompile)
  <2>1. stale' = [stale EXCEPT !.changed = TRUE]
    BY <1>5, Zenon DEF Between, setSource, attachShader, detachShader, bindAttributeLocation,
       bindUniformLocation, SetProgram
  <2>2. stale'.changed
    BY <1>1, <2>1, Zenon DEF Stales
  <2> QED
    BY <1>3, <2>2
<1> QED
  BY <1>4, <1>5

\* An entry that is not stale has the executable whose key it is under.
LEMMA LinkLoadsMatches ==
    ASSUME MatchInv, Typed', LinkLoads
    PROVE  MatchInv'
<1> DEFINE hash == ComputeHash(shader, program)
           entry == Peek(cache, hash)
<1>1. /\ Idle /\ Has(cache, hash) /\ entry.value # nullptr
      /\ program' = [program EXCEPT !.mLinked = TRUE, !.executable = entry.value]
      /\ stale' = [changed |-> FALSE, executable |-> entry.stale]
      /\ cache' = getProgram(cache, hash) /\ UNCHANGED <<shader, linking>>
  BY Zenon DEF LinkLoads, Loads, Damaged
<1>2. program \in Programs /\ IsCache(cache, Matching)
  BY DEF MatchInv, Typed
<1>3. /\ program'.attached = program.attached /\ program'.executable = entry.value
      /\ program'.mAttributeBindings = program.mAttributeBindings
      /\ program'.mUniformLocationBindings = program.mUniformLocationBindings
      /\ stale'.executable = entry.stale
  <2> HIDE DEF entry
  <2> QED
    BY <1>1, <1>2, Zenon DEF Programs
<1>4. ComputeHash(shader', program') = hash
  BY <1>1, <1>3, Zenon DEF ComputeHash
<1> HIDE DEF hash
<1>5. entry \in Matching /\ entry.key = hash
  BY <1>1, <1>2, PositionFound, Zenon
<1>6. entry.stale \/ hash = HashOf(entry.value[1], entry.value[2], entry.value[3])
  BY <1>1, <1>5, Zenon DEF Matching, Matches, Damaged
<1>7. LinkedMatches'
  BY <1>3, <1>4, <1>6, Zenon DEF LinkedMatches
<1>8. LinkingMatches'
  BY <1>1, Zenon DEF LinkingMatches, Idle
<1>9. IsCache(cache', Matching)
  BY <1>1, <1>2, getProgramCache, Zenon
<1> QED
  BY <1>7, <1>8, <1>9, Zenon DEF MatchInv, Matching, Matches, Entries

LEMMA LinkErrsMatches ==
    ASSUME MatchInv, Typed', LinkErrs
    PROVE  MatchInv'
<1> DEFINE hash == ComputeHash(shader, program)
<1>1. Idle /\ program' = unlink(program) /\ cache' = get(cache, hash) /\ UNCHANGED linking
  BY Zenon DEF LinkErrs
<1> HIDE DEF hash
<1>2. ~program'.mLinked
  BY <1>1, unlinkTyped, Zenon DEF MatchInv, Typed
<1>3. IsCache(cache', Matching)
  BY <1>1, getCache, Zenon DEF MatchInv
<1> QED
  BY <1>1, <1>2, <1>3, Zenon DEF MatchInv, LinkedMatches, LinkingMatches, Idle, Matching, Matches, Entries

LEMMA LinkCompilesMatches ==
    ASSUME MatchInv, Typed', NEW match \in BOOLEAN,
           NEW made \in [Range(Tasks) -> {"result", "no result"}], LinkCompiles(match, made)
    PROVE  MatchInv'
<1> DEFINE hash == ComputeHash(shader, program)
           link == [hash |-> hash, waited |-> 0, futures |-> IF async THEN Range(Tasks) ELSE {}]
<1>1. /\ Idle /\ cache' = getProgram(cache, hash) /\ program' = unlink(program)
      /\ shader'.mSource = shader.mSource
      /\ UNCHANGED linking \/ (program.attached /\ linking' = link /\ link.hash = hash)
  BY LinkCompilesDoes, Zenon DEF MatchInv
<1>2. /\ ~program'.mLinked /\ program'.attached = program.attached
      /\ program'.mAttributeBindings = program.mAttributeBindings
      /\ program'.mUniformLocationBindings = program.mUniformLocationBindings
  BY <1>1, unlinkTyped, Zenon DEF MatchInv, Typed
<1>3. ComputeHash(shader', program') = hash
  BY <1>1, <1>2, Zenon DEF ComputeHash
<1> HIDE DEF hash, link
<1>4. IsCache(cache', Matching)
  BY <1>1, getProgramCache, Zenon DEF MatchInv
<1>5. LinkingMatches'
  BY <1>1, <1>2, <1>3, Zenon DEF LinkingMatches, Idle
<1> QED
  BY <1>2, <1>4, <1>5, Zenon DEF MatchInv, LinkedMatches, Matching, Matches, Entries

LEMMA updateProgramMatches ==
    ASSUME Counting, MatchInv, Typed', NEW size \in client.sizes, updateProgram(size)
    PROVE  MatchInv'
<1> DEFINE old == stale.changed \/ stale.executable
           entry == Entry(ComputeHash(shader, program), program.executable, size, old)
<1>1. SetCache(put(cache, entry)) /\ program.mLinked
  BY Zenon DEF updateProgram, putProgram, SetCache
<1>2. old \in BOOLEAN
  OBVIOUS
<1>3. old \/ (program.executable # nullptr => ComputeHash(shader, program) =
                 HashOf(program.executable[1], program.executable[2], program.executable[3]))
  BY <1>1, Zenon DEF MatchInv, LinkedMatches
<1> HIDE DEF old
<1>4. entry \in Entries
  <2>1. size \in Nat
    BY ClientGives, Zenon DEF MatchInv, Typed
  <2>2. ComputeHash(shader, program) \in Keys
    BY HashTyped, Zenon DEF MatchInv, Typed
  <2>3. program.executable \in Executables \cup {nullptr}
    BY Zenon DEF MatchInv, Typed, Programs
  <2> QED
    BY <1>2, <2>1, <2>2, <2>3, EntryTyped, Zenon
<1>5. entry.stale \/ Matches(entry)
  BY <1>3, Zenon DEF Entry, Matches, Damaged
<1> HIDE DEF entry
<1>6. entry \in Matching
  BY <1>4, <1>5, Zenon DEF Matching
<1>7. IsCache(put(cache, entry), Matching)
  BY <1>6, putCache, Zenon DEF MatchInv
<1> QED
  BY <1>1, <1>7, SetCacheMatches, Zenon

LEMMA TerminateMatches ==
    ASSUME MatchInv, Typed', Terminate
    PROVE  MatchInv'
<1>1. IsCache(cache', Matching)
  BY clearCache, Zenon DEF Terminate, MatchInv
<1>2. ~program'.mLinked /\ Idle'
  BY Zenon DEF Terminate, NewProgram, Idle
<1> QED
  BY <1>1, <1>2, Zenon DEF MatchInv, LinkedMatches, LinkingMatches, Matching, Matches, Entries

LEMMA WaitManyMatches ==
    ASSUME MatchInv, Typed', WaitMany
    PROVE  MatchInv'
<1>1. ~Idle /\ linking'.hash = linking.hash /\ UNCHANGED <<shader, program, cache, stale>>
  BY WaitManyDoes, Zenon DEF MatchInv
<1> QED
  BY <1>1, Zenon DEF MatchInv, LinkedMatches, LinkingMatches

\* A source given since the compiler ran makes the executable and the entry stale.
LEMMA LinkEndsMatches ==
    ASSUME Counting, MatchInv, Typed', NEW cached \in BOOLEAN, NEW size \in client.sizes,
           LinkEnds(cached, size)
    PROVE  MatchInv'
<1> DEFINE executable == <<shader.mLastCompiledSource, program.mAttributeBindings,
                           program.mUniformLocationBindings>>
           old == shader.mSource # shader.mLastCompiledSource
           linked == [program EXCEPT !.mLinked = TRUE, !.executable = executable]
           entry == Entry(linking.hash, executable, size, old)
<1>1. /\ ~Idle /\ linking' = nullptr /\ entry \in Entries /\ cache' \in {cache, put(cache, entry)}
      /\ \/ UNCHANGED <<program, stale>>
         \/ program' = linked /\ stale' = [changed |-> FALSE, executable |-> old]
      /\ UNCHANGED shader
  BY LinkEndsDoes, Zenon DEF MatchInv
<1>2. program \in Programs
  BY DEF MatchInv, Typed
<1>3. program.attached /\ linking.hash = ComputeHash(shader, program)
  BY <1>1, Zenon DEF MatchInv, LinkingMatches
<1>4. /\ executable[1] = shader.mLastCompiledSource /\ executable[2] = program.mAttributeBindings
      /\ executable[3] = program.mUniformLocationBindings
  OBVIOUS
<1>5. old \/ linking.hash = HashOf(executable[1], executable[2], executable[3])
  BY <1>3, <1>4, Zenon DEF ComputeHash
<1> HIDE DEF executable, old
<1>6. /\ linked.attached = program.attached /\ linked.executable = executable
      /\ linked.mAttributeBindings = program.mAttributeBindings
      /\ linked.mUniformLocationBindings = program.mUniformLocationBindings
  BY <1>2, Zenon DEF Programs
<1> HIDE DEF linked
<1>7. LinkedMatches'
  <2>1. CASE UNCHANGED <<program, stale>>
    BY <1>1, <2>1, Zenon DEF MatchInv, LinkedMatches
  <2>2. CASE program' = linked /\ stale' = [changed |-> FALSE, executable |-> old]
    <3>1. ComputeHash(shader', program') = linking.hash
      BY <1>1, <1>3, <1>6, <2>2, Zenon DEF ComputeHash
    <3>2. stale'.executable = old
      BY <2>2, Zenon
    <3> QED
      BY <1>5, <1>6, <2>2, <3>1, <3>2, Zenon DEF LinkedMatches
  <2> QED
    BY <1>1, <2>1, <2>2, Zenon
<1>8. entry \in Matching
  <2>1. entry.stale \/ Matches(entry)
    BY <1>5, Zenon DEF Entry, Matches
  <2> QED
    BY <1>1, <2>1, Zenon DEF Matching
<1> HIDE DEF entry
<1>9. IsCache(cache', Matching)
  <2>1. IsCache(put(cache, entry), Matching)
    BY <1>8, putCache, Zenon DEF MatchInv
  <2> QED
    BY <1>1, <2>1, Zenon DEF MatchInv
<1>10. LinkingMatches'
  BY <1>1, Zenon DEF LinkingMatches, Idle
<1> QED
  BY <1>7, <1>9, <1>10, Zenon DEF MatchInv, Matching, Matches, Entries

LEMMA EglMatches ==
    ASSUME Counting, MatchInv, Typed', Egl
    PROVE  MatchInv'
<1>1. CASE \E limit \in client.limits : Resize(limit) \/ Trim(limit)
  <2>1. PICK limit \in client.limits : Resize(limit) \/ Trim(limit)
    BY <1>1
  <2>2. IsCache(resize(cache, limit), Matching) /\ IsCache(shrinkToSize(cache, limit), Matching)
    BY clearCache, shrinkToSizeCache, Zenon DEF MatchInv
  <2> QED
    BY <2>1, <2>2, SetCacheMatches, Zenon DEF Resize, Trim
<1>2. CASE \E entry \in Matching : SetCache(put(cache, entry))
  <2>1. PICK entry \in Matching : SetCache(put(cache, entry))
    BY <1>2
  <2>2. IsCache(put(cache, entry), Matching)
    BY putCache, Zenon DEF MatchInv
  <2> QED
    BY <2>1, <2>2, SetCacheMatches, Zenon
<1> QED
  BY <1>1, <1>2, PopulateDoes, Zenon DEF Egl, MatchInv

LEMMA MatchInvStep ==
    ASSUME Counting, MatchInv, [CacheNext]_cacheVars
    PROVE  MatchInv'
<1>1. Typed'
  BY TypedStep DEF MatchInv
<1>2. CASE UNCHANGED <<shader, program, linking, cache, stale>>
  BY <1>1, <1>2, Zenon DEF MatchInv, LinkedMatches, LinkingMatches, Idle
<1>3. CASE UNCHANGED cacheVars \/ \E t \in Range(Tasks) : Worker(t)
  BY <1>2, <1>3, Zenon DEF cacheVars, Worker, RunTask
<1>4. CASE Client
  BY <1>1, <1>4, BetweenMatches, LinkLoadsMatches, LinkErrsMatches, LinkCompilesMatches,
     updateProgramMatches, TerminateMatches, Zenon DEF Client, Between
<1>5. CASE Linker
  BY <1>1, <1>5, WaitManyMatches, LinkEndsMatches, Zenon DEF Linker
<1> QED
  BY <1>1, <1>3, <1>4, <1>5, EglMatches, Zenon DEF CacheNext

-------------------------------------------------------------------------------
(* The account of the cache.                                               *)

LEMMA SoundInit ==
    ASSUME Counting
    PROVE  CacheInit => Sound(cache)
<1>. SUFFICES ASSUME CacheInit PROVE Sound(cache)
  OBVIOUS
<1>. DEFINE m == Max(client.limits)
<1>1. m \in Nat
  BY ClientGives, Zenon DEF CacheInit
<1>. HIDE DEF m
<1>. DEFINE e == [mMaximumTotalSize |-> m, mCurrentSize |-> 0, mStore |-> << >>]
            S == {n \in {} : TRUE}
<1>2. Sized(S) /\ << >> \in Seq(S) /\ DistinctKeys(<< >>)
  BY DEF Sized, DistinctKeys
<1>3. SizedCache(e, S)
  BY <1>1, <1>2, SizesEmpty DEF SizedCache, Accounts, IsCache
<1>4. Sound(e)
  BY <1>2, <1>3, Zenon DEF Sound
<1>. QED
  BY <1>4 DEF CacheInit, NewCache, m

\* What a step does to the cache.
CacheMoves ==
    \/ cache' = cache
    \/ \E hash : cache' = get(cache, hash) \/ cache' = eraseByKey(cache, hash)
    \/ \E entry : entry.size \in Nat /\ cache' = put(cache, entry)
    \/ \E limit \in Nat : cache' = resize(cache, limit) \/ cache' = shrinkToSize(cache, limit)
    \/ cache' = clear(cache)

LEMMA PutMoves ==
    ASSUME NEW hash, NEW value, NEW size \in Nat, NEW old,
           cache' = put(cache, Entry(hash, value, size, old))
    PROVE  CacheMoves
<1>. DEFINE entry == Entry(hash, value, size, old)
<1>1. entry.size \in Nat
  BY Zenon DEF Entry
<1>. HIDE DEF entry
<1>2. cache' = put(cache, entry)
  BY DEF entry
<1>. QED
  BY <1>1, <1>2, Zenon DEF CacheMoves

LEMMA StepMoves ==
    ASSUME Typed, [CacheNext]_cacheVars
    PROVE  CacheMoves
<1>1. client.sizes \subseteq Nat /\ client.limits \subseteq Nat
  BY ClientGives, Zenon DEF Typed
<1>2. CASE UNCHANGED cacheVars \/ Between \/ WaitMany \/ \E t \in Range(Tasks) : Worker(t)
  BY <1>2, BetweenKeeps, Zenon DEF cacheVars, WaitMany, Worker, RunTask, CacheMoves
<1>3. CASE LinkLoads \/ LinkErrs
  BY <1>3, Zenon DEF LinkLoads, LinkErrs, getProgram, CacheMoves
<1>4. CASE \E match \in BOOLEAN, made \in [Range(Tasks) -> {"result", "no result"}] : LinkCompiles(match, made)
  BY <1>4, Zenon DEF LinkCompiles, getProgram, CacheMoves
<1>5. ASSUME NEW size \in client.sizes, updateProgram(size) PROVE CacheMoves
  BY <1>1, <1>5, PutMoves, Zenon DEF updateProgram, putProgram
<1>6. ASSUME NEW cached \in BOOLEAN, NEW size \in client.sizes, LinkEnds(cached, size) PROVE CacheMoves
  <2>. DEFINE executable == <<shader.mLastCompiledSource, program.mAttributeBindings,
                              program.mUniformLocationBindings>>
              old == shader.mSource # shader.mLastCompiledSource
  <2>1. cache' \in {cache, put(cache, Entry(linking.hash, executable, size, old))}
    BY <1>6, LinkEndsDoes, Zenon
  <2>. HIDE DEF executable, old
  <2>2. CASE cache' = cache
    BY <2>2, Zenon DEF CacheMoves
  <2>3. CASE cache' = put(cache, Entry(linking.hash, executable, size, old))
    BY <1>1, <2>3, PutMoves, Zenon
  <2>. QED
    BY <2>1, <2>2, <2>3, Zenon
<1>7. CASE \E entry \in Matching : SetCache(put(cache, entry))
  BY <1>7, Zenon DEF SetCache, CacheMoves, Matching, Entries
<1>8. CASE \E limit \in client.limits : Resize(limit) \/ Trim(limit)
  BY <1>1, <1>8, Zenon DEF Resize, Trim, SetCache, CacheMoves
<1>9. CASE Terminate
  BY <1>9, Zenon DEF Terminate, CacheMoves
<1>10. Egl => CacheMoves
  BY <1>7, <1>8, PopulateDoes, Zenon DEF Egl
<1>. QED
  BY <1>2, <1>3, <1>4, <1>5, <1>6, <1>9, <1>10, Zenon DEF CacheNext, Client, Between, Linker

LEMMA SoundStep ==
    ASSUME Counting, Typed, Sound(cache), [CacheNext]_cacheVars
    PROVE  Sound(cache')
<1>. CacheMoves
  BY StepMoves
<1>1. CASE \E entry : entry.size \in Nat /\ cache' = put(cache, entry)
  BY <1>1, putSound
<1>2. CASE \E limit \in Nat : cache' = resize(cache, limit) \/ cache' = shrinkToSize(cache, limit)
  BY <1>2, OthersSound
<1>3. CASE \E hash : cache' = get(cache, hash) \/ cache' = eraseByKey(cache, hash)
  BY <1>3, OthersSound
<1>4. CASE cache' = cache \/ cache' = clear(cache)
  BY <1>4, OthersSound
<1>. QED
  BY <1>1, <1>2, <1>3, <1>4 DEF CacheMoves

-------------------------------------------------------------------------------
(* What is supposed about finite sets follows from the library.            *)

Library == INSTANCE FiniteSetTheorems

LEMMA LeastExists ==
    ASSUME NEW T \in SUBSET Nat, T # {}
    PROVE  \E n \in T : \A m \in T : n <= m
<1>. DEFINE R == Library!OpToRel(<, Nat)
<1>1. Library!IsWellFoundedOn(R, Nat)
  BY Library!NatLessThanWellFounded, Zenon
<1>2. \A x, y \in Nat : x < y => <<x, y>> \in R
  BY DEF Library!OpToRel
<1>. HIDE DEF R
<1>3. PICK x \in T : \A y \in T : ~(<<y, x>> \in R)
  BY <1>1, Library!WFMin, Zenon
<1>4. ASSUME NEW y \in T PROVE x <= y
  <2>1. x \in Nat /\ y \in Nat
    OBVIOUS
  <2>2. ~(y < x)
    BY <1>2, <1>3, <2>1, Zenon
  <2>. QED
    BY <2>1, <2>2
<1>. QED
  BY <1>4

LEMMA CountingHolds == Counting
<1>1. \A S : IsFiniteSet(S) = Library!IsFiniteSet(S)
  BY Zenon DEF IsFiniteSet, Library!IsFiniteSet
<1>2. \A S : Cardinality(S) = Library!Cardinality(S)
  BY Zenon DEF Cardinality, Library!Cardinality
<1>3. /\ IsFiniteSet({})
      /\ \A S : IsFiniteSet(S) => Cardinality(S) \in Nat /\ (Cardinality(S) = 0 <=> S = {})
  BY <1>1, <1>2, Library!FS_EmptySet, Library!FS_CardinalityType
<1>4. \A S, x : IsFiniteSet(S) =>
          /\ IsFiniteSet(S \cup {x})
          /\ Cardinality(S \cup {x}) = IF x \in S THEN Cardinality(S) ELSE Cardinality(S) + 1
  BY <1>1, <1>2, Library!FS_AddElement
<1>5. \A S, x : IsFiniteSet(S) =>
          /\ IsFiniteSet(S \ {x})
          /\ Cardinality(S \ {x}) = IF x \in S THEN Cardinality(S) - 1 ELSE Cardinality(S)
  BY <1>1, <1>2, Library!FS_RemoveElement
<1>6. \A S : \A T \in SUBSET S : IsFiniteSet(S) =>
          /\ IsFiniteSet(T)
          /\ Cardinality(T) <= Cardinality(S)
          /\ Cardinality(S) = Cardinality(T) => S = T
  BY <1>1, <1>2, Library!FS_Subset
<1>7. \A S, T : IsFiniteSet(S) =>
          /\ IsFiniteSet(S \ T)
          /\ Cardinality(S \ T) = Cardinality(S) - Cardinality(S \cap T)
  BY <1>1, <1>2, Library!FS_Difference
<1>8. \A S, T : IsFiniteSet(S) /\ IsFiniteSet(T) => IsFiniteSet(S \X T)
  BY <1>1, Library!FS_Product
<1>9. \A a, b \in Int :
          /\ IsFiniteSet(a .. b)
          /\ Cardinality(a .. b) = IF a > b THEN 0 ELSE b - a + 1
  BY <1>1, <1>2, Library!FS_Interval
<1>. QED
  BY <1>3, <1>4, <1>5, <1>6, <1>7, <1>8, <1>9, LeastExists, Zenon DEF Counting

-------------------------------------------------------------------------------
(* The theorems.                                                           *)

\* However the constants are chosen, and whatever else the client does, no worker
\* task runs once link has returned (ProgramD3D::compileProgramExecutables).
THEOREM TasksAlwaysJoined == CacheSpec => []TasksJoined
<1>1. CacheInit => TaskInv
  BY TaskInvInit
<1>2. TaskInv => TasksJoined
  BY DEF TaskInv
<1>3. TaskInv /\ [CacheNext]_cacheVars => TaskInv'
  BY CountingHolds, TaskInvStep
<1> QED
  BY <1>1, <1>2, <1>3, PTL DEF CacheSpec

\* For all sources, bindings, sizes and limits, and whatever is linked, stored,
\* populated or evicted in whatever order: an entry that is not under the key of what
\* its executable was linked from was stored by a link of a source given after the one
\* that was compiled, by an update after a change, or from such an entry
\* (Program::link, MemoryProgramCache::getProgram, putProgram, updateProgram).
THEOREM EntriesAlwaysMatchUnlessStale == CacheSpec => []EntriesMatchUnlessStale
<1>1. CacheInit => MatchInv
  <2> SUFFICES ASSUME CacheInit PROVE MatchInv
    OBVIOUS
  <2>1. IsCache(cache, Matching)
    <3>1. cache = NewCache(Max(client.limits))
      BY DEF CacheInit
    <3> QED
      BY <3>1 DEF NewCache, IsCache
  <2>2. LinkedMatches /\ LinkingMatches
    BY Zenon DEF CacheInit, NewProgram, LinkedMatches, LinkingMatches, Idle
  <2> QED
    BY <2>1, <2>2, TypedInit, Zenon DEF MatchInv
<1>2. MatchInv /\ [CacheNext]_cacheVars => MatchInv'
  BY CountingHolds, MatchInvStep
<1>3. MatchInv => EntriesMatchUnlessStale
  <2> SUFFICES ASSUME MatchInv, NEW i \in DOMAIN cache.mStore
               PROVE  cache.mStore[i].stale \/ Matches(cache.mStore[i])
    BY DEF EntriesMatchUnlessStale
  <2>1. cache.mStore[i] \in Matching
    BY DEF MatchInv, IsCache
  <2> QED
    BY <2>1, Zenon DEF Matching
<1> QED
  BY <1>1, <1>2, <1>3, PTL DEF CacheSpec

\* The account of the cache is the sum of the sizes of what is in it, the sum is
\* within the limit and no key is in it twice, for all sources, bindings, sizes and
\* limits, and whatever is replaced, evicted, trimmed or dropped while programs link
\* (SizedMRUCache::put, eraseByKey, shrinkToSize, MemoryProgramCache::getProgram).
THEOREM AccountAlwaysExact == CacheSpec => []SizeExact
<1>1. Sound(cache) => SizeExact
  BY DEF Sound, SizedCache, Accounts, DistinctKeys, SizeExact
<1>2. CacheInit => Typed /\ Sound(cache)
  BY CountingHolds, TypedInit, SoundInit
<1>3. Typed /\ Sound(cache) /\ [CacheNext]_cacheVars => Typed' /\ Sound(cache')
  BY CountingHolds, TypedStep, SoundStep
<1>4. Sound(cache') <=> Sound(cache)'
  BY DEF Sound
<1>. QED
  BY <1>1, <1>2, <1>3, <1>4, PTL DEF CacheSpec
===============================================================================
