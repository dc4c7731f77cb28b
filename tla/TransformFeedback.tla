-------------------------- MODULE TransformFeedback --------------------------
(***************************************************************************)
(* The contexts of a share group at work with its shaders and programs,    *)
(* their own transform feedback objects (src/libANGLE/TransformFeedback.cpp*)
(* and the calls of Context.cpp), and one buffer that is drawn from as     *)
(* indices and written to by transform feedback, with the conditions that  *)
(* the validation functions put on each call.                              *)
(*                                                                         *)
(* A transform feedback that is active holds a reference to the program    *)
(* that was current when it began; a context holds one to its current      *)
(* program.  The renderer installs the executable of the current program   *)
(* when a draw finds the context's dirty bit set.                          *)
(***************************************************************************)
EXTENDS Program, Buffer

CONSTANTS
    Contexts,
    Feedbacks,          \* names of transform feedback objects other than 0
    nullptr,
    Clients             \* what the group is used for: the calls, and how many
                        \* contexts, shaders and programs, transform feedback
                        \* objects (but 0) and cached ranges at a time

ASSUME ClientsAssumption ==
    /\ 0 \notin Feedbacks /\ IsFiniteSet(Feedbacks) /\ IsFiniteSet(Contexts)
    /\ nullptr \notin [mActive : BOOLEAN, mPaused : BOOLEAN, mProgram : Names \cup {0},
                      mIndexedBuffer : BOOLEAN]

VARIABLES
    client,             \* the client, one of Clients
    manager,            \* mShaderPrograms
    contexts,           \* from the contexts that exist to their state
    buffer,             \* the buffer
    history             \* what the code takes no notice of, see History

vars == <<client, manager, contexts, buffer, history>>

NewFeedback == [mActive |-> FALSE, mPaused |-> FALSE, mProgram |-> 0, mIndexedBuffer |-> FALSE]

\* executable is DIRTY_BIT_PROGRAM_EXECUTABLE.  installed is the renderer's: that
\* what it would draw with is the executable that mProgram has now.
NewContext ==
    [mProgram |-> 0, executable |-> TRUE, installed |-> FALSE,
     mTransformFeedback |-> 0, mTransformFeedbackMap |-> [t \in {0} |-> NewFeedback]]

Calls(op) == op \in client.operations

\* A context that was not told that its current program has a new executable; a
\* transform feedback, by its context and name, whose program was given a new
\* executable while it was active, with the context that did it, or which was
\* resumed when another program was current; a cached index range that the
\* buffer did not drop when it was written to.
History ==
    ({"untold"} \X Contexts)
    \cup ({"relinked"} \X Contexts \X (Feedbacks \cup {0}) \X Contexts)
    \cup ({"resumed"} \X Contexts \X (Feedbacks \cup {0}))
    \cup ({"unseen"} \X Keys)

\* What the history says of a context, and of one of its transform feedbacks.
Of(c) == {h \in history : h[1] # "unseen" /\ h[2] = c}
OfFeedback(c, t) == {h \in Of(c) : h[1] # "untold" /\ h[3] = t}

\* State::getCurrentTransformFeedback.
Current(x) == x.mTransformFeedbackMap[x.mTransformFeedback]

isTransformFeedbackActiveUnpaused(x) == Current(x).mActive /\ ~Current(x).mPaused

\* Mutant: looks only at the transform feedback that is bound.
hasActiveTransformFeedbackBound(x, p) == Current(x).mProgram = p

hasActiveTransformFeedback(x, p) ==
    \E t \in DOMAIN x.mTransformFeedbackMap :
        x.mTransformFeedbackMap[t] # nullptr /\ x.mTransformFeedbackMap[t].mProgram = p

-------------------------------------------------------------------------------
(* Contexts.                                                               *)

createContext(c) ==
    /\ c \notin DOMAIN contexts /\ Cardinality(DOMAIN contexts) < client.contexts
    /\ contexts' = assign(contexts, c, NewContext)
    /\ UNCHANGED <<client, manager, buffer, history>>

\* Mutant: the transform feedback objects keep their programs.
onDestroyKeepsFeedbacks(m, x) == release(m, x.mProgram)

\* Context::onDestroy: the transform feedback map, then State::reset with the
\* program and the transform feedback that is bound.
onDestroy(m, x) ==
    LET releaseFeedback(t, n) == IF x.mTransformFeedbackMap[t] = nullptr THEN n
                                 ELSE release(n, x.mTransformFeedbackMap[t].mProgram)
        others == FoldSet(releaseFeedback, m,
                          DOMAIN x.mTransformFeedbackMap \ {x.mTransformFeedback})
    IN  releaseFeedback(x.mTransformFeedback, release(others, x.mProgram))

\* The last context of the group takes the manager with it.
destroyContext(c) ==
    LET m == onDestroy(manager, contexts[c])
    IN  /\ contexts' = Restrict(contexts, DOMAIN contexts \ {c})
        /\ manager' = IF DOMAIN contexts' = {} THEN reset(m) ELSE m
        /\ history' = history \ Of(c)
        /\ UNCHANGED <<client, buffer>>

-------------------------------------------------------------------------------
(* Shaders and programs.                                                   *)

Manage(m) == manager' = m /\ UNCHANGED <<client, contexts, buffer, history>>

Free(name) == name \notin InUse(manager) /\ Cardinality(InUse(manager)) < client.names

CreateShader(name, type) ==
    /\ Calls("shaders") /\ Free(name)
    /\ Manage(createShader(manager, name, type))

CreateProgram(name) ==
    /\ Free(name)
    /\ Manage(createProgram(manager, name))

DeleteShader(s) == Calls("shaders") /\ Manage(deleteShader(manager, s))

DeleteProgram(p) == Calls("deleteProgram") /\ Manage(deleteProgram(manager, p))

CompileShader(s, success) == Calls("shaders") /\ Manage(compile(manager, s, success))

AttachShader(p, s) ==
    /\ Calls("shaders")
    /\ manager.mPrograms[p].mAttached[manager.mShaders[s].type] = 0
    /\ Manage(attachShader(manager, p, s))

DetachShader(p, t) ==
    /\ Calls("shaders")
    /\ manager.mPrograms[p].mAttached[t] # 0
    /\ Manage(detachShader(manager, p, t))

\* What every renderer holds of p is no longer p's executable.
Relinked(xs, p) ==
    [c \in DOMAIN xs |-> [xs[c] EXCEPT !.installed = @ /\ xs[c].mProgram # p]]

\* Mutant: the context is not told.
onProgramExecutableChangeMissed(xs, c, m, p) == xs

onProgramExecutableChange(xs, c, m, p) ==
    IF m.mPrograms[p].mLinked /\ xs[c].mProgram = p
    THEN [xs EXCEPT ![c].executable = TRUE] ELSE xs

\* Which contexts draw with p, and which transform feedbacks hold it.
Users(p) == {c \in DOMAIN contexts : contexts[c].mProgram = p}
Holders(p) ==
    {ct \in Contexts \X (Feedbacks \cup {0}) :
        /\ ct[1] \in DOMAIN contexts /\ ct[2] \in DOMAIN contexts[ct[1]].mTransformFeedbackMap
        /\ contexts[ct[1]].mTransformFeedbackMap[ct[2]] # nullptr
        /\ contexts[ct[1]].mTransformFeedbackMap[ct[2]].mProgram = p}

\* Context c has given p a new executable, of which the contexts told know.
NoteRelinked(c, p, told) ==
    history' = (history \ ({"untold"} \X told))
               \cup ({"untold"} \X (Users(p) \ told))
               \cup {<<"relinked", ct[1], ct[2], c>> : ct \in Holders(p)}

\* Only the calling context's transform feedback objects are asked, and only the
\* calling context is told of the new executable, if there is one.
LinkProgram(c, p, hit, success) ==
    LET m == link(manager, p, hit, success)
    IN  /\ Calls("link")
        /\ ~hasActiveTransformFeedback(contexts[c], p)
        /\ manager' = m
        /\ contexts' = onProgramExecutableChange(Relinked(contexts, p), c, m, p)
        /\ NoteRelinked(c, p, IF m.mPrograms[p].mLinked THEN {c} \cap Users(p) ELSE {})
        /\ UNCHANGED <<client, buffer>>

\* Not even the calling context is told.
ProgramBinary(c, p, success) ==
    /\ Calls("binary")
    /\ ~hasActiveTransformFeedback(contexts[c], p)
    /\ manager' = loadBinary(manager, p, success)
    /\ contexts' = Relinked(contexts, p)
    /\ NoteRelinked(c, p, {})
    /\ UNCHANGED <<client, buffer>>

\* State::setProgram.
UseProgram(c, p) ==
    LET x == contexts[c]
    IN  /\ p # 0 => manager.mPrograms[p].mLinked
        /\ ~isTransformFeedbackActiveUnpaused(x)
        /\ p # x.mProgram
        /\ manager' = addRef(release(manager, x.mProgram), p)
        /\ contexts' = [contexts EXCEPT ![c].mProgram = p, ![c].executable = TRUE,
                                        ![c].installed = FALSE]
        /\ history' = history \ {<<"untold", c>>}
        /\ UNCHANGED <<client, buffer>>

-------------------------------------------------------------------------------
(* Transform feedback.                                                     *)

FeedOnly(c, x) == contexts' = [contexts EXCEPT ![c] = x] /\ UNCHANGED <<client, manager, buffer>>

Feed(c, x) == FeedOnly(c, x) /\ UNCHANGED history

SetCurrent(x, tf) == [x EXCEPT !.mTransformFeedbackMap[x.mTransformFeedback] = tf]

GenTransformFeedback(c, t) ==
    LET x == contexts[c]
    IN  /\ Calls("feedback") /\ t \notin DOMAIN x.mTransformFeedbackMap
        /\ Cardinality(DOMAIN x.mTransformFeedbackMap) <= client.feedbacks
        /\ Feed(c, [x EXCEPT !.mTransformFeedbackMap = assign(@, t, nullptr)])

\* checkTransformFeedbackAllocation makes the object on the first bind.
BindTransformFeedback(c, t) ==
    LET x == contexts[c]
    IN  /\ ~isTransformFeedbackActiveUnpaused(x)
        /\ Feed(c, [x EXCEPT !.mTransformFeedback = t,
                             !.mTransformFeedbackMap[t] = IF @ = nullptr THEN NewFeedback ELSE @])

\* Deleting the one that is bound binds 0.
DeleteTransformFeedback(c, t) ==
    LET x == contexts[c]
    IN  /\ t # 0
        /\ x.mTransformFeedbackMap[t] # nullptr => ~x.mTransformFeedbackMap[t].mActive
        /\ Feed(c, [x EXCEPT !.mTransformFeedbackMap = Restrict(@, DOMAIN @ \ {t}),
                             !.mTransformFeedback = IF @ = t THEN 0 ELSE @])

\* Takes a reference to the current program.  The transform feedback has no
\* program yet: it is not active.
BeginTransformFeedback(c) ==
    LET x == contexts[c]
    IN  /\ Calls("feedback")
        /\ ~Current(x).mActive
        /\ ~(Current(x).mIndexedBuffer /\ buffer.mMapped)
        /\ x.mProgram # 0 /\ manager.mPrograms[x.mProgram].mLinked
        /\ contexts' = [contexts EXCEPT ![c] = SetCurrent(x,
               [Current(x) EXCEPT !.mActive = TRUE, !.mPaused = FALSE, !.mProgram = x.mProgram])]
        /\ manager' = addRef(manager, x.mProgram)
        /\ UNCHANGED <<client, buffer, history>>

PauseTransformFeedback(c) ==
    LET x == contexts[c]
    IN  /\ isTransformFeedbackActiveUnpaused(x)
        /\ Feed(c, SetCurrent(x, [Current(x) EXCEPT !.mPaused = TRUE]))

\* Whether the program is still the current one is not asked.
ResumeTransformFeedback(c) ==
    LET x == contexts[c]
    IN  /\ Current(x).mActive /\ Current(x).mPaused
        /\ FeedOnly(c, SetCurrent(x, [Current(x) EXCEPT !.mPaused = FALSE]))
        /\ LET resumed == {<<"resumed", c, x.mTransformFeedback>>}
           IN  history' = IF Current(x).mProgram = x.mProgram THEN history \ resumed
                                                              ELSE history \cup resumed

EndTransformFeedback(c) ==
    LET x == contexts[c]
    IN  /\ Current(x).mActive
        /\ contexts' = [contexts EXCEPT ![c] = SetCurrent(x,
               [Current(x) EXCEPT !.mActive = FALSE, !.mPaused = FALSE, !.mProgram = 0])]
        /\ manager' = release(manager, Current(x).mProgram)
        /\ history' = history \ OfFeedback(c, x.mTransformFeedback)
        /\ UNCHANGED <<client, buffer>>

\* bindBufferBase and bindBufferRange of the indexed binding, with the buffer or 0.
BindIndexedBuffer(c, bound) ==
    LET x == contexts[c]
    IN  /\ Calls("buffers")
        /\ ~Current(x).mActive
        /\ Feed(c, SetCurrent(x, [Current(x) EXCEPT !.mIndexedBuffer = bound]))

-------------------------------------------------------------------------------
(* Draws, and the buffer.                                                  *)

\* The buffer becomes b, part of which was written without its knowing.
Hold(b, part) ==
    /\ buffer' = b
    /\ history' =
           {h \in history : h[1] = "unseen" => h[2] \in DOMAIN b.mIndexRangeCache}
           \cup {<<"unseen", k>> : k \in {k \in DOMAIN b.mIndexRangeCache :
                                           Part(k.offset, k.count) \cap part # {}}}

\* prepareForDraw: the renderer takes the executable of the current program.
syncState(c) ==
    contexts' = [contexts EXCEPT ![c].installed = @ \/ contexts[c].executable,
                                 ![c].executable = FALSE]

\* Writes data to the buffer if it is captured to, and then
\* MarkTransformFeedbackBufferUsage.
DrawArrays(c, data) ==
    LET x == contexts[c]
        captures == isTransformFeedbackActiveUnpaused(x) /\ Current(x).mIndexedBuffer
    IN  /\ Calls("draw")
        /\ x.mProgram # 0
        /\ data = buffer.contents \/ (captures /\ Calls("buffers"))
        /\ syncState(c)
        /\ Hold(IF captures THEN onTransformFeedback(Write(buffer, Offsets, data)) ELSE buffer, {})
        /\ UNCHANGED <<client, manager>>

\* HasIndexRange::getIndexRange, in validation, and the draw.
DrawElements(c, key) ==
    /\ Calls("buffers")
    /\ ~isTransformFeedbackActiveUnpaused(contexts[c])
    /\ contexts[c].mProgram # 0
    /\ ~buffer.mMapped
    /\ Cardinality(DOMAIN buffer.mIndexRangeCache \cup {key}) <= client.ranges
    /\ Hold(getIndexRange(buffer, key), {})
    /\ syncState(c)
    /\ UNCHANGED <<client, manager>>

StorePart(b, part) == Calls("buffers") /\ Hold(b, part) /\ UNCHANGED <<client, manager, contexts>>

Store(b) == StorePart(b, {})

\* ValidateMapBufferBase.
Mappable(c) == Calls("map") /\ ~buffer.mMapped /\ ~(Current(contexts[c]).mActive /\ Current(contexts[c]).mIndexedBuffer)

BufferData(data) == Store(bufferData(buffer, data))

BufferSubData(key, data) ==
    ~buffer.mMapped /\ Store(bufferSubData(buffer, key.offset, key.count, data))

MapBuffer(c) == Mappable(c) /\ Store(map(buffer))

MapBufferRange(c, key, write) == Mappable(c) /\ Store(mapRange(buffer, key.offset, key.count, write))

\* The client writes through its pointer.
WriteMapped(data) == buffer.mMapped /\ Store(Write(buffer, buffer.writable, data))

UnmapBuffer == buffer.mMapped /\ Store(unmap(buffer))

\* glReadPixels with the buffer bound for packing, and for unpacking or not: it
\* drops the ranges of the buffer that is bound for unpacking.
ReadPixels(key, data, unpack) ==
    LET part == Part(key.offset, key.count)
        read == Write(buffer, part, data)
    IN  /\ Calls("readPixels") /\ ~buffer.mMapped
        /\ StorePart(IF unpack THEN onPixelUnpack(read) ELSE read, part)

\* A compute shader stores to the buffer, which drops nothing.  The program is
\* not one of those modelled.  A draw whose shaders store does the same.
dispatchCompute(key, data) ==
    LET part == Part(key.offset, key.count)
    IN  Calls("dispatchCompute") /\ StorePart(Write(buffer, part, data), part)

-------------------------------------------------------------------------------

Init ==
    /\ client \in Clients
    /\ manager = NewManager
    /\ contexts = << >>
    /\ buffer = NewBuffer([i \in Offsets |-> Min(Indices)])
    /\ history = {}

NextContext(c) ==
    \/ destroyContext(c)
    \/ \E name \in Names : CreateProgram(name) \/ \E type \in Types : CreateShader(name, type)
    \/ \E s \in DOMAIN manager.mShaders :
           DeleteShader(s) \/ \E success \in BOOLEAN : CompileShader(s, success)
    \/ \E p \in DOMAIN manager.mPrograms :
           \/ DeleteProgram(p)
           \/ \E s \in DOMAIN manager.mShaders : AttachShader(p, s)
           \/ \E t \in Types : DetachShader(p, t)
           \/ \E hit, success \in BOOLEAN : LinkProgram(c, p, hit, success)
           \/ \E success \in BOOLEAN : ProgramBinary(c, p, success)
    \/ \E p \in DOMAIN manager.mPrograms \cup {0} : UseProgram(c, p)

NextFeedback(c) ==
    \/ \E t \in Feedbacks : GenTransformFeedback(c, t)
    \/ \E t \in DOMAIN contexts[c].mTransformFeedbackMap :
           BindTransformFeedback(c, t) \/ DeleteTransformFeedback(c, t)
    \/ BeginTransformFeedback(c)
    \/ PauseTransformFeedback(c)
    \/ ResumeTransformFeedback(c)
    \/ EndTransformFeedback(c)
    \/ \E bound \in BOOLEAN : BindIndexedBuffer(c, bound)

NextBuffer(c) ==
    \/ \E data \in Contents : DrawArrays(c, data) \/ BufferData(data)
    \/ \E data \in [buffer.writable -> Indices] : WriteMapped(data)
    \/ \E key \in Keys : DrawElements(c, key) \/ \E write \in BOOLEAN : MapBufferRange(c, key, write)
    \/ \E key \in Keys : \E data \in [Part(key.offset, key.count) -> Indices] :
           \/ BufferSubData(key, data)
           \/ \E unpack \in BOOLEAN : ReadPixels(key, data, unpack)
           \/ dispatchCompute(key, data)
    \/ MapBuffer(c)
    \/ UnmapBuffer

Next ==
    \/ \E c \in Contexts : createContext(c)
    \/ \E c \in DOMAIN contexts : NextContext(c) \/ NextFeedback(c) \/ NextBuffer(c)

Spec == Init /\ [][Next]_vars

-------------------------------------------------------------------------------

\* Every count is the number of references: a program's those of contexts and
\* transform feedback objects, a shader's those of programs.  Every reference is
\* to an object that exists, no name is both a shader's and a program's, and an
\* object that is flagged for deletion is still referenced (Program::release,
\* Shader::release, deleteObject).  So the loops of ShaderProgramManager::reset,
\* which run until both maps are empty, end: nothing outlives the last context.
ReferencesCounted ==
    LET ps == manager.mPrograms
        ss == manager.mShaders
    IN  /\ DOMAIN ps \cap DOMAIN ss = {}
        /\ \A p \in Names \ DOMAIN ps : Users(p) = {} /\ Holders(p) = {}
        /\ \A p \in DOMAIN ps :
               /\ ps[p].mRefCount = Cardinality(Users(p)) + Cardinality(Holders(p))
               /\ ps[p].mDeleteStatus => ps[p].mRefCount > 0
               /\ \A t \in Types : LET s == ps[p].mAttached[t]
                                   IN  s = 0 \/ (s \in DOMAIN ss /\ ss[s].type = t)
        /\ \A s \in DOMAIN ss :
               /\ ss[s].mRefCount =
                      Cardinality({p \in DOMAIN ps : ps[p].mAttached[ss[s].type] = s})
               /\ ss[s].mDeleteStatus => ss[s].mRefCount > 0
        /\ DOMAIN contexts = {} => InUse(manager) = {}

\* A renderer that no dirty bit tells otherwise draws with the executable that
\* the current program has now, unless the program was loaded from a binary or
\* linked by another context since (State::setProgram and
\* State::onProgramExecutableChange, which is called by linkProgram alone and
\* for the calling context alone).  The comment in onProgramExecutableChange asks
\* it of ProgramBinary as well, which tells no context.
ExecutableInstalled ==
    \A c \in DOMAIN contexts :
        LET x == contexts[c]
        IN  x.mProgram # 0 /\ manager.mPrograms[x.mProgram].mLinked /\ ~x.executable =>
                x.installed \/ <<"untold", c>> \in history

\* The program of an active transform feedback, bound or not, is given no new
\* executable by its own context, and stays linked unless another context links
\* it (hasActiveTransformFeedback).  A transform feedback that captures is the
\* one that is bound, and captures from the current program unless it was resumed
\* under another one, which ValidateResumeTransformFeedback lets pass
\* (ValidateUseProgram, ValidateBindTransformFeedback).
FeedbackProgramKept ==
    \A c \in DOMAIN contexts : \A t \in DOMAIN contexts[c].mTransformFeedbackMap :
        LET x == contexts[c]
            tf == x.mTransformFeedbackMap[t]
            relinkers == {d \in Contexts : <<"relinked", c, t, d>> \in history}
        IN  tf # nullptr /\ tf.mActive =>
                /\ tf.mProgram # 0
                /\ c \notin relinkers
                /\ manager.mPrograms[tf.mProgram].mLinked \/ relinkers # {}
                /\ ~tf.mPaused =>
                       /\ t = x.mTransformFeedback
                       /\ tf.mProgram = x.mProgram \/ <<"resumed", c, t>> \in history

\* A cached index range is that of the indices now in the buffer, through however
\* old a pointer they were written, unless glReadPixels or a shader's stores wrote
\* some of them, of which the buffer is not told: drawElements is validated, and
\* its vertices translated, by the range that its indices have (IndexRangeCache).
CachedRangesExact ==
    \A key \in DOMAIN buffer.mIndexRangeCache :
        \/ buffer.mIndexRangeCache[key] = ComputeIndexRange(buffer.contents, key)
        \/ <<"unseen", key>> \in history
===============================================================================
