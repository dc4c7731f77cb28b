------------------------------ MODULE RendererVk -------------------------------
(***************************************************************************)
(* Resource lifetimes in the Vulkan renderer (src/libANGLE/renderer/       *)
(* vulkan): commands that refer to Vulkan handles are recorded into one    *)
(* command buffer, submitted to the queue under a serial, and run on the   *)
(* GPU some time later.  A GL object stores the serial of the last         *)
(* commands that use it (ResourceVk); the handle it gives up goes to       *)
(* mGarbage with that serial, and is destroyed when a fence shows that the *)
(* serial is complete.                                                     *)
(*                                                                         *)
(* An object has one handle here; its buffer, memory, view and so on are   *)
(* released together.  There is one vertex array, with one attribute.  The *)
(* pipeline and the program's own buffers are left out, and contexts draw  *)
(* and read only while there is a window surface.                          *)
(***************************************************************************)
EXTENDS Integers, FiniteSets, Sequences, Functions

CONSTANTS
    Buffers, Textures, Framebuffers, Surfaces,  \* addresses of the impls
    attachment,     \* per framebuffer, the texture attached to it or, for a
                    \* default framebuffer, its window surface (mBackbuffer)
    NumHandles,     \* bound: Vulkan handles there are
    null,
    Clients         \* what a client calls; bounds: how many handles there may
                    \* be, and the last serial

ASSUME RendererVkAssumption ==
    /\ attachment \in [Framebuffers -> Textures \cup Surfaces]
    /\ Buffers \cap Textures = {} /\ (Buffers \cup Textures) \cap Framebuffers = {}
    /\ Surfaces \cap (Buffers \cup Textures \cup Framebuffers) = {}
    /\ null \notin Buffers \cup Framebuffers \cup Textures /\ null \notin 1..NumHandles
    /\ NumHandles \in Nat
    /\ \A c \in Clients : /\ c.operations \subseteq STRING
                         /\ c.handles \in 0..NumHandles /\ c.serials \in Nat

VARIABLES
    client,         \* one of Clients, the same throughout
    handle,         \* per object, its Vulkan handle
    mStoredQueueSerial,     \* per object
    view,           \* per framebuffer, the image its handle was created with
    dirty,          \* the framebuffers with dirty bits
    vertexBuffer, vertexHandle,     \* the vertex array's mCurrentVkBuffersCache
                                    \* and mCurrentVertexBufferHandlesCache
    allocated,      \* the handles that are not destroyed
    mGarbage,
    started, recording, inRenderPass,   \* mCommandBuffer: the handles its
                                        \* commands use, and the pass it is in
    mCurrentRenderPassFramebuffer,
    mCurrentQueueSerial,
    mInFlightCommands, mInFlightFences,
    completed       \* the serial that the GPU has completed

objectVars == <<handle, mStoredQueueSerial, view, dirty, vertexBuffer, vertexHandle,
                allocated, mGarbage>>
commandVars == <<started, recording, inRenderPass, mCurrentRenderPassFramebuffer>>
queueVars == <<mCurrentQueueSerial, mInFlightCommands, mInFlightFences>>
vars == <<client, objectVars, commandVars, queueVars, completed>>

Objects == Buffers \cup Textures \cup Framebuffers \cup Surfaces
DefaultFramebuffers == {f \in Framebuffers : attachment[f] \in Surfaces}
Handles == 1..NumHandles
InvalidSerial == 0
mLastCompletedQueueSerial == 1      \* the constructor's; never assigned again

Init ==
    /\ client \in Clients
    /\ handle = [o \in Objects |-> null]
    /\ mStoredQueueSerial = [o \in Objects |-> InvalidSerial]
    /\ view = [f \in Framebuffers |-> null]
    /\ dirty = Framebuffers
    /\ vertexBuffer = null
    /\ vertexHandle = null
    /\ allocated = {}
    /\ mGarbage = <<>>
    /\ started = FALSE
    /\ recording = {}
    /\ inRenderPass = FALSE
    /\ mCurrentRenderPassFramebuffer = null
    /\ mCurrentQueueSerial = mLastCompletedQueueSerial + 1
    /\ mInFlightCommands = <<>>
    /\ mInFlightFences = <<>>
    /\ completed = mLastCompletedQueueSerial

-------------------------------------------------------------------------------
\* The calls below change a world: the renderer's state but for the GPU's.

World ==
    [handle |-> handle, serial |-> mStoredQueueSerial, view |-> view,
     dirty |-> dirty, vertexBuffer |-> vertexBuffer, vertexHandle |-> vertexHandle,
     allocated |-> allocated, garbage |-> mGarbage,
     started |-> started, recording |-> recording, inPass |-> inRenderPass,
     pass |-> mCurrentRenderPassFramebuffer,
     current |-> mCurrentQueueSerial, commands |-> mInFlightCommands,
     fences |-> mInFlightFences]

Become(w) ==
    /\ UNCHANGED client
    /\ handle' = w.handle
    /\ mStoredQueueSerial' = w.serial
    /\ view' = w.view
    /\ dirty' = w.dirty
    /\ vertexBuffer' = w.vertexBuffer
    /\ vertexHandle' = w.vertexHandle
    /\ allocated' = w.allocated
    /\ mGarbage' = w.garbage
    /\ started' = w.started
    /\ recording' = w.recording
    /\ inRenderPass' = w.inPass
    /\ mCurrentRenderPassFramebuffer' = w.pass
    /\ mCurrentQueueSerial' = w.current
    /\ mInFlightCommands' = w.commands
    /\ mInFlightFences' = w.fences

\* The handles that are not destroyed, that commands use, and that are cached.
Named(w) ==
    {h \in Handles :
        \/ h \in w.allocated \cup w.recording
        \/ \E c \in Range(w.commands) : h \in c.used
        \/ h = w.vertexHandle \/ \E f \in Framebuffers : h = w.view[f]}

\* A handle that vkCreate* may return.  What a command or a cache names by a
\* destroyed handle does not become valid again through a new one.
NewHandle(w) == CHOOSE h \in Handles : h \notin Named(w)

CreateHandle(w, o) ==
    [w EXCEPT !.handle[o] = NewHandle(w), !.allocated = @ \cup {NewHandle(w)}]

getStartedCommandBuffer(w) == [w EXCEPT !.started = TRUE]

Record(w, used) == [w EXCEPT !.recording = @ \cup used]

endRenderPass(w) == [w EXCEPT !.pass = null, !.inPass = FALSE]

onReleaseRenderPass(w, f) == IF w.pass = f THEN endRenderPass(w) ELSE w

isSerialInUse(serial) == serial > mLastCompletedQueueSerial

releaseObject(w, serial, h) ==
    IF isSerialInUse(serial)
    THEN [w EXCEPT !.garbage = Append(@, [serial |-> serial, handle |-> h])]
    ELSE [w EXCEPT !.allocated = @ \ {h}]

\* Mutant: the object keeps the handle it has given up.
releaseResourceKeeps(w, o) ==
    IF w.handle[o] = null THEN w ELSE releaseObject(w, w.serial[o], w.handle[o])

releaseResource(w, o) ==
    IF w.handle[o] = null THEN w
    ELSE [releaseObject(w, w.serial[o], w.handle[o]) EXCEPT !.handle[o] = null]

\* A handle used by the commands being recorded and by nothing else: a staging
\* buffer or image.
RecordStaging(w, used) ==
    LET h == NewHandle(w)
    IN  releaseObject(Record([w EXCEPT !.allocated = @ \cup {h}], used \cup {h}),
                      w.current, h)

-------------------------------------------------------------------------------
\* The queue.

submit(w) ==
    [w EXCEPT !.commands = Append(@, [serial |-> w.current, used |-> w.recording]),
              !.started = FALSE, !.recording = {}, !.inPass = FALSE,
              !.current = @ + 1]

DestroyGarbage(w, n) ==
    [w EXCEPT !.allocated = @ \ {w.garbage[i].handle : i \in 1..n},
              !.garbage = SubSeq(@, n + 1, Len(@))]

\* vkQueueWaitIdle, then freeAllInFlightResources.
finish(w) == [DestroyGarbage(w, Len(w.garbage)) EXCEPT !.commands = <<>>, !.fences = <<>>]

\* How many elements at the head of s satisfy P.
HeadCount(s, P(_)) ==
    CHOOSE n \in 0..Len(s) : (\A i \in 1..n : P(s[i])) /\ (n < Len(s) => ~P(s[n + 1]))

\* checkInFlightCommands, given the finished serial that the fences show, which
\* commands it destroys and which garbage.
Reclaim(w, finished, Complete(_, _), Free(_, _)) ==
    LET serial == w.fences[finished]
        commands == HeadCount(w.commands, LAMBDA c : Complete(c.serial, serial))
        v == [w EXCEPT !.fences = SubSeq(@, finished + 1, Len(@)),
                       !.commands = SubSeq(@, commands + 1, Len(@))]
    IN  IF finished = 0 THEN w
        ELSE IF commands = 0 THEN v
        ELSE DestroyGarbage(v, HeadCount(v.garbage, LAMBDA g : Free(g.serial, serial)))

SignalledFences(w) == HeadCount(w.fences, LAMBDA s : s <= completed)

\* Mutants: garbage of the serial after the finished one goes too; so do the
\* commands; the commands of the finished serial stay.
checkInFlightCommandsEarlyGarbage(w) ==
    Reclaim(w, SignalledFences(w), LAMBDA s, t : s <= t, LAMBDA s, t : s <= t + 1)
checkInFlightCommandsEarly(w) ==
    Reclaim(w, SignalledFences(w), LAMBDA s, t : s <= t + 1, LAMBDA s, t : s <= t)
checkInFlightCommandsLate(w) ==
    Reclaim(w, SignalledFences(w), LAMBDA s, t : s < t, LAMBDA s, t : s <= t)

checkInFlightCommands(w) ==
    Reclaim(w, SignalledFences(w), LAMBDA s, t : s <= t, LAMBDA s, t : s <= t)

\* submitCommandsWithSync.
submitFrame(w) ==
    checkInFlightCommands([submit(w) EXCEPT !.fences = Append(@, w.current)])

-------------------------------------------------------------------------------
\* Framebuffers.

\* FramebufferVk::syncState, when the framebuffer has dirty bits.
syncState(w, f) ==
    IF f \notin w.dirty THEN w
    ELSE [onReleaseRenderPass(releaseResource(w, f), f) EXCEPT !.dirty = @ \ {f}]

\* FramebufferVk::getFramebuffer: the handle is kept while it is valid.  That of a
\* default framebuffer is its render pass; the framebuffers and views are the
\* surface's (WindowSurfaceVk::getCurrentFramebuffer).
getFramebuffer(w, f) ==
    IF w.handle[f] # null THEN w
    ELSE IF f \in DefaultFramebuffers THEN CreateHandle(w, f)
    ELSE [CreateHandle(w, f) EXCEPT !.view[f] = w.handle[attachment[f]]]

\* What a render pass on f uses.
Target(w, f) ==
    {w.handle[f], IF f \in DefaultFramebuffers THEN w.handle[attachment[f]] ELSE w.view[f]}

\* Mutant: the serial of the attachment is not recorded.
beginRenderPassNoSerial(w, f) ==
    LET v == getFramebuffer(w, f)
    IN  [Record(v, Target(v, f)) EXCEPT !.serial[f] = v.current, !.inPass = TRUE]

beginRenderPass(w, f) ==
    LET v == getFramebuffer(w, f)
    IN  [Record(v, Target(v, f)) EXCEPT
            !.serial[attachment[f]] = v.current,
            !.serial[f] = v.current,
            !.inPass = TRUE]

ensureInRenderPass(w, f) ==
    IF w.pass = f THEN w
    ELSE [beginRenderPass(endRenderPass(w), f) EXCEPT !.pass = f]

\* VertexArrayVk::syncState, when the attribute has been specified again, with
\* buffer b.
syncVertexArray(w, b) ==
    IF b = null THEN w ELSE [w EXCEPT !.vertexBuffer = b, !.vertexHandle = w.handle[b]]

\* ContextVk::setupDraw, after the framebuffer and the vertex array have been
\* synchronized, with a program that samples texture x.  A serial is stored on
\* the cached vertex buffer; none is on the texture.  The descriptor set has the
\* texture's handles of now: a new image sets mDirtyTextures.
setupDraw(w, f, b, x) ==
    LET u == syncVertexArray(syncState(w, f), b)
        v == ensureInRenderPass(getStartedCommandBuffer(u), f)
    IN  [Record(v, {v.vertexHandle} \cup {v.handle[y] : y \in {x} \ {null}}) EXCEPT
            !.serial[v.vertexBuffer] = v.current]

-------------------------------------------------------------------------------
\* Client operations.

\* A step of the client: an operation of the model, with handles to spare, in a
\* context that has a window surface.
Client(operation) ==
    /\ operation \in client.operations
    /\ Cardinality(Named(World)) + 2 <= client.handles
    /\ \E s \in Surfaces : handle[s] # null
    /\ UNCHANGED completed

Drawable(f) == handle[attachment[f]] # null

\* BufferVk::setDataImpl: through a staging buffer if the buffer is in use.
\* The render pass is ended before the command buffer is started.
setDataImpl(w, b) ==
    IF ~isSerialInUse(w.serial[b]) THEN w
    ELSE LET v == getStartedCommandBuffer(endRenderPass(w))
         IN  [RecordStaging(v, {v.handle[b]}) EXCEPT !.serial[b] = v.current]

\* glBufferData that asks for more room than the buffer has.
bufferData(b, data) ==
    /\ Client("data")
    /\ LET w == CreateHandle(releaseResource(World, b), b)
       IN  Become(IF data THEN setDataImpl(w, b) ELSE w)

\* glBufferSubData, or glBufferData that fits.
bufferSubData(b) ==
    /\ Client("data")
    /\ handle[b] # null
    /\ Become(setDataImpl(World, b))

\* TextureVk::setImage: pixels go through a staging image.
setImagePixels(w, x) ==
    LET v == endRenderPass(getStartedCommandBuffer(w))
    IN  [RecordStaging(v, {v.handle[x]}) EXCEPT !.serial[x] = v.current]

\* glTexImage2D: storage of the same size and format is kept.  The framebuffers
\* that the texture is attached to get no dirty bit.
texImage2D(x, sameSize, pixels) ==
    /\ Client(IF ~sameSize /\ \E f \in Framebuffers : attachment[f] = x /\ handle[f] # null
              THEN "redefineAttached" ELSE "texImage")
    /\ sameSize => handle[x] # null
    /\ LET w == IF sameSize THEN World ELSE CreateHandle(releaseResource(World, x), x)
       IN  Become(IF pixels THEN setImagePixels(w, x) ELSE w)

\* The last reference to object o goes: BufferVk::destroy, TextureVk::onDestroy
\* (a texture is detached from its framebuffers first, which gives them a dirty
\* bit, and a buffer from the vertex array) or FramebufferVk::destroy.  A new
\* object may have the same address.
destroy(o) ==
    /\ handle[o] # null
    /\ Client("delete")
    /\ LET w == [releaseResource(World, o) EXCEPT
                    !.serial[o] = InvalidSerial,
                    !.dirty = @ \cup {f \in Framebuffers : f = o \/ attachment[f] = o}]
       IN  Become(IF o = vertexBuffer
                  THEN [w EXCEPT !.vertexBuffer = null, !.vertexHandle = null] ELSE w)

\* A draw from buffer b, or if that is null from the vertex array as it was, that
\* samples texture x, or none if that is null.  A texture that is drawn to is not
\* in the complete textures (State::syncProgramTextures), which have to have x.
CanDraw(f, b, x) ==
    /\ Drawable(f)
    /\ IF b = null THEN vertexBuffer # null ELSE handle[b] # null
    /\ x # null => handle[x] # null /\ attachment[f] # x

DrawOperation(b, x) ==
    IF x # null THEN "drawTextured"
    ELSE IF b = null /\ vertexHandle # handle[vertexBuffer] THEN "drawStale"
    ELSE "draw"

drawArrays(f, b, x) ==
    /\ CanDraw(f, b, x)
    /\ Client(DrawOperation(b, x))
    /\ Become(setupDraw(World, f, b, x))

\* drawElements also uses element array buffer e, whose serial it leaves.
drawElements(f, b, x, e) ==
    /\ Client("drawElements")
    /\ CanDraw(f, b, x) /\ handle[e] # null
    /\ Become(Record(setupDraw(World, f, b, x), {handle[e]}))

\* glClear uses the attached image, whose serial it leaves.
clear(f) ==
    /\ Client("clear")
    /\ Drawable(f)
    /\ Become(Record(getStartedCommandBuffer(syncState(World, f)), {handle[attachment[f]]}))

\* glReadPixels: the copy to a staging image is submitted and waited for.  The
\* staging image is released under the serial of the next commands.
readPixels(f) ==
    /\ mCurrentQueueSerial < client.serials
    /\ "readPixels" \in client.operations
    /\ Cardinality(Named(World)) + 2 <= client.handles
    /\ Drawable(f)
    /\ LET u == endRenderPass(getStartedCommandBuffer(syncState(World, f)))
           staging == NewHandle(u)
           v == Record([u EXCEPT !.allocated = @ \cup {staging}],
                       {u.handle[attachment[f]], staging})
           done == finish(submit(v))
       IN  Become(releaseObject(done, done.current, staging))
    /\ completed' = mCurrentQueueSerial

\* Mutant: the frame is submitted inside its render pass.
swapInPass(s) ==
    /\ mCurrentQueueSerial < client.serials
    /\ "swap" \in client.operations
    /\ handle[s] # null
    /\ Become(submitFrame(Record(getStartedCommandBuffer(World), {handle[s]})))
    /\ UNCHANGED completed

\* WindowSurfaceVk::swap, which uses the surface's image.
swap(s) ==
    /\ mCurrentQueueSerial < client.serials
    /\ "swap" \in client.operations
    /\ handle[s] # null
    /\ Become(submitFrame(Record(endRenderPass(getStartedCommandBuffer(World)), {handle[s]})))
    /\ UNCHANGED completed

\* WindowSurfaceVk::initializeImpl clears the new images with commands that are
\* submitted, without ending the render pass, and waited for.
createWindowSurface(s) ==
    /\ mCurrentQueueSerial < client.serials
    /\ (IF mCurrentRenderPassFramebuffer = null THEN "createWindowSurface"
        ELSE "createWindowSurfaceInPass") \in client.operations
    /\ handle[s] = null
    /\ Cardinality(Named(World)) + 2 <= client.handles
    /\ LET w == CreateHandle(getStartedCommandBuffer(World), s)
       IN  Become(finish(submit(Record(w, {w.handle[s]}))))
    /\ completed' = mCurrentQueueSerial

\* Surface::destroyImpl: the default framebuffer is destroyed at once
\* (FramebufferVk::destroyDefault), and the surface when what has been submitted is
\* complete.  Commands that are being recorded are not looked at.
destroyWindowSurface(s) ==
    /\ (IF recording = {} /\ completed + 1 = mCurrentQueueSerial THEN "destroyWindowSurface"
        ELSE "destroyWindowSurfaceInUse") \in client.operations
    /\ handle[s] # null
    /\ LET gone == {s} \cup {f \in Framebuffers : attachment[f] = s}
           w == finish(World)
       IN  Become([w EXCEPT !.allocated = @ \ {handle[o] : o \in gone},
                            !.handle = [o \in Objects |-> IF o \in gone THEN null ELSE @[o]],
                            !.serial = [o \in Objects |->
                                           IF o \in gone THEN InvalidSerial ELSE @[o]],
                            !.dirty = @ \cup (gone \ {s})])
    /\ completed' = mCurrentQueueSerial - 1

\* The GPU completes the next command buffer; its fence, if any, is signalled.
GpuCompletes ==
    /\ completed + 1 < mCurrentQueueSerial
    /\ completed' = completed + 1
    /\ UNCHANGED <<client, objectVars, commandVars, queueVars>>

Next ==
    \/ \E b \in Buffers : \/ \E data \in BOOLEAN : bufferData(b, data)
                         \/ bufferSubData(b)
    \/ \E x \in Textures, sameSize, pixels \in BOOLEAN : texImage2D(x, sameSize, pixels)
    \/ \E o \in Buffers \cup Textures \cup Framebuffers : destroy(o)
    \/ \E f \in Framebuffers, b \in Buffers \cup {null}, x \in Textures \cup {null} :
           drawArrays(f, b, x) \/ \E e \in Buffers : drawElements(f, b, x, e)
    \/ \E f \in Framebuffers : clear(f) \/ readPixels(f)
    \/ \E s \in Surfaces : swap(s) \/ createWindowSurface(s) \/ destroyWindowSurface(s)
    \/ GpuCompletes

Spec == Init /\ [][Next]_vars

-------------------------------------------------------------------------------
\* Properties.

\* The operations that store a serial on every buffer, texture and framebuffer
\* that their commands use, and leave none of their commands unsubmitted or in a
\* render pass when they wait for the queue.  A draw is one of them if its program
\* samples no texture, its vertex buffer still has the storage that the vertex
\* array has cached, and it has no element array buffer.
TrackedOperations ==
    {"data", "texImage", "delete", "draw", "readPixels", "swap", "createWindowSurface",
     "destroyWindowSurface"}

Tracked == client.operations \subseteq TrackedOperations

Pending == {c \in Range(mInFlightCommands) : c.serial > completed}

\* No handle is destroyed while commands that use it are being recorded or have
\* not completed on the GPU: what the serials, the fences and the garbage queue
\* of ResourceVk are for.  It is so for the operations of TrackedOperations.
NoDestroyInUse ==
    Tracked => recording \cup UNION {c.used : c \in Pending} \subseteq allocated

\* A buffer, texture or framebuffer whose handle is used by the commands being
\* recorded, or by commands that have not completed, has stored their serial or a
\* later one: releasing it now (releaseResource) cannot take it for unused.
SerialRecorded ==
    Tracked => \A o \in Objects \ Surfaces : handle[o] # null =>
        /\ handle[o] \in recording => mStoredQueueSerial[o] = mCurrentQueueSerial
        /\ \A c \in Pending : handle[o] \in c.used => mStoredQueueSerial[o] >= c.serial

\* While the renderer believes that it is in a framebuffer's render pass, the
\* command buffer is started and in a render pass: endRenderPass's
\* ASSERT(mCommandBuffer.started()), and draws go inside a pass.
RenderPassOpen ==
    Tracked /\ mCurrentRenderPassFramebuffer # null => started /\ inRenderPass

\* Every handle that has not been destroyed is held by one object or is once in
\* the garbage queue: releaseResource neither leaks a handle nor leaves it to be
\* destroyed twice.
HandleHeldOnce ==
    /\ \A o, p \in Objects : handle[o] # null /\ handle[o] = handle[p] => o = p
    /\ \A i, j \in DOMAIN mGarbage : mGarbage[i].handle = mGarbage[j].handle => i = j
    /\ LET held == {handle[o] : o \in Objects} \ {null}
           waiting == {g.handle : g \in Range(mGarbage)}
       IN  held \cap waiting = {} /\ allocated = held \cup waiting

\* A command buffer is kept in mInFlightCommands until the GPU has completed it.
PendingCommandsKept ==
    \A s \in completed + 1 .. mCurrentQueueSerial - 1 :
        \E c \in Range(mInFlightCommands) : c.serial = s

\* Between operations the command buffers in flight are the ones that a fence in
\* flight stands for, in the same order: each will be seen to complete and be
\* reclaimed by checkInFlightCommands.
CommandsMatchFences ==
    [i \in DOMAIN mInFlightCommands |-> mInFlightCommands[i].serial] = mInFlightFences
===============================================================================
