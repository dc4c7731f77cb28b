------------------------------ MODULE Framebuffer ------------------------------
(***************************************************************************)
(* Textures that the contexts of a share group attach to their             *)
(* framebuffers (src/libANGLE/Framebuffer.cpp, FramebufferAttachment.cpp,  *)
(* Texture.cpp, signal_utils.h).  A framebuffer caches its completeness    *)
(* and, for robust resource initialization, whether its attachment may     *)
(* need to be cleared; a texture that changes tells the framebuffers that  *)
(* are bound to its dirty channel, those of other contexts included.       *)
(*                                                                         *)
(* Every context has one framebuffer, bound for drawing and for reading,   *)
(* with one color attachment, and one texture unit; its program samples    *)
(* nothing.  Images have a renderable format.                              *)
(***************************************************************************)
EXTENDS Texture

CONSTANTS
    Contexts,
    Textures,       \* addresses a Texture can be allocated at
    null,
    Clients         \* the operations a client uses, of the ones that are named
                    \* below, and the last level that it gives an image

ASSUME ClientsAssumption ==
    /\ \A c \in Clients : c.operations \subseteq STRING /\ c.level \in Levels
    /\ null \notin Textures

VARIABLES
    client,         \* one of Clients, the same throughout
    texture,        \* per address, the texture's images
    named,          \* the textures that have a name
    bound,          \* per context, the texture of the unit; null: texture zero
    framebuffer     \* per context

vars == <<client, texture, named, bound, framebuffer>>

NewFramebuffer ==
    [mResource |-> null, mipLevel |-> 0,    \* the attachment
     mChannel |-> null,                     \* mDirtyColorAttachmentBindings[0]
     dirty |-> FALSE,                       \* mDirtyBits.any()
     mCachedStatus |-> "invalid",
     mResourceNeedsInit |-> FALSE,
     mDrawBufferState |-> TRUE,             \* FALSE for GL_NONE
     mEnabledDrawBuffers |-> FALSE]

Init ==
    /\ client \in Clients
    /\ texture = [t \in Textures |-> NewTexture]
    /\ named = {}
    /\ bound = [c \in Contexts |-> null]
    /\ framebuffer = [c \in Contexts |-> NewFramebuffer]

isAttached(f) == f.mResource # null

AttachedImage(xs, f) == xs[f.mResource].mImageDescs[f.mipLevel]

\* A texture lives while it has a name or is bound or attached.
Referenced(t, names, bindings, fs) ==
    \/ t \in names
    \/ \E c \in Contexts : bindings[c] = t \/ fs[c].mResource = t

\* Textures xs, names, bindings and framebuffers fs, once the textures without a
\* reference are destroyed: their channels close.
Become(xs, names, bindings, fs) ==
    LET live == {t \in Textures : Referenced(t, names, bindings, fs)}
    IN  /\ UNCHANGED client
        /\ texture' = [t \in Textures |-> IF t \in live THEN xs[t] ELSE NewTexture]
        /\ named' = names
        /\ bound' = bindings
        /\ framebuffer' = [c \in Contexts |->
              IF fs[c].mChannel \in live THEN fs[c] ELSE [fs[c] EXCEPT !.mChannel = null]]

-------------------------------------------------------------------------------
\* The framebuffer.

CheckAttachmentCompleteness(x, level) ==
    /\ x.mImageDescs[level].size # 0
    /\ \/ x.mImmutableLevels > 0
       \/ level = x.mBaseLevel
       \/ /\ level > x.mBaseLevel
          /\ BaseImage(x).size # 0 => level <= getMipmapMaxLevel(x)
          /\ computeMipmapCompleteness(x)

Status(xs, f) ==
    IF ~isAttached(f) THEN "missing attachment"
    ELSE IF ~CheckAttachmentCompleteness(xs[f.mResource], f.mipLevel)
    THEN "incomplete attachment"
    ELSE "complete"

syncState(f) == IF f.dirty THEN [f EXCEPT !.dirty = FALSE, !.mCachedStatus = "invalid"] ELSE f

\* The framebuffer once its status is asked for.  Only a complete one syncs
\* its state, and with it clears its dirty bits.
checkStatus(xs, f) ==
    LET status == Status(xs, f)
    IN  IF ~f.dirty /\ f.mCachedStatus # "invalid" THEN f
        ELSE [(IF status = "complete" THEN syncState(f) ELSE f) EXCEPT !.mCachedStatus = status]

Complete(xs, f) == checkStatus(xs, f).mCachedStatus = "complete"

\* Mutant: the cached status is kept.
signalKeepsStatus(f, initState) ==
    [f EXCEPT !.mResourceNeedsInit = initState = "MayNeedInit"]

signal(f, initState) ==
    [f EXCEPT !.mCachedStatus = "invalid",
              !.mResourceNeedsInit = initState = "MayNeedInit"]

\* Texture t signals the framebuffers that are bound to its channel.
signalDirty(fs, t, initState) ==
    [c \in Contexts |-> IF fs[c].mChannel = t THEN signal(fs[c], initState) ELSE fs[c]]

\* Mutant: the needs-init bit stays as it was.
updateAttachmentOldBit(xs, f, t, level) ==
    [f EXCEPT !.mResource = t, !.mipLevel = level, !.dirty = TRUE, !.mChannel = t]

\* Level of texture t, or of none, is attached.
updateAttachment(xs, f, t, level) ==
    [f EXCEPT !.mResource = t, !.mipLevel = level, !.dirty = TRUE, !.mChannel = t,
              !.mResourceNeedsInit = t # null /\ xs[t].mImageDescs[level].initState = "MayNeedInit"]

setAttachmentImpl(xs, f, t, level) ==
    [updateAttachment(xs, f, t, level) EXCEPT
        !.mEnabledDrawBuffers = t # null /\ f.mDrawBufferState]

\* The texture is deleted.  The channel and the enabled draw buffers are left.
detachMatchingAttachment(f, t) ==
    IF f.mResource # t THEN f
    ELSE [f EXCEPT !.mResource = null, !.mipLevel = 0, !.dirty = TRUE,
                   !.mResourceNeedsInit = FALSE]

setDrawBuffers(f, draw) ==
    [f EXCEPT !.dirty = TRUE, !.mDrawBufferState = draw,
              !.mEnabledDrawBuffers = draw /\ isAttached(f)]

-------------------------------------------------------------------------------
\* Robust resource initialization.  These give the textures and the framebuffer.

InitAttachment(xs, f) ==
    IF AttachedImage(xs, f).initState = "Initialized" THEN xs
    ELSE [xs EXCEPT ![f.mResource] =
            setInitState(initializeContents(@, f.mipLevel), f.mipLevel, "Initialized")]

\* For drawing, and, with one attachment, for reading.
ensureAttachmentInitialized(xs, f) ==
    IF ~f.mResourceNeedsInit THEN [xs |-> xs, f |-> f]
    ELSE [xs |-> InitAttachment(xs, f), f |-> [f EXCEPT !.mResourceNeedsInit = FALSE]]

\* Mutant: what is not enabled is marked too.
markDrawAttachmentsInitializedAll(xs, f) ==
    [xs |-> [xs EXCEPT ![f.mResource] = setInitState(@, f.mipLevel, "Initialized")],
     f |-> [f EXCEPT !.mResourceNeedsInit = FALSE]]

markDrawAttachmentsInitialized(xs, f) ==
    IF ~f.mEnabledDrawBuffers THEN [xs |-> xs, f |-> f]
    ELSE [xs |-> [xs EXCEPT ![f.mResource] = setInitState(@, f.mipLevel, "Initialized")],
          f |-> [f EXCEPT !.mResourceNeedsInit = FALSE]]

\* The attachment is marked whether its draw buffer is enabled or not.
markBufferInitialized(xs, f) ==
    [xs |-> [xs EXCEPT ![f.mResource] = setInitState(@, f.mipLevel, "Initialized")],
     f |-> [f EXCEPT !.mResourceNeedsInit = FALSE]]

\* The driver draws to, or clears, the draw buffer.
Render(xs, f, whole) ==
    IF ~f.mDrawBufferState THEN xs
    ELSE [xs EXCEPT ![f.mResource] = WriteTo(@, f.mipLevel, whole)]

-------------------------------------------------------------------------------
\* Operations on textures by context c: they act on the texture that is bound.

\* A change of the images of texture t, told to the framebuffers.
Redefine(t, x, initState) ==
    Become([texture EXCEPT ![t] = x], named, bound, signalDirty(framebuffer, t, initState))

\* Whether telling all attachments of t that it is initialized, or that it is
\* not, is wrong for one that is of another level than the changed ones, or of
\* none: the texture is detached there, but the channel is still bound.
MisleadsAttachment(t, x, initState) ==
    \E c \in Contexts :
        LET f == framebuffer[c]
        IN  /\ f.mChannel = t
            /\ IF initState = "Initialized"
               THEN f.mResource = t /\ x.mImageDescs[f.mipLevel].initState = "MayNeedInit"
               ELSE f.mResource # t

\* A redefinition is "misleading" if it misleads an attachment.
Permitted(t, x, initState) ==
    MisleadsAttachment(t, x, initState) => "misleading" \in client.operations

glBindTexture(c, t) ==
    /\ t \in named \cup {null} \/ ~Referenced(t, named, bound, framebuffer)
    /\ Become(texture, named \cup ({t} \ {null}), [bound EXCEPT ![c] = t], framebuffer)

setImage(t, level, size, pixels) ==
    LET initState == DetermineInitState(pixels)
        x == setImageDesc(Allocate(texture[t], level, pixels), level, Image(size, initState))
    IN  /\ Permitted(t, x, initState)
        /\ Redefine(t, x, initState)

\* glTexImage2D; an immutable texture has its images for good.
glTexImage2D(c, level, size, pixels) ==
    LET t == bound[c]
    IN  /\ t # null /\ texture[t].mImmutableLevels = 0
        /\ setImage(t, level, size, pixels)

glTexSubImage2D(c, level, whole) ==
    LET t == bound[c]
    IN  /\ t # null /\ texture[t].mImageDescs[level].size # 0
        /\ Become([texture EXCEPT ![t] =
                      WriteTo(ensureSubImageInitialized(@, level, whole), level, whole)],
                  named, bound, framebuffer)

\* glCopyTexImage2D, from the framebuffer.
copyImage(c, level, size) ==
    LET t == bound[c]
        f == checkStatus(texture, framebuffer[c])
        read == ensureAttachmentInitialized(texture, f)
        whole == size = texture[t].mImageDescs[level].size
        x == setImageDesc(Allocate(ensureSubImageInitialized(read.xs[t], level, whole), level, TRUE),
                          level, Image(size, "Initialized"))
    IN  /\ t # null /\ texture[t].mImmutableLevels = 0
        /\ Complete(texture, framebuffer[c])
        /\ Permitted(t, x, "Initialized")
        /\ Become([read.xs EXCEPT ![t] = x], named, bound,
                  signalDirty([framebuffer EXCEPT ![c] = read.f], t, "Initialized"))

\* glTexStorage2D; size has as many levels at least.
setStorage(c, levels, size) ==
    LET t == bound[c]
        x == [texture[t] EXCEPT
                 !.mImmutableLevels = levels,
                 !.mImageDescs = [l \in Levels |-> NoImage],
                 !.contents = [l \in Levels |-> IF l < levels THEN "undefined" ELSE "defined"]]
        y == setImageDescChain(x, 0, levels - 1, size, "MayNeedInit")
    IN  /\ levels <= log2(size) + 1
        /\ t # null /\ texture[t].mImmutableLevels = 0
        /\ Permitted(t, y, "MayNeedInit")
        /\ Redefine(t, y, "MayNeedInit")

\* The base level is cleared if it needs it; the other levels are made from it.
GenerateLevels(x) ==
    LET base == getEffectiveBaseLevel(x)
        max == getMipmapMaxLevel(x)
        y == IF x.mImageDescs[base].initState = "Initialized" THEN x
             ELSE initializeContents(x, base)
    IN  IF max <= base THEN x
        ELSE [setImageDescChain(y, base, max, x.mImageDescs[base].size, "Initialized") EXCEPT
                 !.contents = [l \in Levels |-> IF l \in base + 1 .. max THEN "defined" ELSE @[l]]]

generateMipmap(c) ==
    LET t == bound[c]
        x == GenerateLevels(texture[t])
    IN  /\ t # null /\ BaseImage(texture[t]).size # 0
        /\ getMipmapMaxLevel(texture[t]) \in Levels
        /\ Permitted(t, x, "Initialized")
        /\ Redefine(t, x, "Initialized")

\* glTexParameteri(GL_TEXTURE_BASE_LEVEL), which tells no framebuffer.
setBaseLevel(c, level) ==
    LET t == bound[c]
    IN  /\ t # null
        /\ \/ "baseLevel" \in client.operations
           \/ \A d \in Contexts : framebuffer[d].mResource # t
        /\ Become([texture EXCEPT ![t].mBaseLevel = level], named, bound, framebuffer)

\* Detached from context c, whose unit gets texture zero; others keep it.
deleteTexture(c, t) ==
    /\ t \in named
    /\ Become(texture, named \ {t}, [bound EXCEPT ![c] = IF @ = t THEN null ELSE @],
              [framebuffer EXCEPT ![c] = detachMatchingAttachment(@, t)])

-------------------------------------------------------------------------------
\* Operations on the framebuffer of context c.

Framebuffers(c, xs, f) == Become(xs, named, bound, [framebuffer EXCEPT ![c] = f])

framebufferTexture2D(c, t, level) ==
    /\ t = null => level = 0
    /\ Framebuffers(c, texture, setAttachmentImpl(texture, framebuffer[c], t, level))

drawBuffers(c, draw) ==
    /\ "drawBuffers" \in client.operations
    /\ Framebuffers(c, texture, setDrawBuffers(framebuffer[c], draw))

checkFramebufferStatus(c) == Framebuffers(c, texture, checkStatus(texture, framebuffer[c]))

draw(c) ==
    LET ready == ensureAttachmentInitialized(texture, checkStatus(texture, framebuffer[c]))
    IN  /\ Complete(texture, framebuffer[c])
        /\ Framebuffers(c, Render(ready.xs, ready.f, FALSE), ready.f)

\* glClear; a scissored or masked one initializes first.
clear(c, whole) ==
    LET f == checkStatus(texture, framebuffer[c])
        ready == IF whole THEN [xs |-> texture, f |-> f]
                 ELSE ensureAttachmentInitialized(texture, f)
        marked == markDrawAttachmentsInitialized(Render(ready.xs, ready.f, whole), ready.f)
    IN  /\ Complete(texture, framebuffer[c])
        /\ Framebuffers(c, marked.xs, marked.f)

\* glClearBuffer.
clearBuffer(c, whole) ==
    LET f == checkStatus(texture, framebuffer[c])
        ready == IF whole THEN [xs |-> texture, f |-> f]
                 ELSE ensureAttachmentInitialized(texture, f)
        marked == markBufferInitialized(Render(ready.xs, ready.f, whole), ready.f)
    IN  /\ Complete(texture, framebuffer[c])
        /\ f.mDrawBufferState \/ "clearDisabled" \in client.operations
        /\ Framebuffers(c, marked.xs, marked.f)

readPixels(c) ==
    LET ready == ensureAttachmentInitialized(texture, checkStatus(texture, framebuffer[c]))
    IN  /\ Complete(texture, framebuffer[c])
        /\ Framebuffers(c, ready.xs, ready.f)

ClientSizes == {2^k : k \in 0..client.level}

Next ==
    \E c \in Contexts :
        \/ \E t \in Textures \cup {null} : glBindTexture(c, t)
        \/ \E level \in 0..client.level, size \in ClientSizes, pixels \in BOOLEAN :
               glTexImage2D(c, level, size, pixels)
        \/ \E level \in 0..client.level, whole \in BOOLEAN : glTexSubImage2D(c, level, whole)
        \/ \E level \in 0..client.level, size \in ClientSizes : copyImage(c, level, size)
        \/ \E levels \in 1 .. client.level + 1, size \in ClientSizes : setStorage(c, levels, size)
        \/ generateMipmap(c)
        \/ \E level \in 0..client.level : setBaseLevel(c, level)
        \/ \E t \in Textures : deleteTexture(c, t)
        \/ \E t \in named \cup {null}, level \in 0..client.level : framebufferTexture2D(c, t, level)
        \/ \E b \in BOOLEAN : drawBuffers(c, b)
        \/ checkFramebufferStatus(c)
        \/ draw(c)
        \/ \E whole \in BOOLEAN : clear(c, whole) \/ clearBuffer(c, whole)
        \/ readPixels(c)

Spec == Init /\ [][Next]_vars

-------------------------------------------------------------------------------
\* Properties.

\* A framebuffer answers with the status that its attachment has now: its cached
\* status is dropped by every change, made in whichever context, that could
\* change it, but for a new base level, of which Texture::setBaseLevel signals
\* nothing: the property is for clients without "baseLevel", which set it only
\* while no framebuffer has the texture attached.
StatusFresh ==
    \A c \in Contexts :
        LET f == framebuffer[c]
        IN  ~f.dirty /\ f.mCachedStatus # "invalid" => f.mCachedStatus = Status(texture, f)

\* An attached image that may need to be cleared has its bit set in every
\* framebuffer that it is attached to, so that no draw or read skips the clear;
\* and a framebuffer that initializes has an attachment: InitAttachment's
\* ASSERT(attachment->isAttached()).  The property is for clients without
\* "misleading", whose signals for one level reach no attachment of another.
NeedsInitKnown ==
    \A c \in Contexts :
        LET f == framebuffer[c]
        IN  /\ isAttached(f) /\ AttachedImage(texture, f).initState = "MayNeedInit"
                   => f.mResourceNeedsInit
            /\ f.mResourceNeedsInit => isAttached(f)

\* An image may need to be cleared exactly while nothing has been written to it:
\* the deferred clear never wipes what was drawn, uploaded or copied, and never
\* comes too late, when undefined memory has been drawn over.  The property is for
\* clients without "clearDisabled": Framebuffer::markBufferInitialized takes a
\* clear of a draw buffer that is GL_NONE for a write.
InitStateExact ==
    \A t \in Textures, l \in Levels :
        /\ texture[t].contents[l] # "mixed"
        /\ texture[t].mImageDescs[l].initState = "MayNeedInit"
               <=> texture[t].contents[l] = "undefined"
===============================================================================
