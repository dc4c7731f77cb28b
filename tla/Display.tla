-------------------------------- MODULE Display --------------------------------
(***************************************************************************)
(* Lifetimes behind one EGL display: contexts, surfaces, what is current   *)
(* on which thread, the display-wide texture share group, and textures     *)
(* that a pbuffer surface is bound to with eglBindTexImage.  Translated    *)
(* from src/libANGLE/Display.cpp, Surface.cpp, Context.cpp, Texture.cpp,   *)
(* Thread.cpp and src/libGLESv2/entry_points_egl.cpp.                      *)
(*                                                                         *)
(* Every EGL or GL call is one step: the library takes no lock, so callers *)
(* must not overlap calls.  A context is current on at most one thread,    *)
(* and nobody destroys a context or terminates the display while another   *)
(* thread has the context current: EGL asks this of the library, which     *)
(* leaves it to the caller (ValidateMakeCurrent does not look).            *)
(***************************************************************************)
EXTENDS Integers, FiniteSets, FiniteSetsExt

CONSTANTS
    Threads, Contexts,
    Surfaces,       \* addresses a Surface can be allocated at
    Texturable,     \* the surfaces that are pbuffers with a texture format
    Textures,       \* addresses a named 2D texture can be allocated at
    UserFramebuffer,
    null,
    ImplMayFail     \* whether the platform's bind and release calls can fail

ASSUME TexturableAssumption == Texturable \subseteq Surfaces

VARIABLES
    mInitialized,
    mContextSet,
    mContext,       \* per Thread, its current context
    context,        \* per Context, the fields of ContextRecords
    surface,        \* per Surface, the fields of SurfaceRecords
    mBoundSurface,  \* per texture object
    manager,        \* per named texture, the TextureManager whose map has it
    group           \* the display's texture share group

vars == <<mInitialized, mContextSet, mContext, context, surface, mBoundSurface,
          manager, group>>

-------------------------------------------------------------------------------
\* A framebuffer is one the client made, the default framebuffer of a surface
\* (denoted by the surface) or the surfaceless one of a context (the context).
Framebuffers == {UserFramebuffer, null} \cup Surfaces \cup Contexts

\* The texture that is bound where the client bound name 0.
ZeroTexture(c) == <<"zero", c>>
TextureObjects == Textures \cup {ZeroTexture(c) : c \in Contexts}

Managers == Contexts \cup {"group"}

\* Pointers to objects of different kinds differ, and there are finitely many
\* objects for terminate to loop over.
ASSUME ObjectsAssumption ==
    /\ IsFiniteSet(Contexts) /\ IsFiniteSet(Surfaces)
    /\ Contexts \cap Surfaces = {}
    /\ {null, UserFramebuffer} \cap (Contexts \cup Surfaces) = {} /\ null # UserFramebuffer
    /\ "group" \notin Contexts \cup {null}
    /\ null \notin TextureObjects /\ \A c \in Contexts : ZeroTexture(c) \notin Textures

ContextRecords ==
    [mCurrentSurface : Surfaces \cup {null},
     mReadFramebuffer : Framebuffers,
     mDrawFramebuffer : Framebuffers,
     default : Framebuffers,            \* mFramebuffers' object 0
     mSurfacelessFramebuffer : BOOLEAN,
     mDisplayTextureShareGroup : BOOLEAN,
     samplerTexture : TextureObjects \cup {null}]

SurfaceRecords ==
    [live : BOOLEAN,                    \* allocated and not deleted
     listed : BOOLEAN,                  \* in the display's surfaceSet
     mDestroyed : BOOLEAN,
     mCurrentCount : 0..Cardinality(Contexts),
     torn : BOOLEAN,                    \* what the platform has of it is destroyed
     mTexture : TextureObjects \cup {null}]

NoContext ==
    [mCurrentSurface |-> null, mReadFramebuffer |-> null, mDrawFramebuffer |-> null,
     default |-> null, mSurfacelessFramebuffer |-> FALSE,
     mDisplayTextureShareGroup |-> FALSE, samplerTexture |-> null]

NoSurface ==
    [live |-> FALSE, listed |-> FALSE, mDestroyed |-> FALSE, mCurrentCount |-> 0,
     torn |-> FALSE, mTexture |-> null]

Init ==
    /\ mInitialized = FALSE
    /\ mContextSet = {}
    /\ mContext = [t \in Threads |-> null]
    /\ context = [c \in Contexts |-> NoContext]
    /\ surface = [s \in Surfaces |-> NoSurface]
    /\ mBoundSurface = [x \in TextureObjects |-> null]
    /\ manager = [x \in Textures |-> null]
    /\ group = [mTextureManager |-> FALSE, users |-> 0, refs |-> 0]

\* BindingPointers and map entries are the references to a texture; it is
\* freed when there is none left (RefCountObject).
IsReferenced(x) ==
    \/ x \in Textures /\ manager[x] # null
    \/ \E c \in Contexts : context[c].samplerTexture = x
    \/ \E s \in Surfaces : surface[s].mTexture = x

-------------------------------------------------------------------------------
\* The calls below change a world, which has the state of the display and, in
\* ok, whether no ANGLE_TRY has returned yet.

World ==
    [contexts |-> mContextSet, context |-> context, surface |-> surface,
     mBoundSurface |-> mBoundSurface, manager |-> manager, group |-> group, ok |-> TRUE]

Become(w) ==
    /\ mContextSet' = w.contexts
    /\ context' = w.context
    /\ surface' = w.surface
    /\ mBoundSurface' = w.mBoundSurface
    /\ manager' = w.manager
    /\ group' = w.group

Failed(w) == [w EXCEPT !.ok = FALSE]
Then(w, F(_)) == IF w.ok THEN F(w) ELSE w

\* Whether the platform fails the call.
Failures == IF ImplMayFail THEN BOOLEAN ELSE {FALSE}

-------------------------------------------------------------------------------
\* Surface.

\* The surface lets its texture go: Texture::releaseTexImageFromSurface clears
\* the texture's mBoundSurface, whichever surface that is.
LetTextureGo(w, s) ==
    [w EXCEPT !.mBoundSurface[w.surface[s].mTexture] = null,
              !.surface[s].mTexture = null]

\* Mutant: the bound texture keeps referring to the surface.
destroyImplKeepsTexture(w, s, fails) == [w EXCEPT !.surface[s] = NoSurface]

\* A surface whose platform fails to let the texture go is left, with its platform
\* surface and default framebuffer destroyed already.  The proxy context that goes
\* with the calls, null while the display terminates, is not modelled.
destroyImpl(w, s, fails) ==
    LET torn == [w EXCEPT !.surface[s].torn = TRUE]
        released == IF w.surface[s].mTexture = null THEN torn
                    ELSE IF fails THEN Failed(torn)
                    ELSE LetTextureGo(torn, s)
    IN  Then(released, LAMBDA v : [v EXCEPT !.surface[s] = NoSurface])

\* Mutant: a destroyed surface is not deleted when it stops being current.
setNotCurrentNoDelete(w, s, fails) == [w EXCEPT !.surface[s].mCurrentCount = @ - 1]

\* setIsCurrent(context, false).
setNotCurrent(w, s, fails) ==
    LET v == [w EXCEPT !.surface[s].mCurrentCount = @ - 1]
    IN  IF v.surface[s].mCurrentCount = 0 /\ v.surface[s].mDestroyed
        THEN destroyImpl(v, s, fails)
        ELSE v

\* Display::destroySurface: the surface leaves surfaceSet, then onDestroy.
destroySurface(w, s, fails) ==
    LET v == [w EXCEPT !.surface[s] = [@ EXCEPT !.listed = FALSE, !.mDestroyed = TRUE]]
    IN  IF v.surface[s].mCurrentCount = 0 THEN destroyImpl(v, s, fails) ELSE v

-------------------------------------------------------------------------------
\* Context.

\* Mutant: the bindings keep the old default framebuffer.
UnbindDefaultKeepsDraw(r, old) ==
    [r EXCEPT !.mReadFramebuffer = IF @ = old THEN null ELSE @,
              !.default = null]

UnbindDefault(r, old) ==
    [r EXCEPT !.mReadFramebuffer = IF @ = old THEN null ELSE @,
              !.mDrawFramebuffer = IF @ = old THEN null ELSE @,
              !.default = null]

releaseSurface(w, c, fails) ==
    LET current == w.context[c].mCurrentSurface
        old == IF current # null THEN current
               ELSE IF w.context[c].mSurfacelessFramebuffer THEN c
               ELSE null
        unbound == [w EXCEPT !.context[c] = UnbindDefault(@, old)]
    IN  IF current = null
        THEN unbound
        ELSE Then(setNotCurrent(unbound, current, fails),
                  LAMBDA v : [v EXCEPT !.context[c].mCurrentSurface = null])

\* Mutant: the bindings are left null.
BindDefaultNoRebind(r, c, s) ==
    [r EXCEPT !.mCurrentSurface = s,
              !.mSurfacelessFramebuffer = @ \/ s = null,
              !.default = IF s = null THEN c ELSE s]

BindDefault(r, c, s) ==
    LET new == IF s = null THEN c ELSE s
        orNew(fb) == IF fb = null THEN new ELSE fb
    IN  [r EXCEPT !.mCurrentSurface = s,
                  !.mSurfacelessFramebuffer = @ \/ s = null,
                  !.mReadFramebuffer = orNew(@),
                  !.mDrawFramebuffer = orNew(@),
                  !.default = new]

\* Mutant: the surface is not counted as current.
MakeSurfaceCurrentNoCount(w, c, s) == [w EXCEPT !.context[c] = BindDefault(@, c, s)]

MakeSurfaceCurrent(w, c, s) ==
    LET counted == IF s = null THEN w ELSE [w EXCEPT !.surface[s].mCurrentCount = @ + 1]
    IN  [counted EXCEPT !.context[c] = BindDefault(@, c, s)]

\* Context::makeCurrent.
makeCurrent(w, c, s, fails) ==
    Then(releaseSurface(w, c, fails), LAMBDA v : MakeSurfaceCurrent(v, c, s))

\* TextureManager::release by one of its owners; the last one empties its map.
ReleaseManager(w, m) ==
    LET v == IF m = "group" THEN [w EXCEPT !.group.refs = @ - 1] ELSE w
    IN  IF m = "group" /\ v.group.refs > 0
        THEN v
        ELSE [v EXCEPT !.manager = [x \in Textures |-> IF @[x] = m THEN null ELSE @[x]]]

\* Mutant: a context that is not in the share group leaves it.
LeaveGroupAlways(w, c) == [w EXCEPT !.group.users = @ - 1]

\* The first part of Display::destroyContext.
LeaveGroup(w, c) ==
    IF ~w.context[c].mDisplayTextureShareGroup
    THEN w
    ELSE LET v == IF w.group.users = 1
                  THEN [ReleaseManager(w, "group") EXCEPT !.group.mTextureManager = FALSE]
                  ELSE w
         IN  [v EXCEPT !.group.users = @ - 1]

\* Texture::onDestroy of the context's zero texture.
destroyZeroTexture(w, c, fails) ==
    LET s == w.mBoundSurface[ZeroTexture(c)]
    IN  IF s = null THEN w
        ELSE IF fails THEN Failed(w)
        ELSE [LetTextureGo(w, s) EXCEPT !.mBoundSurface[ZeroTexture(c)] = null]

\* Context::onDestroy once its surface is released.
ReleaseContextState(w, c) ==
    LET m == IF w.context[c].mDisplayTextureShareGroup THEN "group" ELSE c
    IN  [ReleaseManager(w, m) EXCEPT !.contexts = @ \ {c}, !.context[c] = NoContext]

\* Display::destroyContext.  The surfaceless framebuffer is deleted before
\* releaseSurface looks for it.
destroyContext(c, w, fails) ==
    Then(Then(destroyZeroTexture(LeaveGroup(w, c), c, fails),
              LAMBDA v : releaseSurface(
                             [v EXCEPT !.context[c].mSurfacelessFramebuffer = FALSE],
                             c, fails)),
         LAMBDA v : ReleaseContextState(v, c))

-------------------------------------------------------------------------------
\* The display's entry points.

\* The contexts that thread t may use in a call: see the head of the module.
NotCurrentElsewhere(t, c) == \A u \in Threads \ {t} : mContext[u] # c

\* Display::initialize.
Initialize ==
    /\ ~mInitialized
    /\ mInitialized' = TRUE
    /\ UNCHANGED <<mContextSet, mContext, context, surface, mBoundSurface, manager, group>>

CreateSurface(s) ==
    /\ mInitialized
    /\ ~surface[s].live
    /\ surface' = [surface EXCEPT ![s] = [NoSurface EXCEPT !.live = TRUE, !.listed = TRUE]]
    /\ UNCHANGED <<mInitialized, mContextSet, mContext, context, mBoundSurface, manager, group>>

DestroySurface(s) ==
    /\ surface[s].listed
    /\ \E fails \in Failures : Become(destroySurface(World, s, fails))
    /\ UNCHANGED <<mInitialized, mContext>>

\* Mutant: a second user of the share group is not counted.
JoinGroupOnce(g) ==
    IF g.mTextureManager THEN [g EXCEPT !.refs = @ + 1]
    ELSE [mTextureManager |-> TRUE, users |-> 1, refs |-> 2]

\* A context created with EGL_DISPLAY_TEXTURE_SHARE_GROUP_ANGLE.  The display
\* and each context have a reference to the manager.
JoinGroup(g) ==
    [mTextureManager |-> TRUE, users |-> g.users + 1,
     refs |-> (IF g.mTextureManager THEN g.refs ELSE 1) + 1]

CreateContext(c, inGroup) ==
    /\ mInitialized
    /\ c \notin mContextSet
    /\ ~IsReferenced(ZeroTexture(c))
    /\ mContextSet' = mContextSet \cup {c}
    /\ context' = [context EXCEPT ![c] =
                       [NoContext EXCEPT !.mDisplayTextureShareGroup = inGroup,
                                         !.samplerTexture = ZeroTexture(c)]]
    /\ group' = IF inGroup THEN JoinGroup(group) ELSE group
    /\ UNCHANGED <<mInitialized, mContext, surface, mBoundSurface, manager>>

DestroyContext(t, c) ==
    /\ c \in mContextSet
    /\ NotCurrentElsewhere(t, c)
    /\ mContext' = [mContext EXCEPT ![t] = IF @ = c THEN null ELSE @]
    /\ \E fails \in Failures : Become(destroyContext(c, World, fails))
    /\ UNCHANGED mInitialized

\* eglMakeCurrent(display, s, s, c).  The new context gets its surface before
\* the previous one, if it is another, releases its own.
MakeCurrent(t, c, s) ==
    /\ c = null => s = null
    /\ c # null => mInitialized /\ c \in mContextSet
    /\ s # null => surface[s].listed
    /\ c # null => NotCurrentElsewhere(t, c)
    /\ \E fails \in Failures :
           LET made == IF c = null THEN World ELSE makeCurrent(World, c, s, fails)
               previous == mContext[t]
           IN  /\ Become(IF made.ok /\ previous \notin {null, c}
                         THEN releaseSurface(made, previous, fails)
                         ELSE made)
               /\ mContext' = IF made.ok THEN [mContext EXCEPT ![t] = c] ELSE mContext
    /\ UNCHANGED mInitialized

\* Mutant: the surfaces that are not current are left.
terminateKeepsSurfaces(fails) ==
    FoldSet(LAMBDA c, w : Then(w, LAMBDA v : destroyContext(c, v, fails)),
            World, mContextSet)

\* Display::terminate: every context, then every surface.  The loops stop at
\* the first failure.
terminate(fails) ==
    LET contextsGone ==
            FoldSet(LAMBDA c, w : Then(w, LAMBDA v : destroyContext(c, v, fails)),
                    World, mContextSet)
    IN  FoldSet(LAMBDA s, w : Then(w, LAMBDA v : destroySurface(v, s, fails)),
                contextsGone, {s \in Surfaces : surface[s].listed})

Terminate(t) ==
    /\ mInitialized
    /\ \A c \in mContextSet : NotCurrentElsewhere(t, c)
    /\ mContext' = [mContext EXCEPT ![t] = null]
    /\ \E fails \in Failures :
           LET w == terminate(fails)
           IN  Become(w) /\ mInitialized' = ~w.ok

-------------------------------------------------------------------------------
\* Calls of the GL client on its current context.

CurrentContext(t) == mContext[t]

\* glBindFramebuffer with name 0 or the client's framebuffer.
bindFramebuffer(t, target, fb) ==
    LET c == CurrentContext(t)
        object == IF fb = 0 THEN context[c].default ELSE fb
        binding(r) == [r EXCEPT !.mReadFramebuffer = IF target # "draw" THEN object ELSE @,
                                !.mDrawFramebuffer = IF target # "read" THEN object ELSE @]
    IN  /\ c # null
        /\ context' = [context EXCEPT ![c] = binding(@)]
        /\ UNCHANGED <<mInitialized, mContextSet, mContext, surface, mBoundSurface,
                       manager, group>>

\* glDeleteFramebuffers of the client's framebuffer: Context::detachFramebuffer
\* binds name 0 where it was bound.
deleteFramebuffer(t) ==
    LET c == CurrentContext(t)
        detached(fb) == IF fb = UserFramebuffer THEN context[c].default ELSE fb
        detaching(r) == [r EXCEPT !.mReadFramebuffer = detached(@),
                                  !.mDrawFramebuffer = detached(@)]
    IN  /\ c # null
        /\ context' = [context EXCEPT ![c] = detaching(@)]
        /\ UNCHANGED <<mInitialized, mContextSet, mContext, surface, mBoundSurface,
                       manager, group>>

TextureManagerOf(c) == IF context[c].mDisplayTextureShareGroup THEN "group" ELSE c

\* glBindTexture: name 0, a name of the context's manager, or a name that gets
\* a new texture.
bindTexture(t, x) ==
    LET c == CurrentContext(t)
    IN  /\ c # null
        /\ \/ x = ZeroTexture(c) /\ UNCHANGED manager
           \/ x \in Textures /\ manager[x] = TextureManagerOf(c) /\ UNCHANGED manager
           \/ /\ x \in Textures
              /\ ~IsReferenced(x)
              /\ manager' = [manager EXCEPT ![x] = TextureManagerOf(c)]
        /\ context' = [context EXCEPT ![c].samplerTexture = x]
        /\ UNCHANGED <<mInitialized, mContextSet, mContext, surface, mBoundSurface, group>>

\* glDeleteTextures: the name goes, and the binding in this context.
deleteTexture(t, x) ==
    LET c == CurrentContext(t)
    IN  /\ c # null
        /\ manager[x] = TextureManagerOf(c)
        /\ manager' = [manager EXCEPT ![x] = null]
        /\ context' = [context EXCEPT ![c].samplerTexture =
                           IF @ = x THEN ZeroTexture(c) ELSE @]
        /\ UNCHANGED <<mInitialized, mContextSet, mContext, surface, mBoundSurface, group>>

\* eglBindTexImage.  The platform can fail before anything changed, or after
\* the texture has released the surface it was bound to.
BindTexImage(t, s) ==
    LET c == CurrentContext(t)
        x == context[c].samplerTexture
    IN  /\ c # null
        /\ s \in Texturable
        /\ surface[s].listed
        /\ surface[s].mTexture = null
        /\ \E fails \in Failures :
               IF fails
               THEN mBoundSurface' = [mBoundSurface EXCEPT ![x] = null] /\ UNCHANGED surface
               ELSE /\ mBoundSurface' = [mBoundSurface EXCEPT ![x] = s]
                    /\ surface' = [surface EXCEPT ![s].mTexture = x]
        /\ UNCHANGED <<mInitialized, mContextSet, mContext, context, manager, group>>

\* eglReleaseTexImage.  Whether the thread has a context is not looked at.
ReleaseTexImage(t, s) ==
    /\ s \in Texturable
    /\ surface[s].listed
    /\ surface[s].mTexture # null
    /\ Become(LetTextureGo(World, s))
    /\ UNCHANGED <<mInitialized, mContext>>

\* glTexImage2D and the other calls that redefine the bound texture while a
\* surface is bound to it (releaseTexImageInternal).
setImage(t) ==
    LET c == CurrentContext(t)
        x == context[c].samplerTexture
    IN  /\ c # null
        /\ mBoundSurface[x] # null
        /\ surface' = [surface EXCEPT ![mBoundSurface[x]].mTexture = null]
        /\ mBoundSurface' = [mBoundSurface EXCEPT ![x] = null]
        /\ UNCHANGED <<mInitialized, mContextSet, mContext, context, manager, group>>

Next ==
    \/ Initialize
    \/ \E s \in Surfaces : CreateSurface(s) \/ DestroySurface(s)
    \/ \E c \in Contexts, inGroup \in BOOLEAN : CreateContext(c, inGroup)
    \/ \E t \in Threads, c \in Contexts : DestroyContext(t, c)
    \/ \E t \in Threads, c \in Contexts, s \in Surfaces \cup {null} : MakeCurrent(t, c, s)
    \/ \E t \in Threads : MakeCurrent(t, null, null)
    \/ \E t \in Threads : Terminate(t)
    \/ \E t \in Threads, target \in {"read", "draw", "both"}, fb \in {0, UserFramebuffer} :
           bindFramebuffer(t, target, fb)
    \/ \E t \in Threads : deleteFramebuffer(t)
    \/ \E t \in Threads, x \in TextureObjects : bindTexture(t, x)
    \/ \E t \in Threads, x \in Textures : deleteTexture(t, x)
    \/ \E t \in Threads, s \in Surfaces : BindTexImage(t, s)
    \/ \E t \in Threads, s \in Surfaces : ReleaseTexImage(t, s)
    \/ \E t \in Threads : setImage(t)

Spec == Init /\ [][Next]_vars

-------------------------------------------------------------------------------
\* The variables have values the code's fields can have.
TypeOK ==
    /\ mInitialized \in BOOLEAN
    /\ mContextSet \subseteq Contexts
    /\ mContext \in [Threads -> Contexts \cup {null}]
    /\ context \in [Contexts -> ContextRecords]
    /\ surface \in [Surfaces -> SurfaceRecords]
    /\ mBoundSurface \in [TextureObjects -> Surfaces \cup {null}]
    /\ manager \in [Textures -> Managers \cup {null}]
    /\ group.mTextureManager \in BOOLEAN
    /\ group.users \in 0..Cardinality(Contexts)
    /\ group.refs \in 0..(Cardinality(Contexts) + 1)

\* A surface's mCurrentCount is the number of contexts that have it as their
\* current surface.  Surface::setIsCurrent asserts mCurrentCount > 0 when one of
\* them lets it go, and deletes the surface by the count.
CurrentCountExact ==
    \A s \in Surfaces :
        surface[s].mCurrentCount =
            Cardinality({c \in mContextSet : context[c].mCurrentSurface = s})

\* A surface that the client destroyed and that is current nowhere has been
\* deleted (eglMakeCurrent releases the previous context's surface "to allow
\* destroyed surfaces to delete themselves"), and one that the client can still
\* name has not.
DeletedWhenUnused ==
    \A s \in Surfaces :
        /\ surface[s].live /\ surface[s].mDestroyed => surface[s].mCurrentCount > 0
        /\ surface[s].live = (surface[s].listed \/ surface[s].mDestroyed)

\* The framebuffers a context has bound, if not the client's own, are the
\* default one of its current surface, which is not deleted, or its own
\* surfaceless one while it has no surface: makeCurrent and releaseSurface
\* leave no binding to the framebuffer of an earlier surface.
DefaultFramebufferLive ==
    \A c \in mContextSet :
        \A fb \in {context[c].mReadFramebuffer, context[c].mDrawFramebuffer,
                   context[c].default} \ {null, UserFramebuffer} :
            IF fb \in Surfaces
            THEN surface[fb].live /\ context[c].mCurrentSurface = fb
            ELSE /\ fb = c
                 /\ context[c].mSurfacelessFramebuffer
                 /\ context[c].mCurrentSurface = null

\* The context a thread has current exists, and has a framebuffer for reading,
\* for drawing and for name 0, whatever other threads made current or destroyed
\* and whichever order surfaces were released in.
CurrentContextUsable ==
    \A t \in Threads :
        LET c == mContext[t]
        IN  c # null =>
                /\ c \in mContextSet
                /\ null \notin {context[c].mReadFramebuffer, context[c].mDrawFramebuffer,
                                context[c].default}

\* The surface a texture is bound to is not deleted and has the texture as its
\* mTexture, so that it keeps the texture alive: Texture::onDestroy and
\* setImage call the surface through mBoundSurface.
BoundSurfaceHoldsTexture ==
    \A x \in TextureObjects :
        LET s == mBoundSurface[x]
        IN  s # null => surface[s].live /\ surface[s].mTexture = x

\* Display::createContext and destroyContext assert that the display has its
\* texture manager exactly while a context uses the share group; the manager
\* has one reference for the display and one for each of these contexts.
ShareGroupExact ==
    LET users == {c \in mContextSet : context[c].mDisplayTextureShareGroup}
    IN  /\ group.users = Cardinality(users)
        /\ group.mTextureManager <=> users # {}
        /\ group.refs = Cardinality(users) + (IF group.mTextureManager THEN 1 ELSE 0)

\* A terminated display has no context and no surface left, and nothing refers
\* to a texture any more.
NothingAfterTerminate ==
    ~mInitialized =>
        /\ mContextSet = {}
        /\ \A s \in Surfaces : ~surface[s].live
        /\ \A x \in TextureObjects : ~IsReferenced(x) /\ mBoundSurface[x] = null

-------------------------------------------------------------------------------
\* What ASSERTs say of the calls.

\* Texture::releaseTexImageFromSurface: ASSERT(mBoundSurface).  A surface lets
\* its texture go only while the texture is bound to a surface.
ReleasedTextureIsBound ==
    [][\A s \in Surfaces :
           surface[s].mTexture # null /\ surface'[s].mTexture = null =>
               mBoundSurface[surface[s].mTexture] # null]_vars
===============================================================================
