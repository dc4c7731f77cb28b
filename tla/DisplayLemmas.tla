----------------------------- MODULE DisplayLemmas -----------------------------
(***************************************************************************)
(* What the calls of Display that change a world do to a good one, for any *)
(* numbers of threads, contexts, surfaces and textures, where the          *)
(* platform's bind and release calls succeed.                              *)
(***************************************************************************)
EXTENDS Display, FiniteSetTheorems, TLAPS

-------------------------------------------------------------------------------
(* The inductive invariant.                                                *)

SurfaceRecs ==
    [live : BOOLEAN, listed : BOOLEAN, mDestroyed : BOOLEAN, mCurrentCount : Int,
     torn : BOOLEAN, mTexture : TextureObjects \cup {null}]

Groups == [mTextureManager : BOOLEAN, users : Int, refs : Int]

Worlds ==
    [contexts : SUBSET Contexts, context : [Contexts -> ContextRecords],
     surface : [Surfaces -> SurfaceRecs], mBoundSurface : [TextureObjects -> Surfaces \cup {null}],
     manager : [Textures -> Managers \cup {null}], group : Groups, ok : BOOLEAN]

\* The contexts that have s as their current surface.
Having(w, s) == {c \in w.contexts : w.context[c].mCurrentSurface = s}

\* CurrentCountExact and DeletedWhenUnused.  A surface that is not live has
\* nothing left of its fields.
SurfaceOK(r, count) ==
    /\ r.mCurrentCount = count
    /\ r.live = (r.listed \/ r.mDestroyed) /\ ~(r.listed /\ r.mDestroyed)
    /\ r.mDestroyed => r.mCurrentCount # 0
    /\ ~r.live => r = NoSurface

SurfacesOK(w) == \A s \in Surfaces : SurfaceOK(w.surface[s], Cardinality(Having(w, s)))

\* DefaultFramebufferLive.
BindingOK(r, c, fb) ==
    \/ fb \in {null, UserFramebuffer}
    \/ fb \in Surfaces /\ r.mCurrentSurface = fb
    \/ fb = c /\ r.mSurfacelessFramebuffer /\ r.mCurrentSurface = null

BindingsOK(r, c) ==
    BindingOK(r, c, r.mReadFramebuffer) /\ BindingOK(r, c, r.mDrawFramebuffer) /\ BindingOK(r, c, r.default)

ContextsOK(w) ==
    \A c \in Contexts :
        IF c \in w.contexts
        THEN BindingsOK(w.context[c], c) /\ w.context[c].samplerTexture # null
        ELSE w.context[c] = NoContext

\* BoundSurfaceHoldsTexture.
BoundOK(w) ==
    \A x \in TextureObjects :
        w.mBoundSurface[x] # null => w.surface[w.mBoundSurface[x]].mTexture = x

\* ShareGroupExact, and whose texture managers have textures: the display's
\* while it has one, and those of the contexts that do not share it.
Users(w) == {c \in w.contexts : w.context[c].mDisplayTextureShareGroup}

GroupOK(w) ==
    /\ w.group.users = Cardinality(Users(w))
    /\ w.group.mTextureManager <=> Users(w) # {}
    /\ w.group.refs = Cardinality(Users(w)) + (IF w.group.mTextureManager THEN 1 ELSE 0)
    /\ \A x \in Textures :
           \/ w.manager[x] \in (w.contexts \ Users(w)) \cup {null}
           \/ w.manager[x] = "group" /\ w.group.mTextureManager

Good(w) ==
    w \in Worlds /\ w.ok /\ SurfacesOK(w) /\ ContextsOK(w) /\ BoundOK(w) /\ GroupOK(w)

\* CurrentContextUsable.  No two threads have the same context.
Bound(r) == null \notin {r.mReadFramebuffer, r.mDrawFramebuffer, r.default}

Current(threads, w) ==
    /\ threads \in [Threads -> Contexts \cup {null}]
    /\ \A t \in Threads : threads[t] # null => threads[t] \in w.contexts /\ Bound(w.context[threads[t]])
    /\ \A t, u \in Threads : t # u /\ threads[t] # null => threads[t] # threads[u]

\* NothingAfterTerminate.
Empty(w) == w.contexts = {} /\ \A s \in Surfaces : ~w.surface[s].live

IInv ==
    /\ mInitialized \in BOOLEAN
    /\ Good(World)
    /\ Current(mContext, World)
    /\ ~mInitialized => Empty(World)


-------------------------------------------------------------------------------
(* Changing one field of the world.                                        *)

Changed(f, k, r) == [f EXCEPT ![k] = r]

LEMMA ChangedEffect ==
    ASSUME NEW D, NEW R, NEW f \in [D -> R], NEW k \in D, NEW r \in R
    PROVE  /\ Changed(f, k, r) \in [D -> R] /\ Changed(f, k, r)[k] = r
           /\ \A j \in D \ {k} : Changed(f, k, r)[j] = f[j]
BY DEF Changed

WithSurface(w, s, r) == [w EXCEPT !.surface = Changed(w.surface, s, r)]
WithContext(w, c, r) == [w EXCEPT !.context = Changed(w.context, c, r)]
WithBound(w, x, s) == [w EXCEPT !.mBoundSurface = Changed(w.mBoundSurface, x, s)]

SameContexts(v, w) == v.contexts = w.contexts /\ v.context = w.context
SameGroup(v, w) == v.manager = w.manager /\ v.group = w.group
SameTextures(v, w) == v.mBoundSurface = w.mBoundSurface

LEMMA WithSurfaceEffect ==
    ASSUME NEW w \in Worlds, NEW s \in Surfaces, NEW r \in SurfaceRecs
    PROVE  /\ WithSurface(w, s, r) \in Worlds /\ WithSurface(w, s, r).ok = w.ok
           /\ WithSurface(w, s, r).surface = Changed(w.surface, s, r)
           /\ SameContexts(WithSurface(w, s, r), w) /\ SameGroup(WithSurface(w, s, r), w)
           /\ SameTextures(WithSurface(w, s, r), w)
<1>1. Changed(w.surface, s, r) \in [Surfaces -> SurfaceRecs]
  BY ChangedEffect, Zenon DEF Worlds
<1>. QED
  BY <1>1 DEF Worlds, WithSurface, SameContexts, SameGroup, SameTextures

LEMMA WithContextEffect ==
    ASSUME NEW w \in Worlds, NEW c \in Contexts, NEW r \in ContextRecords
    PROVE  /\ WithContext(w, c, r) \in Worlds /\ WithContext(w, c, r).ok = w.ok
           /\ WithContext(w, c, r).context = Changed(w.context, c, r)
           /\ WithContext(w, c, r).contexts = w.contexts
           /\ WithContext(w, c, r).surface = w.surface
           /\ SameGroup(WithContext(w, c, r), w) /\ SameTextures(WithContext(w, c, r), w)
<1>1. Changed(w.context, c, r) \in [Contexts -> ContextRecords]
  BY ChangedEffect, Zenon DEF Worlds
<1>. QED
  BY <1>1 DEF Worlds, WithContext, SameGroup, SameTextures

LEMMA WithBoundEffect ==
    ASSUME NEW w \in Worlds, NEW x \in TextureObjects, NEW s \in Surfaces \cup {null}
    PROVE  /\ WithBound(w, x, s) \in Worlds /\ WithBound(w, x, s).ok = w.ok
           /\ WithBound(w, x, s).mBoundSurface = Changed(w.mBoundSurface, x, s)
           /\ WithBound(w, x, s).surface = w.surface
           /\ SameContexts(WithBound(w, x, s), w) /\ SameGroup(WithBound(w, x, s), w)
<1>1. Changed(w.mBoundSurface, x, s) \in [TextureObjects -> Surfaces \cup {null}]
  BY ChangedEffect, Zenon DEF Worlds
<1>. QED
  BY <1>1 DEF Worlds, WithBound, SameContexts, SameGroup

-------------------------------------------------------------------------------
(* The surfaces.                                                           *)

\* A step that changes the fields of one surface, and lets its texture go if it
\* has one no more.
SurfaceStep(v, w, s, r) ==
    /\ v \in Worlds /\ v.ok /\ SameContexts(v, w) /\ SameGroup(v, w)
    /\ v.surface = Changed(w.surface, s, r)
    /\ BoundOK(w) => BoundOK(v)

LEMMA NoSurfaceType == NoSurface \in SurfaceRecs
BY DEF NoSurface, SurfaceRecs

LEMMA LiveOrEmpty ==
    ASSUME NEW r, NEW n, SurfaceOK(r, n)
    PROVE  r.mTexture # null \/ r.mCurrentCount # 0 => r.live
<1>1. NoSurface.mTexture = null /\ NoSurface.mCurrentCount = 0
  BY DEF NoSurface
<1>. QED
  BY <1>1, Zenon DEF SurfaceOK

Untied(r) == [r EXCEPT !.mTexture = null]

LEMMA UntiedType ==
    ASSUME NEW r \in SurfaceRecs
    PROVE  /\ Untied(r) \in SurfaceRecs /\ Untied(r).mTexture = null
           /\ Untied(r).live = r.live /\ Untied(r).listed = r.listed
           /\ Untied(r).mDestroyed = r.mDestroyed /\ Untied(r).mCurrentCount = r.mCurrentCount
BY DEF SurfaceRecs, Untied

\* Once s has no texture, and the one it had is bound to no surface.
LEMMA UntiedBound ==
    ASSUME NEW w \in Worlds, NEW v \in Worlds, BoundOK(w), NEW s \in Surfaces,
           NEW r \in SurfaceRecs, r.mTexture = null, v.surface = Changed(w.surface, s, r),
           w.surface[s].mTexture # null,
           v.mBoundSurface = Changed(w.mBoundSurface, w.surface[s].mTexture, null)
    PROVE  BoundOK(v)
<1>. SUFFICES ASSUME NEW x \in TextureObjects, v.mBoundSurface[x] # null
              PROVE  v.surface[v.mBoundSurface[x]].mTexture = x
  BY DEF BoundOK
<1>. DEFINE y == w.surface[s].mTexture
<1>1. /\ w.surface \in [Surfaces -> SurfaceRecs]
      /\ w.mBoundSurface \in [TextureObjects -> Surfaces \cup {null}]
  BY DEF Worlds
<1>2. y \in TextureObjects
  BY <1>1 DEF SurfaceRecs
<1>. HIDE DEF y
<1>3. v.mBoundSurface[y] = null /\ \A z \in TextureObjects \ {y} : v.mBoundSurface[z] = w.mBoundSurface[z]
  <2>1. v.mBoundSurface = Changed(w.mBoundSurface, y, null) /\ null \in Surfaces \cup {null}
    BY DEF y
  <2>. QED
    BY <1>1, <1>2, <2>1 DEF Changed
<1>4. x # y /\ v.mBoundSurface[x] = w.mBoundSurface[x]
  BY <1>3
<1>5. w.mBoundSurface[x] \in Surfaces /\ w.surface[w.mBoundSurface[x]].mTexture = x
  BY <1>1, <1>4 DEF BoundOK
<1>6. w.mBoundSurface[x] # s
  BY <1>4, <1>5 DEF y
<1>7. v.surface[w.mBoundSurface[x]] = w.surface[w.mBoundSurface[x]]
  BY <1>1, <1>5, <1>6 DEF Changed
<1>. QED
  BY <1>4, <1>5, <1>7


\* While s keeps its texture, if it has one.
LEMMA SameTextureBound ==
    ASSUME NEW w \in Worlds, NEW v \in Worlds, BoundOK(w), NEW s \in Surfaces,
           NEW r \in SurfaceRecs, r.mTexture = w.surface[s].mTexture,
           v.surface = Changed(w.surface, s, r), SameTextures(v, w)
    PROVE  BoundOK(v)
<1>. SUFFICES ASSUME NEW x \in TextureObjects, v.mBoundSurface[x] # null
              PROVE  v.surface[v.mBoundSurface[x]].mTexture = x
  BY DEF BoundOK
<1>1. /\ w.surface \in [Surfaces -> SurfaceRecs]
      /\ w.mBoundSurface \in [TextureObjects -> Surfaces \cup {null}]
  BY DEF Worlds
<1>2. v.mBoundSurface[x] = w.mBoundSurface[x]
  BY DEF SameTextures
<1>3. w.mBoundSurface[x] \in Surfaces /\ w.surface[w.mBoundSurface[x]].mTexture = x
  BY <1>1, <1>2 DEF BoundOK
<1>4. v.surface[w.mBoundSurface[x]].mTexture = w.surface[w.mBoundSurface[x]].mTexture
  BY <1>1, <1>3 DEF Changed
<1>. QED
  BY <1>2, <1>3, <1>4

LEMMA SetSurfaceStep ==
    ASSUME NEW w \in Worlds, w.ok, NEW s \in Surfaces, NEW r \in SurfaceRecs,
           r.mTexture = w.surface[s].mTexture
    PROVE  SurfaceStep(WithSurface(w, s, r), w, s, r)
<1>. DEFINE v == WithSurface(w, s, r)
<1>1. /\ v \in Worlds /\ v.ok = w.ok /\ v.surface = Changed(w.surface, s, r)
      /\ SameContexts(v, w) /\ SameGroup(v, w) /\ SameTextures(v, w)
  BY WithSurfaceEffect, Zenon
<1>. HIDE DEF v
<1>2. BoundOK(w) => BoundOK(v)
  BY <1>1, SameTextureBound
<1>3. SurfaceStep(v, w, s, r)
  BY <1>1, <1>2 DEF SurfaceStep
<1>. QED
  BY <1>3 DEF v

LEMMA UntieStep ==
    ASSUME NEW w \in Worlds, w.ok, NEW s \in Surfaces, NEW r \in SurfaceRecs,
           w.surface[s].mTexture # null, r.mTexture = null
    PROVE  SurfaceStep(WithSurface(WithBound(w, w.surface[s].mTexture, null), s, r), w, s, r)
<1>. DEFINE x == w.surface[s].mTexture
            u == WithBound(w, x, null)
            v == WithSurface(u, s, r)
<1>1. x \in TextureObjects
  BY DEF Worlds, SurfaceRecs
<1>. HIDE DEF x
<1>2. /\ u \in Worlds /\ u.ok = w.ok /\ u.mBoundSurface = Changed(w.mBoundSurface, x, null)
      /\ u.surface = w.surface /\ SameContexts(u, w) /\ SameGroup(u, w)
  <2>1. null \in Surfaces \cup {null}
    OBVIOUS
  <2>. QED
    BY <1>1, <2>1, WithBoundEffect, Zenon
<1>. HIDE DEF u
<1>3. /\ v \in Worlds /\ v.ok = u.ok /\ v.surface = Changed(u.surface, s, r)
      /\ SameContexts(v, u) /\ SameGroup(v, u) /\ SameTextures(v, u)
  BY <1>2, WithSurfaceEffect, Zenon
<1>. HIDE DEF v
<1>4. BoundOK(w) => BoundOK(v)
  <2>. SUFFICES ASSUME BoundOK(w) PROVE BoundOK(v)
    OBVIOUS
  <2>1. v.mBoundSurface = Changed(w.mBoundSurface, w.surface[s].mTexture, null)
    BY <1>2, <1>3 DEF SameTextures, x
  <2>. QED
    BY <1>2, <1>3, <2>1, UntiedBound
<1>5. SurfaceStep(v, w, s, r)
  BY <1>2, <1>3, <1>4 DEF SurfaceStep, SameContexts, SameGroup
<1>. QED
  BY <1>5 DEF v, u, x

LEMMA LetTextureGoStep ==
    ASSUME NEW w \in Worlds, w.ok, NEW s \in Surfaces, w.surface[s].mTexture # null
    PROVE  SurfaceStep(LetTextureGo(w, s), w, s, Untied(w.surface[s]))
<1>1. w.surface[s] \in SurfaceRecs
  BY DEF Worlds
<1>2. LetTextureGo(w, s) =
          WithSurface(WithBound(w, w.surface[s].mTexture, null), s, Untied(w.surface[s]))
  BY DEF Worlds, LetTextureGo, WithSurface, WithBound, Changed, Untied
<1>. QED
  BY <1>1, <1>2, UntiedType, UntieStep

\* The rest of destroyImpl, when the platform's part is destroyed.
Gone(w, s) ==
    IF w.surface[s].mTexture = null THEN [w EXCEPT !.surface[s] = NoSurface]
    ELSE [LetTextureGo(w, s) EXCEPT !.surface[s] = NoSurface]

LEMMA GoneStep ==
    ASSUME NEW w \in Worlds, w.ok, NEW s \in Surfaces
    PROVE  SurfaceStep(Gone(w, s), w, s, NoSurface)
<1>1. NoSurface.mTexture = null
  BY DEF NoSurface
<1>2. CASE w.surface[s].mTexture = null
  <2>1. Gone(w, s) = WithSurface(w, s, NoSurface)
    BY <1>2 DEF Gone, WithSurface, Changed
  <2>2. NoSurface.mTexture = w.surface[s].mTexture
    BY <1>1, <1>2
  <2>3. SurfaceStep(WithSurface(w, s, NoSurface), w, s, NoSurface)
    BY <2>2, NoSurfaceType, SetSurfaceStep
  <2>. QED
    BY <2>1, <2>3, Zenon
<1>3. CASE w.surface[s].mTexture # null
  <2>1. Gone(w, s) = [LetTextureGo(w, s) EXCEPT !.surface[s] = NoSurface]
    BY <1>3 DEF Gone
  <2>2. [LetTextureGo(w, s) EXCEPT !.surface[s] = NoSurface] =
            WithSurface(WithBound(w, w.surface[s].mTexture, null), s, NoSurface)
    BY Zenon DEF Worlds, LetTextureGo, WithSurface, WithBound, Changed
  <2>3. SurfaceStep(WithSurface(WithBound(w, w.surface[s].mTexture, null), s, NoSurface),
                    w, s, NoSurface)
    BY <1>1, <1>3, NoSurfaceType, UntieStep
  <2>. QED
    BY <2>1, <2>2, <2>3, Zenon
<1>. QED
  BY <1>2, <1>3, Zenon

LEMMA SurfaceStepTwice ==
    ASSUME NEW w \in Worlds, NEW v, NEW u, NEW s \in Surfaces, NEW r, NEW q,
           SurfaceStep(v, w, s, r), SurfaceStep(u, v, s, q)
    PROVE  SurfaceStep(u, w, s, q)
<1>1. Changed(Changed(w.surface, s, r), s, q) = Changed(w.surface, s, q)
  BY DEF Worlds, Changed
<1>. QED
  BY <1>1 DEF SurfaceStep, SameContexts, SameGroup

Torn(r) == [r EXCEPT !.torn = TRUE]

LEMMA TornType ==
    ASSUME NEW r \in SurfaceRecs
    PROVE  Torn(r) \in SurfaceRecs /\ Torn(r).mTexture = r.mTexture
BY DEF SurfaceRecs, Torn

LEMMA destroyImplStep ==
    ASSUME NEW w \in Worlds, w.ok, NEW s \in Surfaces
    PROVE  SurfaceStep(destroyImpl(w, s, FALSE), w, s, NoSurface)
<1>. DEFINE r == w.surface[s]
            v == [w EXCEPT !.surface[s].torn = TRUE]
<1>1. r \in SurfaceRecs /\ w.surface \in [Surfaces -> SurfaceRecs]
  BY DEF Worlds
<1>2. v = WithSurface(w, s, Torn(r))
  BY <1>1 DEF Worlds, WithSurface, Changed, Torn
<1>3. SurfaceStep(v, w, s, Torn(r))
  BY <1>1, <1>2, TornType, SetSurfaceStep
<1>4. v \in Worlds /\ v.ok /\ v.surface[s].mTexture = r.mTexture
  BY <1>1, <1>3, TornType DEF SurfaceStep, Changed
<1>5. destroyImpl(w, s, FALSE) = Gone(v, s)
  <2>1. CASE r.mTexture = null
    <3>1. destroyImpl(w, s, FALSE) = Then(v, LAMBDA u : [u EXCEPT !.surface[s] = NoSurface])
      BY <2>1 DEF destroyImpl
    <3>. HIDE DEF v
    <3>. QED
      BY <1>4, <2>1, <3>1 DEF Then, Gone
  <2>2. CASE r.mTexture # null
    <3>1. destroyImpl(w, s, FALSE) =
              Then(LetTextureGo(v, s), LAMBDA u : [u EXCEPT !.surface[s] = NoSurface])
      BY <2>2 DEF destroyImpl
    <3>. HIDE DEF v
    <3>2. LetTextureGo(v, s).ok
      BY <1>4, <2>2, LetTextureGoStep DEF SurfaceStep
    <3>. QED
      BY <1>4, <2>2, <3>1, <3>2 DEF Then, Gone
  <2>. QED
    BY <2>1, <2>2
<1>. HIDE DEF v, r
<1>6. SurfaceStep(Gone(v, s), v, s, NoSurface)
  BY <1>4, GoneStep
<1>7. SurfaceStep(Gone(v, s), w, s, NoSurface)
  BY <1>3, <1>6, SurfaceStepTwice, Zenon
<1>. QED
  BY <1>5, <1>7, Zenon

LessCurrent(r) == [r EXCEPT !.mCurrentCount = @ - 1]
Unlisted(r) == [r EXCEPT !.listed = FALSE, !.mDestroyed = TRUE]

\* A surface's fields after setNotCurrent and destroySurface.
Dropped(r) == IF r.mCurrentCount = 1 /\ r.mDestroyed THEN NoSurface ELSE LessCurrent(r)
Destroyed(r) == IF r.mCurrentCount = 0 THEN NoSurface ELSE Unlisted(r)

LEMMA LessCurrentType ==
    ASSUME NEW r \in SurfaceRecs
    PROVE  /\ LessCurrent(r) \in SurfaceRecs /\ LessCurrent(r).mTexture = r.mTexture
           /\ LessCurrent(r).mCurrentCount = r.mCurrentCount - 1
           /\ LessCurrent(r).mDestroyed = r.mDestroyed /\ LessCurrent(r).live = r.live
           /\ LessCurrent(r).listed = r.listed
BY DEF SurfaceRecs, LessCurrent

LEMMA UnlistedType ==
    ASSUME NEW r \in SurfaceRecs
    PROVE  /\ Unlisted(r) \in SurfaceRecs /\ Unlisted(r).mTexture = r.mTexture
           /\ Unlisted(r).mCurrentCount = r.mCurrentCount
           /\ Unlisted(r).mDestroyed /\ Unlisted(r).live = r.live /\ ~Unlisted(r).listed
BY Zenon DEF SurfaceRecs, Unlisted

\* A count that is right stays right when one context lets the surface go, and
\* the last one to let a destroyed surface go deletes it.
LEMMA NoSurfaceOK ==
    ASSUME NEW r, r = NoSurface
    PROVE  SurfaceOK(r, 0) /\ ~r.listed /\ ~r.live
BY Zenon DEF NoSurface, SurfaceOK

LEMMA DroppedOK ==
    ASSUME NEW r \in SurfaceRecs, NEW n \in Nat, n # 0, SurfaceOK(r, n)
    PROVE  Dropped(r) \in SurfaceRecs /\ SurfaceOK(Dropped(r), n - 1)
<1>1. NoSurface \in SurfaceRecs /\ NoSurface.mCurrentCount = 0 /\ ~NoSurface.live
      /\ ~NoSurface.listed /\ ~NoSurface.mDestroyed
  BY DEF NoSurface, SurfaceRecs
<1>2. r.mCurrentCount = n /\ r.live = (r.listed \/ r.mDestroyed) /\ ~(r.listed /\ r.mDestroyed)
      /\ (~r.live => r = NoSurface)
  BY DEF SurfaceOK
<1>3. r.live
  BY <1>1, <1>2
<1>4. CASE r.mCurrentCount = 1 /\ r.mDestroyed
  <2>1. Dropped(r) = NoSurface
    BY <1>4, Zenon DEF Dropped
  <2>2. n - 1 = 0
    BY <1>2, <1>4
  <2>. QED
    BY <1>1, <2>1, <2>2, NoSurfaceOK
<1>5. CASE ~(r.mCurrentCount = 1 /\ r.mDestroyed)
  <2>1. Dropped(r) = LessCurrent(r)
    BY <1>5 DEF Dropped
  <2>2. r.mDestroyed => n - 1 # 0
    BY <1>2, <1>5
  <2>. QED
    BY <1>2, <1>3, <2>1, <2>2, LessCurrentType DEF SurfaceOK
<1>. QED
  BY <1>4, <1>5

LEMMA DestroyedOK ==
    ASSUME NEW r \in SurfaceRecs, NEW n \in Nat, SurfaceOK(r, n), r.live
    PROVE  Destroyed(r) \in SurfaceRecs /\ SurfaceOK(Destroyed(r), n) /\ ~Destroyed(r).listed
           /\ (n = 0 => ~Destroyed(r).live)
<1>1. NoSurface \in SurfaceRecs /\ NoSurface.mCurrentCount = 0 /\ ~NoSurface.live
      /\ ~NoSurface.listed /\ ~NoSurface.mDestroyed
  BY DEF NoSurface, SurfaceRecs
<1>2. r.mCurrentCount = n
  BY DEF SurfaceOK
<1>3. CASE n = 0
  <2>1. Destroyed(r) = NoSurface
    BY <1>2, <1>3, Zenon DEF Destroyed
  <2>. QED
    BY <1>1, <1>3, <2>1, NoSurfaceOK
<1>4. CASE n # 0
  <2>1. Destroyed(r) = Unlisted(r)
    BY <1>2, <1>4 DEF Destroyed
  <2>. QED
    BY <1>2, <1>4, <2>1, UnlistedType, Zenon DEF SurfaceOK
<1>. QED
  BY <1>3, <1>4

LEMMA setNotCurrentStep ==
    ASSUME NEW w \in Worlds, w.ok, NEW s \in Surfaces
    PROVE  SurfaceStep(setNotCurrent(w, s, FALSE), w, s, Dropped(w.surface[s]))
<1>. DEFINE r == w.surface[s]
            v == WithSurface(w, s, LessCurrent(r))
<1>1. r \in SurfaceRecs /\ w.surface \in [Surfaces -> SurfaceRecs]
  BY DEF Worlds
<1>2. [w EXCEPT !.surface[s].mCurrentCount = @ - 1] = v
  BY DEF Worlds, WithSurface, Changed, LessCurrent
<1>3. SurfaceStep(v, w, s, LessCurrent(r))
  BY <1>1, LessCurrentType, SetSurfaceStep
<1>4. v \in Worlds /\ v.ok /\ v.surface[s] = LessCurrent(r)
  BY <1>1, <1>3 DEF SurfaceStep, Changed
<1>. HIDE DEF v, r
<1>5. v.surface[s].mCurrentCount = r.mCurrentCount - 1 /\ v.surface[s].mDestroyed = r.mDestroyed
      /\ r.mCurrentCount \in Int
  BY <1>1, <1>4, LessCurrentType DEF SurfaceRecs
<1>6. setNotCurrent(w, s, FALSE) =
          IF v.surface[s].mCurrentCount = 0 /\ v.surface[s].mDestroyed
          THEN destroyImpl(v, s, FALSE) ELSE v
  BY <1>2, Zenon DEF setNotCurrent
<1>7. CASE r.mCurrentCount = 1 /\ r.mDestroyed
  <2>. Dropped(r) = NoSurface
    BY <1>7, Zenon DEF Dropped
  <2>1. setNotCurrent(w, s, FALSE) = destroyImpl(v, s, FALSE)
    <3>1. v.surface[s].mCurrentCount = 0
      BY <1>5, <1>7
    <3>. QED
      BY <1>5, <1>6, <1>7, <3>1, Zenon
  <2>2. SurfaceStep(destroyImpl(v, s, FALSE), v, s, NoSurface)
    BY <1>4, destroyImplStep, Zenon
  <2>3. SurfaceStep(destroyImpl(v, s, FALSE), w, s, NoSurface)
    BY <1>3, <2>2, SurfaceStepTwice, Zenon
  <2>. QED
    BY <2>1, <2>3, Zenon DEF r
<1>8. CASE ~(r.mCurrentCount = 1 /\ r.mDestroyed)
  <2>. Dropped(r) = LessCurrent(r)
    BY <1>8, Zenon DEF Dropped
  <2>1. setNotCurrent(w, s, FALSE) = v
    <3>1. v.surface[s].mCurrentCount = 0 => r.mCurrentCount = 1
      BY <1>5
    <3>. QED
      BY <1>5, <1>6, <1>8, <3>1, Zenon
  <2>. QED
    BY <1>3, <2>1, Zenon DEF r
<1>. QED
  BY <1>7, <1>8, Zenon

LEMMA destroySurfaceStep ==
    ASSUME NEW w \in Worlds, w.ok, NEW s \in Surfaces
    PROVE  SurfaceStep(destroySurface(w, s, FALSE), w, s, Destroyed(w.surface[s]))
<1>. DEFINE r == w.surface[s]
            v == WithSurface(w, s, Unlisted(r))
<1>1. r \in SurfaceRecs /\ w.surface \in [Surfaces -> SurfaceRecs]
  BY DEF Worlds
<1>2. [w EXCEPT !.surface[s] = [@ EXCEPT !.listed = FALSE, !.mDestroyed = TRUE]] = v
  BY DEF Worlds, WithSurface, Changed, Unlisted
<1>3. SurfaceStep(v, w, s, Unlisted(r))
  BY <1>1, UnlistedType, SetSurfaceStep
<1>4. v \in Worlds /\ v.ok /\ v.surface[s] = Unlisted(r)
  BY <1>1, <1>3 DEF SurfaceStep, Changed
<1>. HIDE DEF v, r
<1>5. v.surface[s].mCurrentCount = r.mCurrentCount
  BY <1>1, <1>4, UnlistedType
<1>6. destroySurface(w, s, FALSE) =
          IF v.surface[s].mCurrentCount = 0 THEN destroyImpl(v, s, FALSE) ELSE v
  BY <1>2, Zenon DEF destroySurface
<1>7. CASE r.mCurrentCount = 0
  <2>1. destroySurface(w, s, FALSE) = destroyImpl(v, s, FALSE) /\ Destroyed(r) = NoSurface
    BY <1>5, <1>6, <1>7, Zenon DEF Destroyed
  <2>2. SurfaceStep(destroyImpl(v, s, FALSE), v, s, NoSurface)
    BY <1>4, destroyImplStep, Zenon
  <2>3. SurfaceStep(destroyImpl(v, s, FALSE), w, s, NoSurface)
    BY <1>3, <2>2, SurfaceStepTwice, Zenon
  <2>. QED
    BY <2>1, <2>3, Zenon DEF r
<1>8. CASE r.mCurrentCount # 0
  <2>1. destroySurface(w, s, FALSE) = v /\ Destroyed(r) = Unlisted(r)
    BY <1>5, <1>6, <1>8, Zenon DEF Destroyed
  <2>. QED
    BY <1>3, <2>1, Zenon DEF r
<1>. QED
  BY <1>7, <1>8, Zenon


-------------------------------------------------------------------------------
(* How many contexts have a surface.                                       *)

LEMMA HavingFinite ==
    ASSUME NEW w \in Worlds, NEW s
    PROVE  IsFiniteSet(Having(w, s)) /\ Cardinality(Having(w, s)) \in Nat
<1>1. Having(w, s) \subseteq Contexts
  BY DEF Worlds, Having
<1>2. IsFiniteSet(Contexts)
  BY ObjectsAssumption
<1>. QED
  BY <1>1, <1>2, FS_Subset, FS_CardinalityType

LEMMA HavingSame ==
    ASSUME NEW w, NEW v, SameContexts(v, w), NEW s
    PROVE  Having(v, s) = Having(w, s)
BY DEF SameContexts, Having

LEMMA SurfacesSame ==
    ASSUME NEW w, NEW v, SameContexts(v, w), v.surface = w.surface, SurfacesOK(w)
    PROVE  SurfacesOK(v)
BY HavingSame, Zenon DEF SurfacesOK

LEMMA BoundSame ==
    ASSUME NEW w, NEW v, SameTextures(v, w), v.surface = w.surface, BoundOK(w)
    PROVE  BoundOK(v)
BY Zenon DEF BoundOK, SameTextures

LEMMA HavingChanged ==
    ASSUME NEW w \in Worlds, NEW v \in Worlds, NEW c \in w.contexts, NEW q \in ContextRecords,
           v.contexts = w.contexts, v.context = Changed(w.context, c, q), NEW s \in Surfaces
    PROVE  /\ q.mCurrentSurface # s => Having(v, s) = Having(w, s) \ {c}
           /\ q.mCurrentSurface = s => Having(v, s) = Having(w, s) \cup {c}
<1>1. w.context \in [Contexts -> ContextRecords] /\ c \in Contexts /\ w.contexts \subseteq Contexts
  BY DEF Worlds
<1>2. v.context[c] = q /\ \A d \in Contexts \ {c} : v.context[d] = w.context[d]
  BY <1>1 DEF Changed
<1>. QED
  BY <1>1, <1>2 DEF Having

\* A step in which one context changes its fields and the counts of its old or
\* its new surface follow.
ContextStep(v, w, c, q) ==
    /\ v \in Worlds /\ v.ok
    /\ v.contexts = w.contexts /\ v.context = Changed(w.context, c, q)
    /\ SameGroup(v, w) /\ SurfacesOK(v) /\ BoundOK(v)
    /\ \A s \in Surfaces : v.surface[s].listed = w.surface[s].listed

LEMMA DroppedListed ==
    ASSUME NEW r \in SurfaceRecs, NEW n, SurfaceOK(r, n)
    PROVE  Dropped(r).listed = r.listed
<1>1. CASE r.mCurrentCount = 1 /\ r.mDestroyed
  <2>1. Dropped(r) = NoSurface
    BY <1>1, Zenon DEF Dropped
  <2>2. r.listed = FALSE
    BY <1>1 DEF SurfaceOK, SurfaceRecs
  <2>3. NoSurface.listed = FALSE
    BY DEF NoSurface
  <2>. QED
    BY <2>1, <2>2, <2>3, Zenon
<1>2. CASE ~(r.mCurrentCount = 1 /\ r.mDestroyed)
  <2>1. Dropped(r) = LessCurrent(r)
    BY <1>2, Zenon DEF Dropped
  <2>. QED
    BY <2>1, LessCurrentType
<1>. QED
  BY <1>1, <1>2

\* The default framebuffer that releaseSurface takes away, and the context's
\* fields after it.
OldDefault(r, c) ==
    IF r.mCurrentSurface # null THEN r.mCurrentSurface
    ELSE IF r.mSurfacelessFramebuffer THEN c ELSE null

Released(r, c) == [UnbindDefault(r, OldDefault(r, c)) EXCEPT !.mCurrentSurface = null]

LEMMA UnbindDefaultType ==
    ASSUME NEW r \in ContextRecords, NEW old
    PROVE  /\ UnbindDefault(r, old) \in ContextRecords
           /\ UnbindDefault(r, old).mCurrentSurface = r.mCurrentSurface
           /\ UnbindDefault(r, old).mSurfacelessFramebuffer = r.mSurfacelessFramebuffer
           /\ UnbindDefault(r, old).mDisplayTextureShareGroup = r.mDisplayTextureShareGroup
           /\ UnbindDefault(r, old).samplerTexture = r.samplerTexture
           /\ UnbindDefault(r, old).default = null
           /\ UnbindDefault(r, old).mReadFramebuffer =
                  IF r.mReadFramebuffer = old THEN null ELSE r.mReadFramebuffer
           /\ UnbindDefault(r, old).mDrawFramebuffer =
                  IF r.mDrawFramebuffer = old THEN null ELSE r.mDrawFramebuffer
BY Zenon DEF ContextRecords, UnbindDefault, Framebuffers

Surfaceless(r) == [r EXCEPT !.mCurrentSurface = null]

LEMMA SurfacelessType ==
    ASSUME NEW r \in ContextRecords
    PROVE  /\ Surfaceless(r) \in ContextRecords /\ Surfaceless(r).mCurrentSurface = null
           /\ Surfaceless(r).mSurfacelessFramebuffer = r.mSurfacelessFramebuffer
           /\ Surfaceless(r).mDisplayTextureShareGroup = r.mDisplayTextureShareGroup
           /\ Surfaceless(r).samplerTexture = r.samplerTexture
           /\ Surfaceless(r).default = r.default
           /\ Surfaceless(r).mReadFramebuffer = r.mReadFramebuffer
           /\ Surfaceless(r).mDrawFramebuffer = r.mDrawFramebuffer
BY DEF ContextRecords, Surfaceless

LEMMA SurfacelessSame ==
    ASSUME NEW r \in ContextRecords, r.mCurrentSurface = null
    PROVE  Surfaceless(r) = r
BY DEF ContextRecords, Surfaceless

\* releaseSurface leaves no binding to a default framebuffer.
LEMMA ReleasedFields ==
    ASSUME NEW r \in ContextRecords, NEW c \in Contexts
    PROVE  /\ Released(r, c) \in ContextRecords /\ Released(r, c).mCurrentSurface = null
           /\ Released(r, c).mDisplayTextureShareGroup = r.mDisplayTextureShareGroup
           /\ Released(r, c).samplerTexture = r.samplerTexture
           /\ Released(r, c).default = null
           /\ BindingsOK(r, c) => {Released(r, c).mReadFramebuffer, Released(r, c).mDrawFramebuffer}
                                      \subseteq {null, UserFramebuffer}
<1>. DEFINE old == OldDefault(r, c)
            u == UnbindDefault(r, old)
<1>1. Released(r, c) = Surfaceless(u)
  BY DEF Released, Surfaceless
<1>2. \A fb : BindingOK(r, c, fb) => fb \in {null, UserFramebuffer, old}
  BY ObjectsAssumption DEF BindingOK, OldDefault
<1>. HIDE DEF old
<1>3. u \in ContextRecords
  BY UnbindDefaultType
<1>4. BindingsOK(r, c) => {u.mReadFramebuffer, u.mDrawFramebuffer} \subseteq {null, UserFramebuffer}
  BY <1>2, UnbindDefaultType DEF BindingsOK
<1>. QED
  BY <1>1, <1>3, <1>4, UnbindDefaultType, SurfacelessType

LEMMA UnboundOK ==
    ASSUME NEW r, NEW c, r.default = null,
           {r.mReadFramebuffer, r.mDrawFramebuffer} \subseteq {null, UserFramebuffer}
    PROVE  BindingsOK(r, c)
BY DEF BindingsOK, BindingOK


-------------------------------------------------------------------------------
(* releaseSurface and makeCurrent.                                         *)

\* When a context without a surface changes fields other than its surface.
LEMMA OtherFieldsStep ==
    ASSUME NEW w \in Worlds, w.ok, SurfacesOK(w), BoundOK(w), NEW c \in w.contexts,
           NEW q \in ContextRecords, q.mCurrentSurface = w.context[c].mCurrentSurface,
           NEW v, v = WithContext(w, c, q)
    PROVE  ContextStep(v, w, c, q) /\ v.surface = w.surface
<1>1. c \in Contexts
  BY DEF Worlds
<1>2. /\ v \in Worlds /\ v.ok /\ v.context = Changed(w.context, c, q) /\ v.contexts = w.contexts
      /\ v.surface = w.surface /\ SameGroup(v, w) /\ SameTextures(v, w)
  BY <1>1, WithContextEffect
<1>3. \A s \in Surfaces : Having(v, s) = Having(w, s)
  <2>. SUFFICES ASSUME NEW s \in Surfaces PROVE Having(v, s) = Having(w, s)
    OBVIOUS
  <2>1. /\ q.mCurrentSurface # s => Having(v, s) = Having(w, s) \ {c}
        /\ q.mCurrentSurface = s => Having(v, s) = Having(w, s) \cup {c}
    BY <1>2, HavingChanged
  <2>2. c \in Having(w, s) <=> q.mCurrentSurface = s
    BY DEF Having
  <2>. QED
    BY <2>1, <2>2
<1>4. SurfacesOK(v)
  BY <1>2, <1>3 DEF SurfacesOK
<1>5. BoundOK(v)
  BY <1>2 DEF BoundOK, SameTextures
<1>. QED
  BY <1>2, <1>4, <1>5 DEF ContextStep

\* When a context lets its surface go.
LEMMA DropStep ==
    ASSUME NEW w \in Worlds, w.ok, SurfacesOK(w), BoundOK(w), NEW c \in w.contexts,
           NEW s \in Surfaces, w.context[c].mCurrentSurface = s,
           NEW u, SurfaceStep(u, w, s, Dropped(w.surface[s])),
           NEW q \in ContextRecords, q.mCurrentSurface = null,
           NEW v, v = WithContext(u, c, q)
    PROVE  ContextStep(v, w, c, q)
<1>1. c \in Contexts /\ w.surface \in [Surfaces -> SurfaceRecs] /\ null \notin Surfaces
  BY ObjectsAssumption DEF Worlds
<1>2. /\ u \in Worlds /\ u.ok /\ SameContexts(u, w) /\ SameGroup(u, w) /\ BoundOK(u)
      /\ u.surface = Changed(w.surface, s, Dropped(w.surface[s]))
  BY DEF SurfaceStep
<1>3. /\ v \in Worlds /\ v.ok /\ v.context = Changed(w.context, c, q) /\ v.contexts = w.contexts
      /\ v.surface = u.surface /\ SameGroup(v, w) /\ SameTextures(v, u)
  BY <1>1, <1>2, WithContextEffect DEF SameContexts, SameGroup
<1>4. v.surface[s] = Dropped(w.surface[s]) /\ \A p \in Surfaces \ {s} : v.surface[p] = w.surface[p]
  BY <1>1, <1>2, <1>3 DEF Changed
<1>5. \A p \in Surfaces : Having(v, p) = Having(w, p) \ {c}
  BY <1>1, <1>3, HavingChanged
<1>6. c \in Having(w, s) /\ \A p \in Surfaces \ {s} : c \notin Having(w, p)
  BY DEF Having
<1>7. SurfaceOK(v.surface[s], Cardinality(Having(v, s)))
  <2>1. /\ Cardinality(Having(w, s)) \in Nat /\ Cardinality(Having(w, s)) # 0
        /\ Cardinality(Having(v, s)) = Cardinality(Having(w, s)) - 1
    BY <1>5, <1>6, HavingFinite, FS_RemoveElement, FS_EmptySet
  <2>2. w.surface[s] \in SurfaceRecs /\ SurfaceOK(w.surface[s], Cardinality(Having(w, s)))
    BY <1>1 DEF SurfacesOK
  <2>. QED
    BY <1>4, <2>1, <2>2, DroppedOK
<1>8. ASSUME NEW p \in Surfaces \ {s} PROVE SurfaceOK(v.surface[p], Cardinality(Having(v, p)))
  <2>1. Having(v, p) = Having(w, p)
    BY <1>5, <1>6, SMTT(30)
  <2>. QED
    BY <1>4, <2>1 DEF SurfacesOK
<1>9. SurfacesOK(v)
  BY <1>7, <1>8 DEF SurfacesOK
<1>10. BoundOK(v)
  BY <1>2, <1>3 DEF BoundOK, SameTextures
<1>11. \A p \in Surfaces : v.surface[p].listed = w.surface[p].listed
  <2>1. Dropped(w.surface[s]).listed = w.surface[s].listed
    BY <1>1, DroppedListed DEF SurfacesOK
  <2>. QED
    BY <1>4, <2>1
<1>. QED
  BY <1>3, <1>9, <1>10, <1>11 DEF ContextStep

LEMMA releaseSurfaceStep ==
    ASSUME NEW w \in Worlds, w.ok, SurfacesOK(w), BoundOK(w), NEW c \in w.contexts
    PROVE  ContextStep(releaseSurface(w, c, FALSE), w, c, Released(w.context[c], c))
<1>. DEFINE r == w.context[c]
            q == UnbindDefault(r, OldDefault(r, c))
            s == r.mCurrentSurface
            u == WithContext(w, c, q)
            n == setNotCurrent(u, s, FALSE)
            v == releaseSurface(w, c, FALSE)
<1>1. c \in Contexts /\ r \in ContextRecords
  BY DEF Worlds
<1>2. q \in ContextRecords /\ q.mCurrentSurface = s
  BY <1>1, UnbindDefaultType
<1>3. Released(r, c) = Surfaceless(q)
  BY DEF Released, Surfaceless
<1>4. [w EXCEPT !.context[c] = UnbindDefault(@, OldDefault(r, c))] = u
  BY DEF WithContext, Changed
<1>5. ContextStep(u, w, c, q) /\ u.surface = w.surface
  BY <1>2, OtherFieldsStep
<1>6. v = IF s = null THEN u
          ELSE Then(n, LAMBDA x : [x EXCEPT !.context[c].mCurrentSurface = null])
  BY <1>4, Zenon DEF releaseSurface, OldDefault
<1>7. CASE s = null
  <2>1. Surfaceless(q) = q
    BY <1>2, <1>7, SurfacelessSame
  <2>. QED
    BY <1>3, <1>5, <1>6, <1>7, <2>1, Zenon
<1>8. CASE s # null
  <2>1. s \in Surfaces
    BY <1>1, <1>8 DEF ContextRecords
  <2>2. u \in Worlds /\ u.ok /\ SurfacesOK(u) /\ BoundOK(u) /\ c \in u.contexts
    BY <1>5, Zenon DEF ContextStep
  <2>3. u.context[c] = q
    BY <1>1, <1>5 DEF ContextStep, Changed, Worlds
  <2>4. SurfaceStep(n, u, s, Dropped(u.surface[s]))
    BY <2>1, <2>2, setNotCurrentStep, Zenon
  <2>5. n \in Worlds /\ n.ok /\ n.context = u.context
    BY <2>4, Zenon DEF SurfaceStep, SameContexts
  <2>. HIDE DEF n, u, v, q, r, s
  <2>6. v = [n EXCEPT !.context[c].mCurrentSurface = null]
    BY <1>6, <1>8, <2>5 DEF Then
  <2>7. v = WithContext(n, c, Surfaceless(q))
    BY <1>1, <2>3, <2>5, <2>6 DEF Worlds, WithContext, Changed, Surfaceless
  <2>8. ContextStep(v, u, c, Surfaceless(q))
    BY <1>2, <2>1, <2>2, <2>3, <2>4, <2>7, SurfacelessType, DropStep
  <2>9. Changed(Changed(w.context, c, q), c, Surfaceless(q)) = Changed(w.context, c, Surfaceless(q))
    BY <1>1 DEF Changed, Worlds
  <2>10. ContextStep(v, w, c, Surfaceless(q))
    BY <1>5, <2>8, <2>9 DEF ContextStep, SameGroup
  <2>. QED
    BY <1>3, <2>10, Zenon DEF v, r
<1>. QED
  BY <1>7, <1>8, Zenon


MoreCurrent(r) == [r EXCEPT !.mCurrentCount = @ + 1]

LEMMA MoreCurrentType ==
    ASSUME NEW r \in SurfaceRecs
    PROVE  /\ MoreCurrent(r) \in SurfaceRecs /\ MoreCurrent(r).mTexture = r.mTexture
           /\ MoreCurrent(r).mCurrentCount = r.mCurrentCount + 1
           /\ MoreCurrent(r).mDestroyed = r.mDestroyed /\ MoreCurrent(r).live = r.live
           /\ MoreCurrent(r).listed = r.listed
BY DEF SurfaceRecs, MoreCurrent

LEMMA MoreCurrentOK ==
    ASSUME NEW r \in SurfaceRecs, NEW n \in Nat, SurfaceOK(r, n), r.listed
    PROVE  /\ MoreCurrent(r) \in SurfaceRecs /\ SurfaceOK(MoreCurrent(r), n + 1)
           /\ MoreCurrent(r).mTexture = r.mTexture /\ MoreCurrent(r).listed = r.listed
<1>1. r.mCurrentCount = n /\ r.live = (r.listed \/ r.mDestroyed) /\ ~r.mDestroyed
  BY DEF SurfaceOK
<1>. QED
  BY <1>1, MoreCurrentType, Zenon DEF SurfaceOK

\* makeCurrent replaces the bindings that releaseSurface cleared by the default
\* framebuffer of the new surface.
LEMMA BindDefaultFields ==
    ASSUME NEW r \in ContextRecords, NEW c \in Contexts, NEW s \in Surfaces \cup {null},
           r.default = null,
           {r.mReadFramebuffer, r.mDrawFramebuffer} \subseteq {null, UserFramebuffer}
    PROVE  /\ BindDefault(r, c, s) \in ContextRecords /\ BindDefault(r, c, s).mCurrentSurface = s
           /\ BindDefault(r, c, s).mDisplayTextureShareGroup = r.mDisplayTextureShareGroup
           /\ BindDefault(r, c, s).samplerTexture = r.samplerTexture
           /\ BindingsOK(BindDefault(r, c, s), c) /\ Bound(BindDefault(r, c, s))
<1>. DEFINE new == IF s = null THEN c ELSE s
            q == BindDefault(r, c, s)
<1>1. new \in Framebuffers /\ new # null /\ UserFramebuffer # null
  BY ObjectsAssumption DEF Framebuffers
<1>. HIDE DEF new
<1>2. q \in ContextRecords
  BY <1>1, Zenon DEF BindDefault, new, ContextRecords
<1>3. /\ q.mCurrentSurface = s /\ q.default = new
      /\ q.mSurfacelessFramebuffer = (r.mSurfacelessFramebuffer \/ s = null)
      /\ q.mDisplayTextureShareGroup = r.mDisplayTextureShareGroup
      /\ q.samplerTexture = r.samplerTexture
      /\ q.mReadFramebuffer = (IF r.mReadFramebuffer = null THEN new ELSE r.mReadFramebuffer)
      /\ q.mDrawFramebuffer = (IF r.mDrawFramebuffer = null THEN new ELSE r.mDrawFramebuffer)
  BY DEF BindDefault, new, ContextRecords
<1>. HIDE DEF q
<1>4. {q.mReadFramebuffer, q.mDrawFramebuffer, q.default} \subseteq {new, UserFramebuffer}
  BY <1>3
<1>5. BindingOK(q, c, new) /\ BindingOK(q, c, UserFramebuffer)
  BY <1>3, ObjectsAssumption, Zenon DEF BindingOK, new
<1>6. BindingsOK(q, c) /\ Bound(q)
  BY <1>1, <1>4, <1>5 DEF BindingsOK, Bound
<1>. QED
  BY <1>2, <1>3, <1>6 DEF q

LEMMA MakeSurfaceCurrentStep ==
    ASSUME NEW w \in Worlds, w.ok, SurfacesOK(w), BoundOK(w), NEW c \in w.contexts,
           NEW s \in Surfaces \cup {null}, s # null => w.surface[s].listed,
           w.context[c].mCurrentSurface = null,
           BindDefault(w.context[c], c, s) \in ContextRecords, BindDefault(w.context[c], c, s).mCurrentSurface = s
    PROVE  ContextStep(MakeSurfaceCurrent(w, c, s), w, c, BindDefault(w.context[c], c, s))
<1>. DEFINE q == BindDefault(w.context[c], c, s)
            v == MakeSurfaceCurrent(w, c, s)
<1>1. c \in Contexts /\ w.surface \in [Surfaces -> SurfaceRecs] /\ null \notin Surfaces
  BY ObjectsAssumption DEF Worlds
<1>. DEFINE y == IF s = null THEN w ELSE [w EXCEPT !.surface[s].mCurrentCount = @ + 1]
<1>2. v = [y EXCEPT !.context[c] = BindDefault(@, c, s)]
  BY DEF MakeSurfaceCurrent
<1>3. v = WithContext(y, c, q)
  <2>1. y.context = w.context
    BY DEF Worlds
  <2>. HIDE DEF y
  <2>. QED
    BY <1>2, <2>1 DEF WithContext, Changed
<1>4. CASE s = null
  <2>1. v = WithContext(w, c, q)
    <3>1. y = w
      BY <1>4 DEF Worlds
    <3>. HIDE DEF y, v, q
    <3>. QED
      BY <1>3, <3>1
  <2>. HIDE DEF q, v
  <2>2. ContextStep(v, w, c, q)
    BY <1>4, <2>1, OtherFieldsStep DEF q
  <2>. QED
    BY <2>2 DEF v, q
<1>5. CASE s # null
  <2>. DEFINE m == MoreCurrent(w.surface[s])
              u == WithSurface(w, s, m)
  <2>1. s \in Surfaces
    BY <1>5
  <2>2. v = WithContext(u, c, q)
    <3>1. y = u
      BY <1>5, <2>1 DEF WithSurface, Changed, MoreCurrent, Worlds
    <3>. HIDE DEF y, v, q, u
    <3>. QED
      BY <1>3, <3>1
  <2>3. /\ m \in SurfaceRecs /\ SurfaceOK(m, Cardinality(Having(w, s)) + 1)
        /\ m.mTexture = w.surface[s].mTexture /\ m.listed = w.surface[s].listed
    BY <1>1, <1>5, <2>1, HavingFinite, MoreCurrentOK DEF SurfacesOK
  <2>4. SurfaceStep(u, w, s, m)
    BY <2>1, <2>3, SetSurfaceStep
  <2>. HIDE DEF q, v, u, m
  <2>5. /\ u \in Worlds /\ u.ok /\ SameContexts(u, w) /\ SameGroup(u, w) /\ BoundOK(u)
        /\ u.surface = Changed(w.surface, s, m)
    BY <2>4 DEF SurfaceStep
  <2>6. /\ v \in Worlds /\ v.ok /\ v.context = Changed(w.context, c, q) /\ v.contexts = w.contexts
        /\ v.surface = u.surface /\ SameGroup(v, w) /\ SameTextures(v, u)
    BY <1>1, <2>2, <2>5, WithContextEffect, SMTT(30) DEF SameContexts, SameGroup, q
  <2>7. v.surface[s] = m /\ \A p \in Surfaces \ {s} : v.surface[p] = w.surface[p]
    BY <1>1, <2>1, <2>5, <2>6 DEF Changed
  <2>8. \A p \in Surfaces : c \notin Having(w, p)
    BY <1>1 DEF Having
  <2>9. Having(v, s) = Having(w, s) \cup {c}
    BY <2>1, <2>6, HavingChanged DEF q
  <2>10. \A p \in Surfaces \ {s} : Having(v, p) = Having(w, p)
    <3>1. \A p \in Surfaces \ {s} : Having(v, p) = Having(w, p) \ {c}
      BY <2>6, HavingChanged DEF q
    <3>. QED
      BY <2>8, <3>1
  <2>11. Cardinality(Having(v, s)) = Cardinality(Having(w, s)) + 1
    <3>1. IsFiniteSet(Having(w, s)) /\ c \notin Having(w, s)
      BY <2>1, <2>8, HavingFinite
    <3>2. Cardinality(Having(w, s) \cup {c}) = Cardinality(Having(w, s)) + 1
      BY <3>1, FS_AddElement, Zenon
    <3>. QED
      BY <2>9, <3>2
  <2>12. SurfacesOK(v)
    BY <2>3, <2>7, <2>10, <2>11 DEF SurfacesOK
  <2>13. BoundOK(v)
    BY <2>5, <2>6 DEF BoundOK, SameTextures
  <2>14. ContextStep(v, w, c, q)
    BY <2>3, <2>6, <2>7, <2>12, <2>13, Zenon DEF ContextStep
  <2>. QED
    BY <2>14 DEF v, q
<1>. QED
  BY <1>4, <1>5


\* The other contexts, and what the client has listed, are left alone.
OnlyContext(v, w, c) ==
    /\ v.contexts = w.contexts
    /\ \A d \in Contexts \ {c} : v.context[d] = w.context[d]
    /\ \A s \in Surfaces : v.surface[s].listed = w.surface[s].listed

\* q can be the fields of context c, which does not leave or join the group.
Follows(q, w, c) ==
    /\ q \in ContextRecords /\ BindingsOK(q, c) /\ q.samplerTexture # null
    /\ q.mDisplayTextureShareGroup = w.context[c].mDisplayTextureShareGroup

GoodWith(v, w, c, q) == Good(v) /\ OnlyContext(v, w, c) /\ v.context[c] = q

LEMMA ContextStepGood ==
    ASSUME NEW w, Good(w), NEW c, c \in w.contexts, NEW q, Follows(q, w, c), NEW v,
           ContextStep(v, w, c, q)
    PROVE  GoodWith(v, w, c, q)
<1>0. /\ q \in ContextRecords /\ BindingsOK(q, c) /\ q.samplerTexture # null
      /\ q.mDisplayTextureShareGroup = w.context[c].mDisplayTextureShareGroup
  BY DEF Follows
<1>1. w \in Worlds /\ ContextsOK(w) /\ GroupOK(w)
  BY DEF Good
<1>2. c \in Contexts /\ w.context \in [Contexts -> ContextRecords] /\ w.contexts \subseteq Contexts
  BY <1>1 DEF Worlds
<1>3. /\ v \in Worlds /\ v.ok /\ v.contexts = w.contexts /\ v.context = Changed(w.context, c, q)
      /\ SameGroup(v, w) /\ SurfacesOK(v) /\ BoundOK(v)
      /\ \A s \in Surfaces : v.surface[s].listed = w.surface[s].listed
  BY DEF ContextStep
<1>4. v.context[c] = q /\ \A d \in Contexts \ {c} : v.context[d] = w.context[d]
  BY <1>0, <1>2, <1>3 DEF Changed
<1>5. ContextsOK(v)
  BY <1>0, <1>1, <1>3, <1>4 DEF ContextsOK
<1>6. Users(v) = Users(w)
  BY <1>0, <1>2, <1>3, <1>4 DEF Users
<1>7. GroupOK(v)
  BY <1>1, <1>3, <1>6 DEF GroupOK, SameGroup
<1>. QED
  BY <1>3, <1>4, <1>5, <1>7, Zenon DEF Good, OnlyContext, GoodWith

LEMMA releaseSurfaceGood ==
    ASSUME NEW w, Good(w), NEW c \in w.contexts, NEW v, v = releaseSurface(w, c, FALSE)
    PROVE  /\ Good(v) /\ OnlyContext(v, w, c)
           /\ v.context[c] = Released(w.context[c], c)
<1>. DEFINE q == Released(w.context[c], c)
<1>1. w \in Worlds /\ w.ok /\ SurfacesOK(w) /\ BoundOK(w) /\ ContextsOK(w)
  BY DEF Good
<1>2. c \in Contexts /\ w.context[c] \in ContextRecords
  BY <1>1 DEF Worlds
<1>3. ContextStep(v, w, c, q)
  BY <1>1, releaseSurfaceStep, Zenon
<1>4. BindingsOK(w.context[c], c) /\ w.context[c].samplerTexture # null
  BY <1>1, <1>2 DEF ContextsOK
<1>5. /\ q \in ContextRecords /\ q.samplerTexture # null /\ q.default = null
      /\ q.mDisplayTextureShareGroup = w.context[c].mDisplayTextureShareGroup
      /\ {q.mReadFramebuffer, q.mDrawFramebuffer} \subseteq {null, UserFramebuffer}
  BY <1>2, <1>4, ReleasedFields
<1>6. Follows(q, w, c)
  BY <1>5, UnboundOK DEF Follows
<1>. HIDE DEF q
<1>7. GoodWith(v, w, c, q)
  BY <1>3, <1>6, ContextStepGood, Zenon
<1>. QED
  BY <1>7, Zenon DEF q, GoodWith

LEMMA makeCurrentGood ==
    ASSUME NEW w, Good(w), NEW c \in w.contexts,
           NEW s \in Surfaces \cup {null}, s # null => w.surface[s].listed,
           NEW v, v = makeCurrent(w, c, s, FALSE)
    PROVE  Good(v) /\ OnlyContext(v, w, c) /\ Bound(v.context[c])
<1>. DEFINE u == releaseSurface(w, c, FALSE)
            r == Released(w.context[c], c)
            q == BindDefault(r, c, s)
<1>1. Good(u) /\ OnlyContext(u, w, c) /\ u.context[c] = r
  BY releaseSurfaceGood, Zenon
<1>2. c \in Contexts /\ w.context[c] \in ContextRecords /\ BindingsOK(w.context[c], c)
      /\ w.context[c].samplerTexture # null
  BY DEF Good, Worlds, ContextsOK
<1>3. /\ r \in ContextRecords /\ r.default = null /\ r.mCurrentSurface = null
      /\ {r.mReadFramebuffer, r.mDrawFramebuffer} \subseteq {null, UserFramebuffer}
      /\ r.samplerTexture # null
  BY <1>2, ReleasedFields
<1>4. v = MakeSurfaceCurrent(u, c, s)
  BY <1>1, Zenon DEF makeCurrent, Then, Good
<1>. HIDE DEF u, r
<1>5. /\ q \in ContextRecords /\ q.mCurrentSurface = s /\ q.samplerTexture # null
      /\ q.mDisplayTextureShareGroup = r.mDisplayTextureShareGroup
      /\ BindingsOK(q, c) /\ Bound(q)
  BY <1>2, <1>3, BindDefaultFields
<1>6. u \in Worlds /\ u.ok /\ SurfacesOK(u) /\ BoundOK(u) /\ c \in u.contexts
      /\ (s # null => u.surface[s].listed)
  BY <1>1 DEF Good, OnlyContext
<1>7. ContextStep(v, u, c, q)
  BY <1>1, <1>3, <1>4, <1>5, <1>6, MakeSurfaceCurrentStep, Zenon
<1>. HIDE DEF q
<1>8. GoodWith(v, u, c, q)
  <2>1. Follows(q, u, c)
    BY <1>1, <1>5 DEF Follows
  <2>. QED
    BY <1>1, <1>6, <1>7, <2>1, ContextStepGood, Zenon
<1>. QED
  BY <1>1, <1>5, <1>8, ZenonT(30) DEF OnlyContext, GoodWith

\* The client cannot name s any more; the other surfaces are as before.
WithoutSurface(v, w, s) ==
    /\ Good(v) /\ SameContexts(v, w) /\ ~v.surface[s].listed
    /\ \A p \in Surfaces \ {s} : v.surface[p] = w.surface[p]

LEMMA destroySurfaceGood ==
    ASSUME NEW w, Good(w), NEW s \in Surfaces, w.surface[s].listed,
           NEW v, v = destroySurface(w, s, FALSE)
    PROVE  WithoutSurface(v, w, s)
<1>1. w \in Worlds /\ w.ok /\ SurfacesOK(w) /\ BoundOK(w) /\ ContextsOK(w) /\ GroupOK(w)
  BY DEF Good
<1>2. w.surface \in [Surfaces -> SurfaceRecs]
  BY <1>1 DEF Worlds
<1>3. SurfaceStep(v, w, s, Destroyed(w.surface[s]))
  BY <1>1, destroySurfaceStep, Zenon
<1>4. /\ v \in Worlds /\ v.ok /\ SameContexts(v, w) /\ SameGroup(v, w) /\ BoundOK(v)
      /\ v.surface[s] = Destroyed(w.surface[s])
      /\ \A p \in Surfaces \ {s} : v.surface[p] = w.surface[p]
  BY <1>1, <1>2, <1>3, Zenon DEF SurfaceStep, Changed
<1>5. SurfaceOK(w.surface[s], Cardinality(Having(w, s))) /\ w.surface[s].live
  BY <1>1, Zenon DEF SurfacesOK, SurfaceOK
<1>6. SurfaceOK(v.surface[s], Cardinality(Having(w, s))) /\ ~v.surface[s].listed
  BY <1>1, <1>2, <1>4, <1>5, HavingFinite, DestroyedOK, Zenon
<1>7. SurfacesOK(v)
  <2>1. ASSUME NEW p \in Surfaces PROVE SurfaceOK(v.surface[p], Cardinality(Having(v, p)))
    <3>1. Having(v, p) = Having(w, p)
      BY <1>4, HavingSame, Zenon
    <3>2. CASE p = s
      BY <1>6, <3>1, <3>2, Zenon
    <3>3. CASE p # s
      BY <1>1, <1>4, <3>1, <3>3, Zenon DEF SurfacesOK
    <3>. QED
      BY <3>2, <3>3, Zenon
  <2>. QED
    BY <2>1, Zenon DEF SurfacesOK
<1>8. ContextsOK(v)
  BY <1>1, <1>4, Zenon DEF ContextsOK, SameContexts
<1>9. Users(v) = Users(w)
  BY <1>4, Zenon DEF Users, SameContexts
<1>10. GroupOK(v)
  BY <1>1, <1>4, <1>9, Zenon DEF GroupOK, SameContexts, SameGroup
<1>. QED
  BY <1>4, <1>6, <1>7, <1>8, <1>10, Zenon DEF Good, WithoutSurface


-------------------------------------------------------------------------------
(* destroyContext.                                                         *)

LEMMA UsersFinite ==
    ASSUME NEW w \in Worlds
    PROVE  IsFiniteSet(Users(w)) /\ Cardinality(Users(w)) \in Nat
<1>1. Users(w) \subseteq Contexts
  BY DEF Worlds, Users
<1>2. IsFiniteSet(Contexts)
  BY ObjectsAssumption
<1>. QED
  BY <1>1, <1>2, FS_Subset, FS_CardinalityType

WithGroup(w, g) == [w EXCEPT !.group = g]

LEMMA WithGroupEffect ==
    ASSUME NEW w \in Worlds, NEW g \in Groups, NEW v, v = WithGroup(w, g)
    PROVE  /\ v \in Worlds /\ v.ok = w.ok /\ v.group = g /\ v.manager = w.manager
           /\ v.surface = w.surface /\ SameContexts(v, w) /\ SameTextures(v, w)
BY DEF WithGroup, Worlds, SameContexts, SameTextures

\* The display's group after a context that uses it has left it.
LeftGroup(g) ==
    IF g.users = 1
    THEN [mTextureManager |-> FALSE, users |-> 0, refs |-> g.refs - 1]
    ELSE [mTextureManager |-> g.mTextureManager, users |-> g.users - 1, refs |-> g.refs]

LEMMA LeaveGroupEffect ==
    ASSUME NEW w \in Worlds, GroupOK(w), NEW c \in w.contexts,
           w.context[c].mDisplayTextureShareGroup
    PROVE  LeaveGroup(w, c) = WithGroup(w, LeftGroup(w.group)) /\ LeftGroup(w.group) \in Groups
<1>. DEFINE g == w.group
<1>1. g \in Groups
  BY DEF Worlds
<1>2. c \in Users(w)
  BY DEF Users
<1>3. g.mTextureManager /\ g.refs = Cardinality(Users(w)) + 1 /\ g.users = Cardinality(Users(w))
  BY <1>2 DEF GroupOK
<1>4. LeftGroup(g) \in Groups
  BY <1>1 DEF LeftGroup, Groups
<1>5. CASE g.users = 1
  <2>1. g.refs - 1 > 0
    BY <1>3, <1>5, UsersFinite
  <2>2. ReleaseManager(w, "group") = [w EXCEPT !.group.refs = @ - 1]
    BY <2>1 DEF ReleaseManager, Worlds, Groups
  <2>3. LeaveGroup(w, c) = [[[w EXCEPT !.group.refs = @ - 1] EXCEPT !.group.mTextureManager = FALSE]
                                EXCEPT !.group.users = @ - 1]
    BY <1>5, <2>2, Zenon DEF LeaveGroup
  <2>4. LeaveGroup(w, c) = WithGroup(w, LeftGroup(g))
    <3>. DEFINE g1 == [g EXCEPT !.refs = @ - 1]
                g2 == [g1 EXCEPT !.mTextureManager = FALSE]
                g3 == [g2 EXCEPT !.users = @ - 1]
                a == WithGroup(w, g1)
                b == WithGroup(a, g2)
    <3>1. g1 \in Groups /\ g1.refs = g.refs - 1 /\ g1.users = 1
      BY <1>1, <1>5 DEF Groups
    <3>2. a = [w EXCEPT !.group.refs = @ - 1]
      BY DEF WithGroup
    <3>3. a \in Worlds /\ a.group = g1
      BY <3>1, WithGroupEffect
    <3>. HIDE DEF g1, a
    <3>4. g2 \in Groups /\ g2.refs = g.refs - 1 /\ g2.users = 1 /\ g2.mTextureManager = FALSE
      BY <3>1, Zenon DEF Groups
    <3>5. b = [a EXCEPT !.group.mTextureManager = FALSE]
      BY <3>3 DEF WithGroup
    <3>6. b \in Worlds /\ b.group = g2
      BY <3>3, <3>4, WithGroupEffect
    <3>7. b = WithGroup(w, g2)
      BY Zenon DEF WithGroup, a, Worlds
    <3>. HIDE DEF g2, b
    <3>8. g3 = [mTextureManager |-> FALSE, users |-> 0, refs |-> g.refs - 1]
      <4>1. g3 \in Groups /\ g3.mTextureManager = g2.mTextureManager /\ g3.refs = g2.refs
            /\ g3.users = g2.users - 1
        BY <3>4 DEF Groups
      <4>. HIDE DEF g3
      <4>2. g3 = [mTextureManager |-> g3.mTextureManager, users |-> g3.users, refs |-> g3.refs]
        BY <4>1 DEF Groups
      <4>3. g3.users = 0 /\ g3.refs = g.refs - 1 /\ g3.mTextureManager = FALSE
        BY <3>4, <4>1
      <4>. QED
        BY <4>2, <4>3
    <3>9. LeaveGroup(w, c) = WithGroup(b, g3)
      BY <2>3, <3>2, <3>5, <3>6, Zenon DEF WithGroup
    <3>10. LeftGroup(g) = g3
      BY <1>5, <3>8 DEF LeftGroup
    <3>. HIDE DEF g3, g
    <3>11. WithGroup(b, g3) = WithGroup(w, g3)
      BY <3>7, Zenon DEF WithGroup, Worlds
    <3>. QED
      BY <3>9, <3>10, <3>11
  <2>. QED
    BY <1>4, <2>4
<1>6. CASE g.users # 1
  <2>1. LeaveGroup(w, c) = [w EXCEPT !.group.users = @ - 1]
    BY <1>6 DEF LeaveGroup
  <2>2. LeaveGroup(w, c) = WithGroup(w, LeftGroup(g))
    BY <1>1, <1>6, <2>1 DEF WithGroup, LeftGroup, Worlds, Groups
  <2>. QED
    BY <1>4, <2>2
<1>. QED
  BY <1>5, <1>6

\* Only the group changed.
LeftWorld(v, w, c) ==
    /\ v \in Worlds /\ v.ok
    /\ v.manager = w.manager /\ v.surface = w.surface
    /\ SameContexts(v, w) /\ SameTextures(v, w)
    /\ v.group = IF w.context[c].mDisplayTextureShareGroup THEN LeftGroup(w.group) ELSE w.group

LEMMA LeaveGroupWorld ==
    ASSUME NEW w, Good(w), NEW c \in w.contexts
    PROVE  LeftWorld(LeaveGroup(w, c), w, c)
<1>1. w \in Worlds /\ w.ok /\ GroupOK(w)
  BY DEF Good
<1>2. CASE w.context[c].mDisplayTextureShareGroup
  <2>1. LeaveGroup(w, c) = WithGroup(w, LeftGroup(w.group)) /\ LeftGroup(w.group) \in Groups
    BY <1>1, <1>2, LeaveGroupEffect
  <2>. QED
    BY <1>1, <1>2, <2>1, WithGroupEffect DEF LeftWorld
<1>3. CASE ~w.context[c].mDisplayTextureShareGroup
  <2>1. LeaveGroup(w, c) = w
    BY <1>3 DEF LeaveGroup
  <2>. QED
    BY <1>1, <1>3, <2>1 DEF LeftWorld, SameContexts, SameTextures
<1>. QED
  BY <1>2, <1>3

\* A surface that lets its texture go has its other fields.
LEMMA UntieKeeps ==
    ASSUME NEW w \in Worlds, w.ok, SurfacesOK(w), BoundOK(w), NEW s \in Surfaces,
           NEW v, SurfaceStep(v, w, s, Untied(w.surface[s]))
    PROVE  /\ v \in Worlds /\ v.ok /\ SurfacesOK(v) /\ BoundOK(v)
           /\ SameContexts(v, w) /\ SameGroup(v, w)
           /\ \A p \in Surfaces : v.surface[p].listed = w.surface[p].listed
<1>. DEFINE r == w.surface[s]
<1>1. w.surface \in [Surfaces -> SurfaceRecs] /\ r \in SurfaceRecs
  BY DEF Worlds
<1>2. /\ v \in Worlds /\ v.ok /\ SameContexts(v, w) /\ SameGroup(v, w) /\ BoundOK(v)
      /\ v.surface[s] = Untied(r) /\ \A p \in Surfaces \ {s} : v.surface[p] = w.surface[p]
  BY <1>1 DEF SurfaceStep, Changed
<1>3. SurfaceOK(r, Cardinality(Having(w, s)))
  BY DEF SurfacesOK
<1>4. ~r.live => Untied(r) = NoSurface
  BY <1>3 DEF SurfaceOK, Untied, NoSurface
<1>. HIDE DEF r
<1>5. SurfaceOK(Untied(r), Cardinality(Having(w, s))) /\ Untied(r).listed = r.listed
  BY <1>1, <1>3, <1>4, UntiedType DEF SurfaceOK
<1>6. SurfacesOK(v)
  BY <1>2, <1>5, HavingSame DEF SurfacesOK
<1>. QED
  BY <1>2, <1>5, <1>6 DEF r

\* What the destruction of a zero texture leaves alone.
ZeroGone(v, w) ==
    /\ v \in Worlds /\ v.ok /\ SurfacesOK(v) /\ BoundOK(v)
    /\ SameContexts(v, w) /\ SameGroup(v, w)
    /\ \A p \in Surfaces : v.surface[p].listed = w.surface[p].listed

LEMMA destroyZeroTextureStep ==
    ASSUME NEW w \in Worlds, w.ok, SurfacesOK(w), BoundOK(w), NEW c \in Contexts
    PROVE  ZeroGone(destroyZeroTexture(w, c, FALSE), w)
<1>. DEFINE x == ZeroTexture(c)
            s == w.mBoundSurface[x]
            u == LetTextureGo(w, s)
            v == destroyZeroTexture(w, c, FALSE)
<1>1. x \in TextureObjects /\ s \in Surfaces \cup {null} /\ x # null
  BY ObjectsAssumption DEF Worlds, TextureObjects
<1>2. CASE s = null
  <2>1. v = w
    BY <1>2 DEF destroyZeroTexture
  <2>. QED
    BY <2>1, Zenon DEF ZeroGone, SameContexts, SameGroup
<1>3. CASE s # null
  <2>1. s \in Surfaces /\ w.surface[s].mTexture = x
    BY <1>1, <1>3 DEF BoundOK
  <2>2. SurfaceStep(u, w, s, Untied(w.surface[s]))
    BY <1>1, <2>1, LetTextureGoStep
  <2>3. u \in Worlds
    BY <2>2 DEF SurfaceStep
  <2>4. u.mBoundSurface[x] = null
    BY <1>1, <2>1 DEF LetTextureGo, Worlds
  <2>5. v = [u EXCEPT !.mBoundSurface[x] = null]
    BY <1>3 DEF destroyZeroTexture
  <2>. HIDE DEF u, v, s, x
  <2>6. v = u
    BY <2>3, <2>4, <2>5 DEF Worlds
  <2>7. ZeroGone(u, w)
    BY <2>1, <2>2, UntieKeeps DEF ZeroGone
  <2>. QED
    BY <2>6, <2>7, Zenon DEF v
<1>. QED
  BY <1>2, <1>3, Zenon


Cleared(f, m) == [x \in Textures |-> IF f[x] = m THEN null ELSE f[x]]

LEMMA ClearedType ==
    ASSUME NEW f \in [Textures -> Managers \cup {null}], NEW m
    PROVE  /\ Cleared(f, m) \in [Textures -> Managers \cup {null}]
           /\ \A x \in Textures : Cleared(f, m)[x] = IF f[x] = m THEN null ELSE f[x]
BY DEF Cleared

Unreferenced(g) == [g EXCEPT !.refs = @ - 1]

LEMMA UnreferencedType ==
    ASSUME NEW g \in Groups
    PROVE  /\ Unreferenced(g) \in Groups /\ Unreferenced(g).refs = g.refs - 1
           /\ Unreferenced(g).users = g.users /\ Unreferenced(g).mTextureManager = g.mTextureManager
BY DEF Groups, Unreferenced

\* What is left of the managers when one of the owners of m releases it.
ManagerReleased(v, w, m) ==
    IF m = "group"
    THEN /\ v.group = Unreferenced(w.group)
         /\ v.manager = IF w.group.refs - 1 > 0 THEN w.manager ELSE Cleared(w.manager, m)
    ELSE v.group = w.group /\ v.manager = Cleared(w.manager, m)

LEMMA ReleaseManagerEffect ==
    ASSUME NEW w \in Worlds, NEW m \in Managers, NEW v, v = ReleaseManager(w, m)
    PROVE  /\ v \in Worlds /\ v.ok = w.ok /\ v.surface = w.surface
           /\ SameContexts(v, w) /\ SameTextures(v, w) /\ ManagerReleased(v, w, m)
<1>. DEFINE u == IF m = "group" THEN WithGroup(w, Unreferenced(w.group)) ELSE w
            f == Cleared(w.manager, m)
<1>1. w.group \in Groups /\ w.manager \in [Textures -> Managers \cup {null}]
  BY DEF Worlds
<1>. DEFINE t == IF m = "group" THEN [w EXCEPT !.group.refs = @ - 1] ELSE w
<1>2. t = u
  BY DEF WithGroup, Unreferenced
<1>3. /\ u \in Worlds /\ u.ok = w.ok /\ u.manager = w.manager /\ u.surface = w.surface
      /\ SameContexts(u, w) /\ SameTextures(u, w)
      /\ u.group = IF m = "group" THEN Unreferenced(w.group) ELSE w.group
  BY <1>1, UnreferencedType, WithGroupEffect DEF SameContexts, SameTextures
<1>4. v = IF m = "group" /\ t.group.refs > 0 THEN t ELSE [t EXCEPT !.manager = Cleared(@, m)]
  BY Zenon DEF ReleaseManager, Cleared
<1>. HIDE DEF t, u
<1>5. v = IF m = "group" /\ u.group.refs > 0 THEN u ELSE [u EXCEPT !.manager = f]
  BY <1>2, <1>3, <1>4, Zenon
<1>6. f \in [Textures -> Managers \cup {null}]
  BY <1>1, ClearedType
<1>7. m = "group" => u.group.refs = w.group.refs - 1
  BY <1>1, <1>3, UnreferencedType
<1>. HIDE DEF f
<1>8. [u EXCEPT !.manager = f] \in Worlds /\ [u EXCEPT !.manager = f].manager = f
      /\ [u EXCEPT !.manager = f].group = u.group /\ [u EXCEPT !.manager = f].ok = u.ok
      /\ [u EXCEPT !.manager = f].surface = u.surface
      /\ SameContexts([u EXCEPT !.manager = f], u) /\ SameTextures([u EXCEPT !.manager = f], u)
  BY <1>3, <1>6 DEF Worlds, SameContexts, SameTextures
<1>9. CASE m = "group" /\ u.group.refs > 0
  <2>1. v = u
    BY <1>5, <1>9, Zenon
  <2>. QED
    BY <1>3, <1>7, <1>9, <2>1 DEF ManagerReleased
<1>10. CASE ~(m = "group" /\ u.group.refs > 0)
  <2>1. v = [u EXCEPT !.manager = f]
    BY <1>5, <1>10, Zenon
  <2>2. v \in Worlds /\ v.ok = w.ok /\ v.surface = w.surface /\ v.manager = f /\ v.group = u.group
        /\ SameContexts(v, w) /\ SameTextures(v, w)
    BY <1>3, <1>8, <2>1 DEF SameContexts, SameTextures
  <2>3. CASE m = "group"
    BY <1>3, <1>7, <1>10, <2>2, <2>3 DEF ManagerReleased, f
  <2>4. CASE m # "group"
    BY <1>3, <2>2, <2>4 DEF ManagerReleased, f
  <2>. QED
    BY <2>2, <2>3, <2>4
<1>. QED
  BY <1>9, <1>10

LEMMA NoContextType == NoContext \in ContextRecords /\ NoContext.mCurrentSurface = null
BY DEF NoContext, ContextRecords, Framebuffers

\* The context is gone and the surfaces are as they were.
ContextGone(v, w, c) ==
    /\ v \in Worlds /\ v.ok /\ SurfacesOK(v) /\ BoundOK(v)
    /\ v.contexts = w.contexts \ {c} /\ v.context = Changed(w.context, c, NoContext)
    /\ v.surface = w.surface
    /\ ManagerReleased(v, w, IF w.context[c].mDisplayTextureShareGroup THEN "group" ELSE c)

LEMMA ReleaseContextStateStep ==
    ASSUME NEW w \in Worlds, w.ok, SurfacesOK(w), BoundOK(w), NEW c \in w.contexts,
           w.context[c].mCurrentSurface = null
    PROVE  ContextGone(ReleaseContextState(w, c), w, c)
<1>. DEFINE m == IF w.context[c].mDisplayTextureShareGroup THEN "group" ELSE c
            u == ReleaseManager(w, m)
            v == ReleaseContextState(w, c)
<1>1. c \in Contexts /\ m \in Managers /\ w.context \in [Contexts -> ContextRecords]
      /\ null \notin Surfaces
  BY ObjectsAssumption DEF Worlds, Managers
<1>2. /\ u \in Worlds /\ u.ok /\ u.surface = w.surface
      /\ SameContexts(u, w) /\ SameTextures(u, w) /\ ManagerReleased(u, w, m)
  BY <1>1, ReleaseManagerEffect, Zenon
<1>3. v = [u EXCEPT !.contexts = @ \ {c}, !.context[c] = NoContext]
  BY DEF ReleaseContextState
<1>. HIDE DEF u, v, m
<1>4. Changed(w.context, c, NoContext) \in [Contexts -> ContextRecords]
  BY <1>1, NoContextType, ChangedEffect, Zenon
<1>5. /\ v.contexts = w.contexts \ {c} /\ v.context = Changed(w.context, c, NoContext)
      /\ v.surface = w.surface /\ v.ok /\ v.group = u.group /\ v.manager = u.manager
      /\ v.mBoundSurface = w.mBoundSurface
  BY <1>2, <1>3 DEF Worlds, SameContexts, SameTextures, Changed
<1>6. v \in Worlds
  <2>1. v = [contexts |-> w.contexts \ {c}, context |-> Changed(w.context, c, NoContext),
             surface |-> w.surface, mBoundSurface |-> w.mBoundSurface, manager |-> u.manager,
             group |-> u.group, ok |-> u.ok]
    BY <1>2, <1>3, Zenon DEF Worlds, SameContexts, SameTextures, Changed
  <2>. QED
    BY <1>2, <1>4, <2>1, Zenon DEF Worlds
<1>7. \A s \in Surfaces : Having(v, s) = Having(w, s)
  BY <1>1, <1>5, NoContextType DEF Having, Changed, Worlds
<1>8. SurfacesOK(v) /\ BoundOK(v)
  BY <1>5, <1>7 DEF SurfacesOK, BoundOK
<1>9. ManagerReleased(v, w, m)
  BY <1>2, <1>5, Zenon DEF ManagerReleased
<1>. QED
  BY <1>5, <1>6, <1>8, <1>9 DEF ContextGone, v, m


LEMMA LeftGroupFields ==
    ASSUME NEW g \in Groups
    PROVE  /\ LeftGroup(g) \in Groups
           /\ g.users = 1 => /\ LeftGroup(g).mTextureManager = FALSE /\ LeftGroup(g).users = 0
                             /\ LeftGroup(g).refs = g.refs - 1
           /\ g.users # 1 => /\ LeftGroup(g).mTextureManager = g.mTextureManager
                             /\ LeftGroup(g).users = g.users - 1 /\ LeftGroup(g).refs = g.refs
<1>1. CASE g.users = 1
  <2>1. LeftGroup(g) = [mTextureManager |-> FALSE, users |-> 0, refs |-> g.refs - 1]
    BY <1>1, Zenon DEF LeftGroup
  <2>. QED
    BY <1>1, <2>1 DEF Groups
<1>2. CASE g.users # 1
  <2>1. LeftGroup(g) = [mTextureManager |-> g.mTextureManager, users |-> g.users - 1, refs |-> g.refs]
    BY <1>2, Zenon DEF LeftGroup
  <2>. QED
    BY <1>2, <2>1 DEF Groups
<1>. QED
  BY <1>1, <1>2, Zenon

\* The share group is exact when a context has left it and released its
\* manager, u being the world in between.
LEMMA GroupAfter ==
    ASSUME NEW w \in Worlds, NEW u \in Worlds, NEW v \in Worlds, GroupOK(w), NEW c \in w.contexts,
           v.contexts = w.contexts \ {c},
           \A d \in Contexts \ {c} : v.context[d] = w.context[d],
           u.manager = w.manager,
           u.group = IF w.context[c].mDisplayTextureShareGroup THEN LeftGroup(w.group) ELSE w.group,
           ManagerReleased(v, u, IF w.context[c].mDisplayTextureShareGroup THEN "group" ELSE c)
    PROVE  GroupOK(v)
<1>. DEFINE g == w.group
            n == Cardinality(Users(w))
<1>1. /\ c \in Contexts /\ w.contexts \subseteq Contexts /\ g \in Groups
      /\ w.manager \in [Textures -> Managers \cup {null}] /\ c # "group"
      /\ IsFiniteSet(Users(w)) /\ n \in Nat
  BY ObjectsAssumption, UsersFinite, Zenon DEF Worlds
<1>2. /\ g.users = n /\ (g.mTextureManager <=> Users(w) # {})
      /\ g.refs = n + (IF g.mTextureManager THEN 1 ELSE 0)
      /\ \A x \in Textures : \/ w.manager[x] \in (w.contexts \ Users(w)) \cup {null}
                             \/ w.manager[x] = "group" /\ g.mTextureManager
  BY DEF GroupOK
<1>3. Users(v) = Users(w) \ {c}
  BY <1>1 DEF Users
<1>4. CASE ~w.context[c].mDisplayTextureShareGroup
  <2>1. Users(v) = Users(w)
    BY <1>3, <1>4 DEF Users
  <2>2. u.group = g /\ ManagerReleased(v, u, c)
    BY <1>4
  <2>3. v.group = g /\ v.manager = Cleared(w.manager, c)
    BY <1>1, <2>2, Zenon DEF ManagerReleased
  <2>. HIDE DEF g, n
  <2>4. \A x \in Textures : v.manager[x] = IF w.manager[x] = c THEN null ELSE w.manager[x]
    BY <1>1, <2>3, ClearedType, SMTT(30)
  <2>5. \A x \in Textures : \/ v.manager[x] \in (v.contexts \ Users(v)) \cup {null}
                            \/ v.manager[x] = "group" /\ v.group.mTextureManager
    BY <1>2, <2>1, <2>3, <2>4, Zenon
  <2>. QED
    BY <1>2, <2>1, <2>3, <2>5, Zenon DEF GroupOK, n
<1>5. CASE w.context[c].mDisplayTextureShareGroup
  <2>. DEFINE h == LeftGroup(g)
  <2>1. c \in Users(w) /\ Cardinality(Users(v)) = n - 1 /\ n # 0
    <3>1. c \in Users(w)
      BY <1>5 DEF Users
    <3>2. Cardinality(Users(w) \ {c}) = n - 1
      BY <1>1, <3>1, FS_RemoveElement, Zenon
    <3>3. n # 0
      BY <1>1, <3>1, FS_EmptySet
    <3>. QED
      BY <1>3, <3>1, <3>2, <3>3
  <2>2. u.group = h /\ ManagerReleased(v, u, "group")
    BY <1>5
  <2>3. g.users = n /\ g.mTextureManager /\ g.refs = n + 1
    BY <1>2, <2>1
  <2>. HIDE DEF g
  <2>4. h \in Groups
    BY <1>1, LeftGroupFields, Zenon
  <2>5. /\ v.group = Unreferenced(h)
        /\ v.manager = IF h.refs - 1 > 0 THEN w.manager ELSE Cleared(w.manager, "group")
    BY <2>2 DEF ManagerReleased
  <2>6. /\ v.group.refs = h.refs - 1 /\ v.group.users = h.users
        /\ v.group.mTextureManager = h.mTextureManager
    BY <2>4, <2>5, UnreferencedType
  <2>7. CASE n = 1
    <3>1. h.mTextureManager = FALSE /\ h.users = 0 /\ h.refs = 1
      <4>1. g \in Groups /\ g.users = 1 /\ g.refs = 2
        BY <1>1, <2>3, <2>7
      <4>2. h.mTextureManager = FALSE /\ h.users = 0 /\ h.refs = g.refs - 1
        BY <4>1, LeftGroupFields, Zenon
      <4>. QED
        BY <4>1, <4>2
    <3>2. Users(v) = {}
      <4>1. IsFiniteSet(Users(v)) /\ Cardinality(Users(v)) = 0
        BY <2>1, <2>7, UsersFinite
      <4>. QED
        BY <4>1, FS_EmptySet
    <3>. HIDE DEF h
    <3>3. v.manager = Cleared(w.manager, "group")
      BY <2>5, <3>1
    <3>4. \A x \in Textures : v.manager[x] = IF w.manager[x] = "group" THEN null ELSE w.manager[x]
      BY <1>1, <3>3, ClearedType, SMTT(30)
    <3>5. \A x \in Textures : v.manager[x] \in (v.contexts \ Users(v)) \cup {null}
      BY <1>2, <2>1, <3>2, <3>4, Zenon DEF g
    <3>. QED
      BY <2>1, <2>6, <2>7, <3>1, <3>2, <3>5, SMTT(30) DEF GroupOK
  <2>8. CASE n # 1
    <3>1. h.mTextureManager /\ h.users = n - 1 /\ h.refs = n + 1
      <4>1. g \in Groups /\ g.users # 1
        BY <1>1, <2>3, <2>8, Zenon
      <4>2. h.mTextureManager = g.mTextureManager /\ h.users = g.users - 1 /\ h.refs = g.refs
        BY <4>1, LeftGroupFields, Zenon
      <4>. QED
        BY <2>3, <4>2, Zenon
    <3>2. Users(v) # {}
      <4>1. Cardinality(Users(v)) # 0
        BY <1>1, <2>1, <2>8, SMTT(30)
      <4>. QED
        BY <4>1, FS_EmptySet
    <3>. HIDE DEF h
    <3>3. v.manager = w.manager
      <4>1. h.refs - 1 > 0
        BY <1>1, <3>1, <2>1, SMTT(30)
      <4>. QED
        BY <2>5, <4>1
    <3>4. \A x \in Textures : \/ v.manager[x] \in (v.contexts \ Users(v)) \cup {null}
                              \/ v.manager[x] = "group" /\ v.group.mTextureManager
      BY <1>2, <1>3, <2>1, <2>6, <3>1, <3>3, Zenon
    <3>. HIDE DEF n
    <3>. QED
      BY <1>1, <2>1, <2>6, <3>1, <3>2, <3>4, SMTT(30) DEF GroupOK
  <2>. QED
    BY <2>7, <2>8
<1>. QED
  BY <1>4, <1>5


\* Context c is gone, with everything of its own; the others are as before.
WithoutContext(v, w, c) ==
    /\ Good(v) /\ v.contexts = w.contexts \ {c}
    /\ \A d \in Contexts \ {c} : v.context[d] = w.context[d]
    /\ \A s \in Surfaces : v.surface[s].listed = w.surface[s].listed

LEMMA destroyContextGood ==
    ASSUME NEW w, Good(w), NEW c \in w.contexts
    PROVE  WithoutContext(destroyContext(c, w, FALSE), w, c)
<1>. DEFINE g == LeaveGroup(w, c)
            z == destroyZeroTexture(g, c, FALSE)
            q == [z.context[c] EXCEPT !.mSurfacelessFramebuffer = FALSE]
            f == WithContext(z, c, q)
            r == releaseSurface(f, c, FALSE)
            v == destroyContext(c, w, FALSE)
<1>1. w \in Worlds /\ w.ok /\ SurfacesOK(w) /\ BoundOK(w) /\ ContextsOK(w) /\ GroupOK(w)
  BY DEF Good
<1>2. c \in Contexts /\ w.context \in [Contexts -> ContextRecords] /\ w.contexts \subseteq Contexts
  BY <1>1 DEF Worlds
<1>3. LeftWorld(g, w, c)
  BY LeaveGroupWorld
<1>4. g \in Worlds /\ g.ok /\ SurfacesOK(g) /\ BoundOK(g)
  <2>1. g \in Worlds /\ g.ok /\ g.surface = w.surface /\ SameContexts(g, w) /\ SameTextures(g, w)
    BY <1>3, Zenon DEF LeftWorld
  <2>. HIDE DEF g
  <2>. QED
    BY <1>1, <2>1, SurfacesSame, BoundSame, Zenon
<1>5. ZeroGone(z, g)
  BY <1>2, <1>4, destroyZeroTextureStep, Zenon
<1>6. z \in Worlds /\ z.ok /\ SurfacesOK(z) /\ BoundOK(z) /\ z.contexts = w.contexts /\ z.context = w.context
  BY <1>3, <1>5, Zenon DEF ZeroGone, LeftWorld, SameContexts
<1>7. q \in ContextRecords /\ q.mCurrentSurface = z.context[c].mCurrentSurface
      /\ q.mDisplayTextureShareGroup = w.context[c].mDisplayTextureShareGroup
  <2>1. z.context[c] \in ContextRecords /\ z.context[c] = w.context[c]
    BY <1>2, <1>6, Zenon
  <2>. HIDE DEF z
  <2>. QED
    BY <2>1, Zenon DEF ContextRecords
<1>8. f = [z EXCEPT !.context[c].mSurfacelessFramebuffer = FALSE]
  BY DEF WithContext, Changed
<1>9. v = Then(Then(z, LAMBDA y : releaseSurface([y EXCEPT !.context[c].mSurfacelessFramebuffer = FALSE],
                                                 c, FALSE)),
               LAMBDA y : ReleaseContextState(y, c))
  BY DEF destroyContext
<1>. HIDE DEF g, z, q
<1>10. ContextStep(f, z, c, q)
  BY <1>6, <1>7, OtherFieldsStep, Zenon
<1>11. f \in Worlds /\ f.ok /\ SurfacesOK(f) /\ BoundOK(f) /\ c \in f.contexts /\ f.context[c] = q
  BY <1>2, <1>6, <1>7, <1>10, Zenon DEF ContextStep, Changed
<1>12. ContextStep(r, f, c, Released(q, c))
  BY <1>11, releaseSurfaceStep, Zenon
<1>13. /\ Released(q, c) \in ContextRecords /\ Released(q, c).mCurrentSurface = null
       /\ Released(q, c).mDisplayTextureShareGroup = w.context[c].mDisplayTextureShareGroup
  BY <1>2, <1>7, ReleasedFields
<1>14. r.ok /\ v = ReleaseContextState(r, c)
  BY <1>6, <1>8, <1>9, <1>12, Zenon DEF Then, ContextStep
<1>. HIDE DEF f, r, v
<1>15. /\ r \in Worlds /\ r.ok /\ SurfacesOK(r) /\ BoundOK(r) /\ r.contexts = w.contexts
       /\ r.context = Changed(Changed(w.context, c, q), c, Released(q, c))
       /\ r.manager = w.manager /\ r.group = g.group
  BY <1>3, <1>5, <1>6, <1>10, <1>12, Zenon DEF ContextStep, ZeroGone, LeftWorld, SameGroup
<1>16. r.context[c] = Released(q, c) /\ \A d \in Contexts \ {c} : r.context[d] = w.context[d]
  BY <1>2, <1>7, <1>13, <1>15 DEF Changed
<1>17. ContextGone(v, r, c)
  BY <1>13, <1>14, <1>15, <1>16, ReleaseContextStateStep, Zenon
<1>18. /\ v \in Worlds /\ v.ok /\ SurfacesOK(v) /\ BoundOK(v) /\ v.contexts = w.contexts \ {c}
       /\ v.context = Changed(r.context, c, NoContext) /\ v.surface = r.surface
       /\ ManagerReleased(v, r, IF w.context[c].mDisplayTextureShareGroup THEN "group" ELSE c)
  BY <1>13, <1>15, <1>16, <1>17, Zenon DEF ContextGone
<1>19. v.context[c] = NoContext /\ \A d \in Contexts \ {c} : v.context[d] = w.context[d]
  BY <1>2, <1>15, <1>16, <1>18, Zenon DEF Changed, Worlds
<1>20. ContextsOK(v)
  BY <1>1, <1>2, <1>18, <1>19, Zenon DEF ContextsOK
<1>21. r.group = IF w.context[c].mDisplayTextureShareGroup THEN LeftGroup(w.group) ELSE w.group
  BY <1>3, <1>15, Zenon DEF LeftWorld
<1>22. GroupOK(v)
  BY <1>1, <1>15, <1>18, <1>19, <1>21, GroupAfter, Zenon
<1>23. \A s \in Surfaces : v.surface[s].listed = w.surface[s].listed
  BY <1>3, <1>5, <1>10, <1>12, <1>18, Zenon DEF ContextStep, ZeroGone, LeftWorld
<1>. QED
  BY <1>18, <1>19, <1>20, <1>22, <1>23, Zenon DEF WithoutContext, Good, v


-------------------------------------------------------------------------------
(* Loops over a finite set, for terminate.                                 *)

First(t) == CHOOSE x \in t : TRUE

\* The set of numbers has a least member.
LEMMA LeastNumber ==
    ASSUME NEW T, T \subseteq Nat, T # {}
    PROVE  \E n \in T : \A m \in T : n <= m
<1>. DEFINE R == OpToRel(<, Nat)
<1>1. IsWellFoundedOn(R, Nat) /\ \A x, y \in Nat : x < y => <<x, y>> \in R
  BY NatLessThanWellFounded DEF OpToRel
<1>. HIDE DEF R
<1>2. PICK x \in T : \A y \in T : ~(<<y, x>> \in R)
  <2>1. IsWellFoundedOn(R, Nat)
    BY <1>1
  <2>. QED
    BY <2>1, WFMin, Zenon
<1>3. ASSUME NEW y \in T PROVE x <= y
  <2>1. x \in Nat /\ y \in Nat
    OBVIOUS
  <2>2. ~(y < x)
    BY <1>1, <1>2, <2>1, Zenon
  <2>. QED
    BY <2>1, <2>2
<1>. QED
  BY <1>3

LEMMA WithoutFirst ==
    ASSUME NEW S, IsFiniteSet(S), NEW t \in SUBSET S, t # {}
    PROVE  /\ First(t) \in t /\ t \ {First(t)} \in SUBSET S
           /\ Cardinality(t) \in Nat
           /\ Cardinality(t \ {First(t)}) \in Nat /\ Cardinality(t \ {First(t)}) = Cardinality(t) - 1
<1>1. First(t) \in t
  BY DEF First
<1>2. IsFiniteSet(t)
  BY FS_Subset
<1>. QED
  BY <1>1, <1>2, FS_RemoveElement, FS_CardinalityType

\* A set of pairs that the rounds of a loop do not leave.
LEMMA LoopInvariant ==
    ASSUME NEW S, IsFiniteSet(S), NEW f, NEW P, <<{}, f[{}]>> \in P,
           \A t \in SUBSET S : t # {} /\ <<t \ {First(t)}, f[t \ {First(t)}]>> \in P => <<t, f[t]>> \in P
    PROVE  \A t \in SUBSET S : <<t, f[t]>> \in P
<1>. DEFINE Bad == {t \in SUBSET S : <<t, f[t]>> \notin P}
            T == {n \in Nat : \E t \in Bad : Cardinality(t) = n}
<1>. SUFFICES ASSUME Bad # {} PROVE FALSE
  OBVIOUS
<1>1. T # {}
  <2>1. PICK t : t \in Bad
    OBVIOUS
  <2>2. Cardinality(t) \in Nat
    BY <2>1, FS_Subset, FS_CardinalityType
  <2>. QED
    BY <2>1, <2>2
<1>2. PICK n \in T : \A m \in T : n <= m
  <2>1. T \subseteq Nat
    OBVIOUS
  <2>. HIDE DEF T
  <2>. QED
    BY <1>1, <2>1, LeastNumber, Zenon
<1>3. PICK t \in Bad : Cardinality(t) = n
  BY <1>2
<1>4. t \in SUBSET S /\ t # {}
  BY <1>3, Zenon
<1>. DEFINE u == t \ {First(t)}
<1>5. u \in SUBSET S /\ Cardinality(u) \in Nat /\ Cardinality(u) = n - 1 /\ n \in Nat
  BY <1>3, <1>4, WithoutFirst, Zenon
<1>6. <<u, f[u]>> \notin P
  BY <1>3, <1>4
<1>7. Cardinality(u) \in T
  <2>. HIDE DEF u
  <2>. QED
    BY <1>5, <1>6
<1>8. n <= Cardinality(u)
  <2>. HIDE DEF u, T
  <2>. QED
    BY <1>2, <1>7
<1>. QED
  BY <1>5, <1>8

\* F is applied in each round.
LoopOf(f, S, w0, F, n) ==
    /\ f[{}] = w0
    /\ \A t \in SUBSET S : t # {} /\ Cardinality(t) <= n =>
           f[t] = F[<<First(t), f[t \ {First(t)}]>>]

LEMMA LoopLonger ==
    ASSUME NEW S, IsFiniteSet(S), NEW W, NEW w0 \in W, NEW F \in [S \X W -> W], NEW n \in Nat,
           NEW f \in [SUBSET S -> W], LoopOf(f, S, w0, F, n)
    PROVE  \E g \in [SUBSET S -> W] : LoopOf(g, S, w0, F, n + 1)
<1>. DEFINE g == [t \in SUBSET S |-> IF Cardinality(t) = n + 1 THEN F[<<First(t), f[t \ {First(t)}]>>]
                                     ELSE f[t]]
<1>1. \A t \in SUBSET S : Cardinality(t) = n + 1 => t # {}
  <2>1. Cardinality({}) = 0
    BY FS_EmptySet
  <2>2. n + 1 # 0
    OBVIOUS
  <2>. QED
    BY <2>1, <2>2, Zenon
<1>2. \A t \in SUBSET S : t # {} =>
          /\ First(t) \in S /\ t \ {First(t)} \in SUBSET S
          /\ Cardinality(t) \in Nat /\ Cardinality(t \ {First(t)}) = Cardinality(t) - 1
  BY WithoutFirst, Zenon
<1>3. g \in [SUBSET S -> W]
  <2>. SUFFICES ASSUME NEW t \in SUBSET S, Cardinality(t) = n + 1
                PROVE  F[<<First(t), f[t \ {First(t)}]>>] \in W
    OBVIOUS
  <2>1. First(t) \in S /\ t \ {First(t)} \in SUBSET S
    BY <1>1, <1>2
  <2>. QED
    BY <2>1
<1>4. g[{}] = w0
  <2>1. {} \in SUBSET S /\ Cardinality({}) # n + 1
    BY <1>1
  <2>. QED
    BY <2>1 DEF LoopOf
<1>5. ASSUME NEW t \in SUBSET S, t # {}, Cardinality(t) <= n + 1
      PROVE  g[t] = F[<<First(t), g[t \ {First(t)}]>>]
  <2>1. t \ {First(t)} \in SUBSET S /\ Cardinality(t \ {First(t)}) # n + 1 /\ Cardinality(t) \in Nat
    <3>1. t \ {First(t)} \in SUBSET S /\ Cardinality(t) \in Nat
          /\ Cardinality(t \ {First(t)}) = Cardinality(t) - 1
      BY <1>2, <1>5, Zenon
    <3>. QED
      BY <1>5, <3>1
  <2>2. g[t \ {First(t)}] = f[t \ {First(t)}]
    BY <2>1
  <2>3. CASE Cardinality(t) = n + 1
    BY <2>2, <2>3
  <2>4. CASE Cardinality(t) # n + 1
    <3>1. Cardinality(t) <= n
      BY <1>5, <2>1, <2>4
    <3>2. g[t] = f[t]
      BY <2>4
    <3>. QED
      BY <1>5, <2>2, <3>1, <3>2, Zenon DEF LoopOf
  <2>. QED
    BY <2>3, <2>4, Zenon
<1>. HIDE DEF g
<1>6. LoopOf(g, S, w0, F, n + 1)
  BY <1>4, <1>5 DEF LoopOf
<1>. QED
  BY <1>3, <1>6


LEMMA LoopExists ==
    ASSUME NEW S, IsFiniteSet(S), NEW W, NEW w0 \in W, NEW F \in [S \X W -> W]
    PROVE  \E f \in [SUBSET S -> W] : LoopOf(f, S, w0, F, Cardinality(S))
<1>. DEFINE Has(n) == \E f \in [SUBSET S -> W] : LoopOf(f, S, w0, F, n)
            T == {n \in Nat : ~Has(n)}
<1>1. Has(0)
  <2>. DEFINE f == [t \in SUBSET S |-> w0]
  <2>1. \A t \in SUBSET S : t # {} => ~(Cardinality(t) <= 0)
    <3>. SUFFICES ASSUME NEW t \in SUBSET S, t # {} PROVE ~(Cardinality(t) <= 0)
      OBVIOUS
    <3>1. Cardinality(t) \in Nat /\ Cardinality(t \ {First(t)}) \in Nat
          /\ Cardinality(t \ {First(t)}) = Cardinality(t) - 1
      BY WithoutFirst
    <3>. QED
      BY <3>1
  <2>2. f \in [SUBSET S -> W] /\ LoopOf(f, S, w0, F, 0)
    BY <2>1 DEF LoopOf
  <2>. QED
    BY <2>2, Zenon
<1>2. ASSUME NEW n \in Nat, Has(n) PROVE Has(n + 1)
  BY <1>2, LoopLonger, Zenon
<1>. HIDE DEF Has
<1>3. T = {}
  <2>. SUFFICES ASSUME T # {} PROVE FALSE
    OBVIOUS
  <2>1. T \subseteq Nat
    OBVIOUS
  <2>2. PICK n \in T : \A m \in T : n <= m
    <3>. HIDE DEF T
    <3>. QED
      BY <2>1, LeastNumber, Zenon
  <2>3. n \in Nat /\ ~Has(n) /\ n # 0
    BY <1>1, <2>2
  <2>4. n - 1 \in Nat /\ n - 1 \notin T
    BY <2>2, <2>3
  <2>5. Has(n - 1 + 1)
    BY <1>2, <2>4
  <2>6. n - 1 + 1 = n
    BY <2>3
  <2>. QED
    BY <2>3, <2>5, <2>6
<1>4. Cardinality(S) \in Nat
  BY FS_CardinalityType
<1>5. Has(Cardinality(S))
  BY <1>3, <1>4
<1>. QED
  BY <1>5 DEF Has
===============================================================================
