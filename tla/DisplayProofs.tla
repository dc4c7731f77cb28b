----------------------------- MODULE DisplayProofs -----------------------------
(***************************************************************************)
(* Proofs about Display, for any numbers of threads, contexts, surfaces    *)
(* and textures, where the platform's bind and release calls succeed.      *)
(***************************************************************************)
EXTENDS DisplayLemmas

-------------------------------------------------------------------------------
(* terminate.                                                              *)

ContextsGone ==
    FoldSet(LAMBDA c, w : Then(w, LAMBDA v : destroyContext(c, v, FALSE)), World, mContextSet)

ContextRounds(g) ==
    g = [t \in SUBSET mContextSet |->
            IF t = {} THEN World
            ELSE Then(g[t \ {First(t)}], LAMBDA v : destroyContext(First(t), v, FALSE))]

LEMMA ContextsGoneRounds ==
    ContextsGone = (CHOOSE g : ContextRounds(g))[mContextSet]
BY DEF ContextsGone, FoldSet, MapThenFoldSet, First, ContextRounds

\* The world when the contexts in t are destroyed.
ContextsLeft(t, w) ==
    /\ Good(w) /\ w.contexts = mContextSet \ t
    /\ \A s \in Surfaces : w.surface[s].listed = surface[s].listed

LEMMA ContextRound ==
    ASSUME NEW t \in SUBSET mContextSet, t # {}, NEW w, ContextsLeft(t \ {First(t)}, w)
    PROVE  /\ ContextsLeft(t, destroyContext(First(t), w, FALSE))
           /\ Then(w, LAMBDA v : destroyContext(First(t), v, FALSE)) = destroyContext(First(t), w, FALSE)
<1>. DEFINE c == First(t)
            v == destroyContext(c, w, FALSE)
<1>1. c \in t
  BY DEF First
<1>2. /\ Good(w) /\ w.ok /\ w.contexts = mContextSet \ (t \ {c})
      /\ \A s \in Surfaces : w.surface[s].listed = surface[s].listed
  BY DEF ContextsLeft, Good
<1>. HIDE DEF c
<1>3. c \in w.contexts
  BY <1>1, <1>2
<1>4. WithoutContext(v, w, c)
  BY <1>2, <1>3, destroyContextGood, Zenon
<1>. HIDE DEF v
<1>5. ContextsLeft(t, v)
  BY <1>1, <1>2, <1>4 DEF WithoutContext, ContextsLeft
<1>6. Then(w, LAMBDA x : destroyContext(c, x, FALSE)) = v
  BY <1>2 DEF Then, v
<1>. QED
  BY <1>5, <1>6, Zenon DEF v, c

\* The first loop of terminate destroys every context.
LEMMA ContextsGoneEffect ==
    ASSUME Good(World)
    PROVE  ContextsLeft(mContextSet, ContextsGone)
<1>. DEFINE S == mContextSet
            F == [p \in S \X Worlds |-> IF destroyContext(p[1], p[2], FALSE) \in Worlds
                                        THEN destroyContext(p[1], p[2], FALSE) ELSE p[2]]
            P == {p \in (SUBSET S) \X Worlds : ContextsLeft(p[1], p[2])}
<1>1. World \in Worlds /\ World.contexts = mContextSet /\ World.surface = surface
  BY DEF Good, World
<1>2. IsFiniteSet(S)
  <2>1. mContextSet \subseteq Contexts
    BY <1>1 DEF Worlds
  <2>. QED
    BY <2>1, ObjectsAssumption, FS_Subset
<1>3. F \in [S \X Worlds -> Worlds]
  BY Zenon
<1>4. PICK f \in [SUBSET S -> Worlds] : LoopOf(f, S, World, F, Cardinality(S))
  <2>. HIDE DEF F, S
  <2>. QED
    BY <1>1, <1>2, <1>3, LoopExists, Zenon
<1>5. ContextsLeft({}, World)
  BY <1>1 DEF ContextsLeft
<1>6. \A t \in SUBSET S : \A w : <<t, w>> \in P <=> ContextsLeft(t, w)
  BY DEF ContextsLeft, Good
<1>7. f[{}] = World /\ \A t \in SUBSET S : t # {} => f[t] = F[<<First(t), f[t \ {First(t)}]>>]
  <2>1. \A t \in SUBSET S : Cardinality(t) <= Cardinality(S)
    BY <1>2, FS_Subset
  <2>. QED
    BY <1>4, <2>1, Zenon DEF LoopOf
<1>8. ASSUME NEW t \in SUBSET S, t # {}, ContextsLeft(t \ {First(t)}, f[t \ {First(t)}])
      PROVE  f[t] = destroyContext(First(t), f[t \ {First(t)}], FALSE) /\ ContextsLeft(t, f[t])
  <2>. DEFINE w == f[t \ {First(t)}]
  <2>1. First(t) \in S /\ w \in Worlds
    BY <1>8 DEF First
  <2>2. ContextsLeft(t, destroyContext(First(t), w, FALSE))
    BY <1>8, ContextRound, Zenon
  <2>3. destroyContext(First(t), w, FALSE) \in Worlds
    BY <2>2, Zenon DEF ContextsLeft, Good
  <2>4. f[t] = F[<<First(t), w>>]
    BY <1>7, <1>8, Zenon
  <2>. HIDE DEF w
  <2>5. F[<<First(t), w>>] = destroyContext(First(t), w, FALSE)
    BY <2>1, <2>3, Zenon
  <2>. QED
    BY <2>2, <2>4, <2>5, Zenon DEF w
<1>. HIDE DEF F
<1>9. \A t \in SUBSET S : <<t, f[t]>> \in P
  <2>1. <<{}, f[{}]>> \in P
    BY <1>5, <1>6, <1>7, Zenon
  <2>2. \A t \in SUBSET S : t # {} /\ <<t \ {First(t)}, f[t \ {First(t)}]>> \in P => <<t, f[t]>> \in P
    BY <1>6, <1>8, Zenon
  <2>. HIDE DEF P, S
  <2>. QED
    BY <1>2, <2>1, <2>2, LoopInvariant, Zenon
<1>10. ContextRounds(f)
  <2>1. ASSUME NEW t \in SUBSET S, t # {}
        PROVE  f[t] = Then(f[t \ {First(t)}], LAMBDA v : destroyContext(First(t), v, FALSE))
    <3>1. ContextsLeft(t \ {First(t)}, f[t \ {First(t)}])
      BY <1>6, <1>9, Zenon
    <3>. QED
      BY <1>8, <2>1, <3>1, ContextRound, Zenon
  <2>. QED
    BY <1>7, <2>1, Zenon DEF ContextRounds
<1>. DEFINE g == CHOOSE h : ContextRounds(h)
<1>11. ContextRounds(g)
  BY <1>10, Zenon
<1>. HIDE DEF g
<1>12. g[{}] = World
  BY <1>11 DEF ContextRounds
<1>13. ASSUME NEW t \in SUBSET S, t # {}, ContextsLeft(t \ {First(t)}, g[t \ {First(t)}])
       PROVE  ContextsLeft(t, g[t])
  <2>1. g[t] = Then(g[t \ {First(t)}], LAMBDA v : destroyContext(First(t), v, FALSE))
    BY <1>11, <1>13, Zenon DEF ContextRounds
  <2>. QED
    BY <1>13, <2>1, ContextRound, Zenon
<1>14. \A t \in SUBSET S : <<t, g[t]>> \in P
  <2>1. <<{}, g[{}]>> \in P
    BY <1>5, <1>6, <1>12
  <2>2. \A t \in SUBSET S : t # {} /\ <<t \ {First(t)}, g[t \ {First(t)}]>> \in P => <<t, g[t]>> \in P
    BY <1>6, <1>13, Zenon
  <2>. HIDE DEF P, S
  <2>. QED
    BY <1>2, <2>1, <2>2, LoopInvariant, Zenon
<1>15. ContextsLeft(S, g[S])
  BY <1>6, <1>14, Zenon
<1>. QED
  BY <1>15, ContextsGoneRounds DEF g


Listed == {s \in Surfaces : surface[s].listed}

SurfacesGone(base) ==
    FoldSet(LAMBDA s, w : Then(w, LAMBDA v : destroySurface(v, s, FALSE)), base, Listed)

SurfaceRounds(g, base) ==
    g = [t \in SUBSET Listed |->
            IF t = {} THEN base
            ELSE Then(g[t \ {First(t)}], LAMBDA v : destroySurface(v, First(t), FALSE))]

LEMMA SurfacesGoneRounds ==
    ASSUME NEW base
    PROVE  SurfacesGone(base) = (CHOOSE g : SurfaceRounds(g, base))[Listed]
BY DEF SurfacesGone, FoldSet, MapThenFoldSet, First, SurfaceRounds

\* The world when the surfaces in t are destroyed, and no context is left.
SurfacesLeft(t, w) ==
    /\ Good(w) /\ w.contexts = {}
    /\ \A s \in Surfaces : w.surface[s].listed <=> s \in Listed \ t

LEMMA SurfaceRound ==
    ASSUME NEW t \in SUBSET Listed, t # {}, NEW w, SurfacesLeft(t \ {First(t)}, w)
    PROVE  /\ SurfacesLeft(t, destroySurface(w, First(t), FALSE))
           /\ Then(w, LAMBDA v : destroySurface(v, First(t), FALSE)) = destroySurface(w, First(t), FALSE)
<1>. DEFINE s == First(t)
            v == destroySurface(w, s, FALSE)
<1>1. s \in t
  BY DEF First
<1>2. /\ Good(w) /\ w.ok /\ w.contexts = {}
      /\ \A p \in Surfaces : w.surface[p].listed <=> p \in Listed \ (t \ {s})
  BY DEF SurfacesLeft, Good
<1>. HIDE DEF s
<1>3. s \in Surfaces /\ s \in Listed
  BY <1>1 DEF Listed
<1>4. w.surface[s].listed
  BY <1>2, <1>3
<1>5. WithoutSurface(v, w, s)
  BY <1>2, <1>3, <1>4, destroySurfaceGood, Zenon
<1>. HIDE DEF v
<1>6. SurfacesLeft(t, v)
  BY <1>1, <1>2, <1>5 DEF SurfacesLeft, SameContexts, WithoutSurface
<1>7. Then(w, LAMBDA x : destroySurface(x, s, FALSE)) = v
  BY <1>2 DEF Then, v
<1>. QED
  BY <1>6, <1>7, Zenon DEF v, s

\* The second loop of terminate destroys every surface.
LEMMA SurfacesGoneEffect ==
    ASSUME NEW base, SurfacesLeft({}, base)
    PROVE  SurfacesLeft(Listed, SurfacesGone(base))
<1>. DEFINE S == Listed
            F == [p \in S \X Worlds |-> IF destroySurface(p[2], p[1], FALSE) \in Worlds
                                        THEN destroySurface(p[2], p[1], FALSE) ELSE p[2]]
            P == {p \in (SUBSET S) \X Worlds : SurfacesLeft(p[1], p[2])}
<1>1. base \in Worlds
  BY DEF Good, SurfacesLeft
<1>2. IsFiniteSet(S)
  <2>1. Listed \subseteq Surfaces
    BY DEF Listed
  <2>. QED
    BY <2>1, ObjectsAssumption, FS_Subset
<1>3. F \in [S \X Worlds -> Worlds]
  BY Zenon
<1>4. PICK f \in [SUBSET S -> Worlds] : LoopOf(f, S, base, F, Cardinality(S))
  <2>. HIDE DEF F, S
  <2>. QED
    BY <1>1, <1>2, <1>3, LoopExists, Zenon
<1>5. \A t \in SUBSET S : \A w : <<t, w>> \in P <=> SurfacesLeft(t, w)
  BY DEF SurfacesLeft, Good
<1>6. f[{}] = base /\ \A t \in SUBSET S : t # {} => f[t] = F[<<First(t), f[t \ {First(t)}]>>]
  <2>1. \A t \in SUBSET S : Cardinality(t) <= Cardinality(S)
    BY <1>2, FS_Subset
  <2>. QED
    BY <1>4, <2>1, Zenon DEF LoopOf
<1>7. ASSUME NEW t \in SUBSET S, t # {}, SurfacesLeft(t \ {First(t)}, f[t \ {First(t)}])
      PROVE  f[t] = destroySurface(f[t \ {First(t)}], First(t), FALSE) /\ SurfacesLeft(t, f[t])
  <2>. DEFINE w == f[t \ {First(t)}]
  <2>1. First(t) \in S /\ w \in Worlds
    BY <1>7 DEF First
  <2>2. SurfacesLeft(t, destroySurface(w, First(t), FALSE))
    BY <1>7, SurfaceRound, Zenon
  <2>3. destroySurface(w, First(t), FALSE) \in Worlds
    BY <2>2, Zenon DEF SurfacesLeft, Good
  <2>4. f[t] = F[<<First(t), w>>]
    BY <1>6, <1>7, Zenon
  <2>. HIDE DEF w
  <2>5. F[<<First(t), w>>] = destroySurface(w, First(t), FALSE)
    BY <2>1, <2>3, Zenon
  <2>. QED
    BY <2>2, <2>4, <2>5, Zenon DEF w
<1>. HIDE DEF F
<1>8. \A t \in SUBSET S : <<t, f[t]>> \in P
  <2>1. <<{}, f[{}]>> \in P
    BY <1>5, <1>6, Zenon
  <2>2. \A t \in SUBSET S : t # {} /\ <<t \ {First(t)}, f[t \ {First(t)}]>> \in P => <<t, f[t]>> \in P
    BY <1>5, <1>7, Zenon
  <2>. HIDE DEF P, S
  <2>. QED
    BY <1>2, <2>1, <2>2, LoopInvariant, Zenon
<1>9. SurfaceRounds(f, base)
  <2>1. ASSUME NEW t \in SUBSET S, t # {}
        PROVE  f[t] = Then(f[t \ {First(t)}], LAMBDA v : destroySurface(v, First(t), FALSE))
    <3>1. SurfacesLeft(t \ {First(t)}, f[t \ {First(t)}])
      BY <1>5, <1>8, Zenon
    <3>. QED
      BY <1>7, <2>1, <3>1, SurfaceRound, Zenon
  <2>. QED
    BY <1>6, <2>1, Zenon DEF SurfaceRounds
<1>. DEFINE g == CHOOSE h : SurfaceRounds(h, base)
<1>10. SurfaceRounds(g, base)
  BY <1>9, Zenon
<1>. HIDE DEF g
<1>11. g[{}] = base
  BY <1>10 DEF SurfaceRounds
<1>12. ASSUME NEW t \in SUBSET S, t # {}, SurfacesLeft(t \ {First(t)}, g[t \ {First(t)}])
       PROVE  SurfacesLeft(t, g[t])
  <2>1. g[t] = Then(g[t \ {First(t)}], LAMBDA v : destroySurface(v, First(t), FALSE))
    BY <1>10, <1>12, Zenon DEF SurfaceRounds
  <2>. QED
    BY <1>12, <2>1, SurfaceRound, Zenon
<1>13. \A t \in SUBSET S : <<t, g[t]>> \in P
  <2>1. <<{}, g[{}]>> \in P
    BY <1>5, <1>11
  <2>2. \A t \in SUBSET S : t # {} /\ <<t \ {First(t)}, g[t \ {First(t)}]>> \in P => <<t, g[t]>> \in P
    BY <1>5, <1>12, Zenon
  <2>. HIDE DEF P, S
  <2>. QED
    BY <1>2, <2>1, <2>2, LoopInvariant, Zenon
<1>14. SurfacesLeft(S, g[S])
  BY <1>5, <1>13, Zenon
<1>. QED
  BY <1>14, SurfacesGoneRounds DEF g

\* A terminated display has nothing left.
LEMMA terminateEffect ==
    ASSUME Good(World)
    PROVE  /\ Good(terminate(FALSE)) /\ terminate(FALSE).contexts = {}
           /\ \A s \in Surfaces : ~terminate(FALSE).surface[s].live
<1>. DEFINE base == ContextsGone
            v == SurfacesGone(base)
<1>1. terminate(FALSE) = v
  BY DEF terminate, ContextsGone, SurfacesGone, Listed
<1>2. ContextsLeft(mContextSet, base)
  BY ContextsGoneEffect
<1>. HIDE DEF base
<1>3. SurfacesLeft({}, base)
  BY <1>2 DEF ContextsLeft, SurfacesLeft, Listed
<1>4. SurfacesLeft(Listed, v)
  BY <1>3, SurfacesGoneEffect
<1>. HIDE DEF v
<1>5. Good(v) /\ v.contexts = {} /\ \A s \in Surfaces : ~v.surface[s].listed
  BY <1>4 DEF SurfacesLeft
<1>6. ASSUME NEW s \in Surfaces PROVE ~v.surface[s].live
  <2>1. Having(v, s) = {}
    BY <1>5 DEF Having
  <2>2. SurfaceOK(v.surface[s], 0)
    BY <1>5, <2>1, FS_EmptySet DEF Good, SurfacesOK
  <2>. QED
    BY <1>5, <2>2, Zenon DEF SurfaceOK
<1>. QED
  BY <1>1, <1>5, <1>6, Zenon


-------------------------------------------------------------------------------
(* The steps.                                                              *)

LEMMA WorldFields ==
    /\ World.contexts = mContextSet /\ World.context = context /\ World.surface = surface
    /\ World.mBoundSurface = mBoundSurface /\ World.manager = manager /\ World.group = group
    /\ World.ok = TRUE
BY DEF World

LEMMA BecomeWorld ==
    ASSUME NEW w \in Worlds, w.ok, Become(w)
    PROVE  World' = w
BY DEF Become, World, Worlds

LEMMA NoFailures ==
    ASSUME ImplMayFail = FALSE
    PROVE  Failures = {FALSE}
BY DEF Failures

\* The threads' contexts exist and are usable in the next world.
LEMMA CurrentSame ==
    ASSUME NEW threads, NEW w, NEW v, Current(threads, w), SameContexts(v, w)
    PROVE  Current(threads, v)
BY DEF Current, SameContexts

LEMMA CurrentWith ==
    ASSUME NEW threads, NEW w, NEW v, NEW c, Current(threads, w), v.contexts = w.contexts,
           \A d \in Contexts \ {c} : v.context[d] = w.context[d], Bound(v.context[c])
    PROVE  Current(threads, v)
<1>. SUFFICES ASSUME NEW t \in Threads, threads[t] # null
              PROVE  threads[t] \in v.contexts /\ Bound(v.context[threads[t]])
  BY DEF Current
<1>1. threads[t] \in w.contexts /\ threads[t] \in Contexts /\ Bound(w.context[threads[t]])
  BY DEF Current
<1>2. CASE threads[t] = c
  BY <1>1, <1>2
<1>3. CASE threads[t] # c
  <2>1. v.context[threads[t]] = w.context[threads[t]]
    BY <1>1, <1>3
  <2>. QED
    BY <1>1, <2>1
<1>. QED
  BY <1>2, <1>3

LEMMA InitializeStep ==
    ASSUME IInv, Initialize
    PROVE  IInv'
<1>1. World' = World
  BY DEF Initialize, World
<1>. QED
  BY <1>1 DEF IInv, Initialize

NewSurface == [NoSurface EXCEPT !.live = TRUE, !.listed = TRUE]

LEMMA NewSurfaceOK ==
    NewSurface \in SurfaceRecs /\ NewSurface.mTexture = null /\ SurfaceOK(NewSurface, 0)
<1>1. /\ NoSurface \in SurfaceRecs /\ NoSurface.mTexture = null /\ NoSurface.mCurrentCount = 0
      /\ NoSurface.mDestroyed = FALSE
  BY DEF NoSurface, SurfaceRecs
<1>2. \A r \in SurfaceRecs :
          LET n == [r EXCEPT !.live = TRUE, !.listed = TRUE]
          IN  /\ n \in SurfaceRecs /\ n.live = TRUE /\ n.listed = TRUE /\ n.mTexture = r.mTexture
              /\ n.mDestroyed = r.mDestroyed /\ n.mCurrentCount = r.mCurrentCount
  BY Zenon DEF SurfaceRecs
<1>3. /\ NewSurface \in SurfaceRecs /\ NewSurface.mTexture = null /\ NewSurface.mCurrentCount = 0
      /\ NewSurface.mDestroyed = FALSE /\ NewSurface.live = TRUE /\ NewSurface.listed = TRUE
  BY <1>1, <1>2, Zenon DEF NewSurface
<1>. QED
  BY <1>3, Zenon DEF SurfaceOK

LEMMA CreateSurfaceStep ==
    ASSUME IInv, NEW s \in Surfaces, CreateSurface(s)
    PROVE  IInv'
<1>. DEFINE w == World
            v == World'
            r == NewSurface
<1>1. w \in Worlds /\ w.ok /\ SurfacesOK(w) /\ BoundOK(w) /\ ContextsOK(w) /\ GroupOK(w)
  BY DEF IInv, Good
<1>2. w.surface \in [Surfaces -> SurfaceRecs]
  BY <1>1 DEF Worlds
<1>3. r \in SurfaceRecs /\ r.mTexture = null
  BY NewSurfaceOK
<1>4. w.surface[s] = NoSurface /\ SurfaceOK(w.surface[s], Cardinality(Having(w, s)))
  BY <1>1, WorldFields DEF SurfacesOK, SurfaceOK, CreateSurface
<1>5. Become(WithSurface(w, s, r))
  <2>1. surface' = Changed(surface, s, r)
    BY DEF CreateSurface, Changed, NewSurface
  <2>2. /\ WithSurface(w, s, r).surface = Changed(w.surface, s, r)
        /\ SameContexts(WithSurface(w, s, r), w) /\ SameGroup(WithSurface(w, s, r), w)
        /\ SameTextures(WithSurface(w, s, r), w)
    BY <1>1, <1>3, WithSurfaceEffect
  <2>. QED
    BY <2>1, <2>2, WorldFields DEF CreateSurface, Become, SameContexts, SameGroup, SameTextures
<1>6. v = WithSurface(w, s, r)
  BY <1>1, <1>3, <1>5, BecomeWorld, WithSurfaceEffect
<1>7. w.surface[s].mTexture = null /\ w.surface[s].mCurrentCount = 0
  BY <1>4 DEF NoSurface
<1>8. SurfaceStep(v, w, s, r)
  BY <1>1, <1>3, <1>6, <1>7, SetSurfaceStep
<1>. HIDE DEF v, w
<1>9. /\ v \in Worlds /\ v.ok /\ SameContexts(v, w) /\ SameGroup(v, w) /\ BoundOK(v)
      /\ v.surface[s] = r /\ \A p \in Surfaces \ {s} : v.surface[p] = w.surface[p]
  BY <1>1, <1>2, <1>3, <1>8 DEF SurfaceStep, Changed
<1>10. Cardinality(Having(w, s)) = 0
  BY <1>4, <1>7 DEF SurfaceOK
<1>11. SurfaceOK(r, 0)
  BY NewSurfaceOK
<1>12. SurfacesOK(v)
  BY <1>1, <1>9, <1>10, <1>11, HavingSame DEF SurfacesOK
<1>13. ContextsOK(v) /\ GroupOK(v)
  BY <1>1, <1>9 DEF ContextsOK, GroupOK, Users, SameContexts, SameGroup
<1>14. Good(v)
  BY <1>9, <1>12, <1>13 DEF Good
<1>15. Current(mContext', v)
  BY <1>9, CurrentSame DEF IInv, CreateSurface, w
<1>. QED
  BY <1>14, <1>15 DEF IInv, CreateSurface, v

LEMMA DestroySurfaceStep ==
    ASSUME IInv, ImplMayFail = FALSE, NEW s \in Surfaces, DestroySurface(s)
    PROVE  IInv'
<1>. DEFINE w == World
            v == destroySurface(w, s, FALSE)
<1>1. Good(w) /\ w.surface[s].listed /\ Become(v)
  <2>1. PICK fails \in Failures : Become(destroySurface(World, s, fails))
    BY DEF DestroySurface
  <2>2. fails = FALSE
    BY NoFailures, Zenon
  <2>. QED
    BY <2>1, <2>2, WorldFields, Zenon DEF IInv, DestroySurface
<1>2. WithoutSurface(v, w, s)
  BY <1>1, destroySurfaceGood, Zenon
<1>. HIDE DEF v
<1>3. World' = v
  BY <1>1, <1>2, BecomeWorld DEF WithoutSurface, Good
<1>4. mInitialized
  <2>1. w.surface[s].live
    BY <1>1, Zenon DEF Good, SurfacesOK, SurfaceOK
  <2>. QED
    BY <2>1 DEF IInv, Empty
<1>5. Current(mContext', World')
  BY <1>2, <1>3, CurrentSame DEF IInv, DestroySurface, WithoutSurface
<1>. QED
  BY <1>2, <1>3, <1>4, <1>5 DEF IInv, DestroySurface, WithoutSurface


LEMMA NextWorldFields ==
    /\ World'.contexts = mContextSet' /\ World'.context = context' /\ World'.surface = surface'
    /\ World'.mBoundSurface = mBoundSurface' /\ World'.manager = manager' /\ World'.group = group'
    /\ World'.ok = TRUE
BY DEF World

LEMMA NextWorldType ==
    ASSUME mContextSet' \in SUBSET Contexts, context' \in [Contexts -> ContextRecords],
           surface' \in [Surfaces -> SurfaceRecs],
           mBoundSurface' \in [TextureObjects -> Surfaces \cup {null}],
           manager' \in [Textures -> Managers \cup {null}], group' \in Groups
    PROVE  World' \in Worlds
BY DEF World, Worlds

NewContext(c, inGroup) ==
    [NoContext EXCEPT !.mDisplayTextureShareGroup = inGroup, !.samplerTexture = ZeroTexture(c)]

LEMMA NewContextFields ==
    ASSUME NEW c \in Contexts, NEW inGroup \in BOOLEAN
    PROVE  /\ NewContext(c, inGroup) \in ContextRecords
           /\ NewContext(c, inGroup).mCurrentSurface = null
           /\ NewContext(c, inGroup).mDisplayTextureShareGroup = inGroup
           /\ NewContext(c, inGroup).samplerTexture # null
           /\ BindingsOK(NewContext(c, inGroup), c)
<1>. DEFINE q == NewContext(c, inGroup)
<1>1. /\ NoContext \in ContextRecords /\ NoContext.mCurrentSurface = null /\ NoContext.default = null
      /\ NoContext.mReadFramebuffer = null /\ NoContext.mDrawFramebuffer = null
  BY DEF NoContext, ContextRecords, Framebuffers
<1>2. ZeroTexture(c) \in TextureObjects /\ ZeroTexture(c) # null
  BY ObjectsAssumption DEF TextureObjects
<1>3. \A r \in ContextRecords, x \in TextureObjects :
          LET n == [r EXCEPT !.mDisplayTextureShareGroup = inGroup, !.samplerTexture = x]
          IN  /\ n \in ContextRecords /\ n.mDisplayTextureShareGroup = inGroup /\ n.samplerTexture = x
              /\ n.mCurrentSurface = r.mCurrentSurface /\ n.default = r.default
              /\ n.mReadFramebuffer = r.mReadFramebuffer /\ n.mDrawFramebuffer = r.mDrawFramebuffer
  BY Zenon DEF ContextRecords
<1>4. /\ q \in ContextRecords /\ q.mDisplayTextureShareGroup = inGroup
      /\ q.samplerTexture = ZeroTexture(c) /\ q.mCurrentSurface = null /\ q.default = null
      /\ q.mReadFramebuffer = null /\ q.mDrawFramebuffer = null
  BY <1>1, <1>2, <1>3, Zenon DEF NewContext
<1>. HIDE DEF q
<1>5. BindingsOK(q, c)
  BY <1>4, UnboundOK
<1>. QED
  BY <1>2, <1>4, <1>5 DEF q

LEMMA JoinGroupFields ==
    ASSUME NEW g \in Groups
    PROVE  /\ JoinGroup(g) \in Groups /\ JoinGroup(g).mTextureManager = TRUE
           /\ JoinGroup(g).users = g.users + 1
           /\ g.mTextureManager => JoinGroup(g).refs = g.refs + 1
           /\ ~g.mTextureManager => JoinGroup(g).refs = 2
BY DEF JoinGroup, Groups

LEMMA CreateContextStep ==
    ASSUME IInv, NEW c \in Contexts, NEW inGroup \in BOOLEAN, CreateContext(c, inGroup)
    PROVE  IInv'
<1>. DEFINE w == World
            v == World'
            q == NewContext(c, inGroup)
<1>1. w \in Worlds /\ w.ok /\ SurfacesOK(w) /\ BoundOK(w) /\ ContextsOK(w) /\ GroupOK(w)
      /\ Current(mContext, w)
  BY DEF IInv, Good
<1>2. /\ w.contexts \subseteq Contexts /\ w.context \in [Contexts -> ContextRecords] /\ w.group \in Groups
      /\ c \notin w.contexts /\ null \notin Surfaces /\ mContext' = mContext /\ mInitialized /\ mInitialized'
  BY <1>1, WorldFields, ObjectsAssumption DEF Worlds, CreateContext
<1>3. /\ q \in ContextRecords /\ q.mCurrentSurface = null /\ q.mDisplayTextureShareGroup = inGroup
      /\ q.samplerTexture # null /\ BindingsOK(q, c)
  BY NewContextFields
<1>4. /\ v.contexts = w.contexts \cup {c} /\ v.context = Changed(w.context, c, q)
      /\ v.surface = w.surface /\ v.mBoundSurface = w.mBoundSurface /\ v.manager = w.manager
      /\ v.group = (IF inGroup THEN JoinGroup(w.group) ELSE w.group) /\ v.ok
  BY WorldFields, NextWorldFields DEF CreateContext, Changed, NewContext
<1>. HIDE DEF q
<1>5. Changed(w.context, c, q) \in [Contexts -> ContextRecords]
  BY <1>2, <1>3, ChangedEffect, Zenon
<1>6. v.context[c] = q /\ \A d \in Contexts \ {c} : v.context[d] = w.context[d]
  BY <1>2, <1>4 DEF Changed
<1>7. v \in Worlds
  <2>1. (IF inGroup THEN JoinGroup(w.group) ELSE w.group) \in Groups
    BY <1>2, JoinGroupFields, Zenon
  <2>2. /\ mContextSet' \in SUBSET Contexts /\ context' \in [Contexts -> ContextRecords]
        /\ surface' \in [Surfaces -> SurfaceRecs]
        /\ mBoundSurface' \in [TextureObjects -> Surfaces \cup {null}]
        /\ manager' \in [Textures -> Managers \cup {null}] /\ group' \in Groups
    BY <1>1, <1>2, <1>4, <1>5, <2>1, NextWorldFields, Zenon DEF Worlds
  <2>. QED
    BY <2>2, NextWorldType
<1>. HIDE DEF v, w
<1>8. \A s \in Surfaces : Having(v, s) = Having(w, s)
  BY <1>2, <1>3, <1>4, <1>6 DEF Having
<1>9. SurfacesOK(v) /\ BoundOK(v)
  BY <1>1, <1>4, <1>8 DEF SurfacesOK, BoundOK
<1>10. ContextsOK(v)
  BY <1>1, <1>3, <1>4, <1>6 DEF ContextsOK
<1>11. GroupOK(v)
  <2>1. /\ w.group.users = Cardinality(Users(w)) /\ (w.group.mTextureManager <=> Users(w) # {})
        /\ w.group.refs = Cardinality(Users(w)) + (IF w.group.mTextureManager THEN 1 ELSE 0)
        /\ \A x \in Textures : \/ w.manager[x] \in (w.contexts \ Users(w)) \cup {null}
                               \/ w.manager[x] = "group" /\ w.group.mTextureManager
    BY <1>1 DEF GroupOK
  <2>2. CASE inGroup
    <3>1. Users(v) = Users(w) \cup {c} /\ c \notin Users(w)
      BY <1>2, <1>3, <1>4, <1>6, <2>2, Zenon DEF Users
    <3>2. Cardinality(Users(v)) = Cardinality(Users(w)) + 1
      <4>1. Cardinality(Users(w) \cup {c}) = Cardinality(Users(w)) + 1
        BY <1>1, <3>1, UsersFinite, FS_AddElement, Zenon
      <4>. QED
        BY <3>1, <4>1
    <3>3. v.group.mTextureManager = TRUE /\ v.group.users = w.group.users + 1
      BY <1>2, <1>4, <2>2, JoinGroupFields, Zenon
    <3>4. v.group.refs = Cardinality(Users(v)) + 1
      <4>1. v.group = JoinGroup(w.group)
        BY <1>4, <2>2
      <4>2. CASE w.group.mTextureManager
        <5>1. v.group.refs = w.group.refs + 1
          BY <1>2, <4>1, <4>2, JoinGroupFields, Zenon
        <5>2. w.group.refs = Cardinality(Users(w)) + 1
          BY <2>1, <4>2
        <5>. QED
          BY <3>2, <5>1, <5>2
      <4>3. CASE ~w.group.mTextureManager
        <5>1. v.group.refs = 2
          BY <1>2, <4>1, <4>3, JoinGroupFields, Zenon
        <5>2. Users(w) = {}
          BY <2>1, <4>3
        <5>3. Cardinality(Users(w)) = 0
          BY <5>2, FS_EmptySet
        <5>. QED
          BY <3>2, <5>1, <5>3
      <4>. QED
        BY <4>2, <4>3
    <3>5. \A x \in Textures : \/ v.manager[x] \in (v.contexts \ Users(v)) \cup {null}
                              \/ v.manager[x] = "group" /\ v.group.mTextureManager
      BY <1>2, <1>4, <2>1, <3>1, <3>3
    <3>. QED
      BY <2>1, <3>1, <3>2, <3>3, <3>4, <3>5 DEF GroupOK
  <2>3. CASE ~inGroup
    <3>1. Users(v) = Users(w)
      BY <1>2, <1>3, <1>4, <1>6, <2>3 DEF Users
    <3>. QED
      BY <1>4, <2>1, <2>3, <3>1 DEF GroupOK
  <2>. QED
    BY <2>2, <2>3
<1>12. Good(v)
  BY <1>4, <1>7, <1>9, <1>10, <1>11 DEF Good
<1>13. Current(mContext, v)
  BY <1>1, <1>2, <1>4, <1>6 DEF Current
<1>. QED
  BY <1>2, <1>12, <1>13 DEF IInv, v


LEMMA DestroyContextStep ==
    ASSUME IInv, ImplMayFail = FALSE, NEW t \in Threads, NEW c \in Contexts, DestroyContext(t, c)
    PROVE  IInv'
<1>. DEFINE w == World
            v == destroyContext(c, w, FALSE)
<1>1. Good(w) /\ c \in w.contexts /\ Become(v) /\ Current(mContext, w)
  <2>1. PICK fails \in Failures : Become(destroyContext(c, World, fails))
    BY DEF DestroyContext
  <2>2. fails = FALSE
    BY NoFailures, Zenon
  <2>. QED
    BY <2>1, <2>2, WorldFields, Zenon DEF IInv, DestroyContext
<1>2. WithoutContext(v, w, c)
  BY <1>1, destroyContextGood, Zenon
<1>3. mInitialized /\ mInitialized' = mInitialized
  BY <1>1 DEF IInv, Empty, DestroyContext
<1>. HIDE DEF v, w
<1>4. World' = v
  BY <1>1, <1>2, BecomeWorld DEF WithoutContext, Good
<1>5. /\ Good(v) /\ v.contexts = w.contexts \ {c}
      /\ \A d \in Contexts \ {c} : v.context[d] = w.context[d]
  BY <1>2 DEF WithoutContext
<1>6. /\ mContext \in [Threads -> Contexts \cup {null}]
      /\ mContext' = [mContext EXCEPT ![t] = IF mContext[t] = c THEN null ELSE mContext[t]]
      /\ \A u \in Threads \ {t} : mContext[u] # c
  BY <1>1 DEF Current, DestroyContext, NotCurrentElsewhere
<1>7. /\ mContext' \in [Threads -> Contexts \cup {null}]
      /\ \A u \in Threads : mContext'[u] # null => mContext'[u] = mContext[u] /\ mContext[u] # c
  BY <1>6
<1>8. Current(mContext', v)
  BY <1>1, <1>5, <1>7 DEF Current
<1>. QED
  BY <1>3, <1>4, <1>5, <1>8 DEF IInv

\* What eglMakeCurrent needs of the contexts of the other threads.
OthersCurrent(threads, w, t) ==
    /\ threads \in [Threads -> Contexts \cup {null}]
    /\ \A u \in Threads \ {t} :
           threads[u] # null => threads[u] \in w.contexts /\ Bound(w.context[threads[u]])
    /\ threads[t] # null => threads[t] \in w.contexts
    /\ \A u, x \in Threads : u # x /\ threads[u] # null => threads[u] # threads[x]

\* The context to be current on thread t has its bindings.
CanSwitch(threads, w, t, c) ==
    c # null => c \in w.contexts /\ Bound(w.context[c]) /\ \A u \in Threads \ {t} : threads[u] # c

\* The thread's previous context releases its surface.
Switching(m, previous, c) ==
    IF previous \notin {null, c} THEN releaseSurface(m, previous, FALSE) ELSE m

Switched(v, m, threads, t, c) ==
    Good(v) /\ v.contexts = m.contexts /\ Current([threads EXCEPT ![t] = c], v)

LEMMA SwitchCurrent ==
    ASSUME NEW m, Good(m), NEW threads, NEW t \in Threads, OthersCurrent(threads, m, t),
           NEW c \in Contexts \cup {null}, CanSwitch(threads, m, t, c),
           NEW v, v = Switching(m, threads[t], c)
    PROVE  Switched(v, m, threads, t, c)
<1>. DEFINE p == threads[t]
            new == [threads EXCEPT ![t] = c]
<1>1. /\ Good(v) /\ v.contexts = m.contexts
      /\ p # null /\ p # c => \A d \in Contexts \ {p} : v.context[d] = m.context[d]
      /\ p = null \/ p = c => v = m
  <2>1. CASE p \in {null, c}
    BY <2>1, Zenon DEF Switching
  <2>2. CASE p \notin {null, c}
    <3>1. p \in m.contexts /\ v = releaseSurface(m, p, FALSE)
      BY <2>2 DEF OthersCurrent, Switching
    <3>2. Good(v) /\ OnlyContext(v, m, p)
      BY <3>1, releaseSurfaceGood, Zenon
    <3>. QED
      BY <2>2, <3>2 DEF OnlyContext
  <2>. QED
    BY <2>1, <2>2
<1>2. /\ threads \in [Threads -> Contexts \cup {null}] /\ new \in [Threads -> Contexts \cup {null}]
      /\ new[t] = c /\ \A u \in Threads \ {t} : new[u] = threads[u]
  BY DEF OthersCurrent
<1>. HIDE DEF new
<1>3. ASSUME NEW u \in Threads, new[u] # null
      PROVE  new[u] \in v.contexts /\ Bound(v.context[new[u]])
  <2>1. new[u] \in m.contexts /\ new[u] \in Contexts /\ Bound(m.context[new[u]])
    BY <1>2, <1>3 DEF OthersCurrent, CanSwitch
  <2>2. p # null /\ p # c => new[u] # p
    BY <1>2, <1>3 DEF OthersCurrent
  <2>3. v.context[new[u]] = m.context[new[u]]
    BY <1>1, <2>1, <2>2
  <2>. QED
    BY <1>1, <2>1, <2>3
<1>4. ASSUME NEW u \in Threads, NEW x \in Threads, u # x, new[u] # null
      PROVE  new[u] # new[x]
  BY <1>2, <1>4 DEF OthersCurrent, CanSwitch
<1>5. Current(new, v)
  BY <1>2, <1>3, <1>4 DEF Current
<1>. QED
  BY <1>1, <1>5 DEF new, Switched

LEMMA MakeCurrentStep ==
    ASSUME IInv, ImplMayFail = FALSE, NEW t \in Threads, NEW c \in Contexts,
           NEW s \in Surfaces \cup {null}, MakeCurrent(t, c, s)
    PROVE  IInv'
<1>. DEFINE w == World
            m == makeCurrent(w, c, s, FALSE)
            v == Switching(m, mContext[t], c)
<1>0. c # null
  BY ObjectsAssumption
<1>1. /\ Good(w) /\ c \in w.contexts /\ Current(mContext, w) /\ mInitialized
      /\ mInitialized' = mInitialized
      /\ s # null => w.surface[s].listed
      /\ \A u \in Threads \ {t} : mContext[u] # c
  BY <1>0, WorldFields DEF IInv, MakeCurrent, NotCurrentElsewhere
<1>2. Good(m) /\ OnlyContext(m, w, c) /\ Bound(m.context[c])
  BY <1>1, makeCurrentGood, Zenon
<1>3. m.ok /\ m.contexts = w.contexts /\ \A d \in Contexts \ {c} : m.context[d] = w.context[d]
  BY <1>2, Zenon DEF Good, OnlyContext
<1>4. Become(v) /\ mContext' = [mContext EXCEPT ![t] = c]
  <2>1. PICK fails \in Failures :
            LET made == IF c = null THEN World ELSE makeCurrent(World, c, s, fails)
                previous == mContext[t]
            IN  /\ Become(IF made.ok /\ previous \notin {null, c}
                          THEN releaseSurface(made, previous, fails)
                          ELSE made)
                /\ mContext' = IF made.ok THEN [mContext EXCEPT ![t] = c] ELSE mContext
    BY DEF MakeCurrent
  <2>2. fails = FALSE
    BY NoFailures, Zenon
  <2>3. (IF c = null THEN World ELSE makeCurrent(World, c, s, fails)) = m
    BY <1>0, <2>2, Zenon
  <2>. HIDE DEF m
  <2>4. /\ Become(IF m.ok /\ mContext[t] \notin {null, c}
                  THEN releaseSurface(m, mContext[t], fails)
                  ELSE m)
        /\ mContext' = IF m.ok THEN [mContext EXCEPT ![t] = c] ELSE mContext
    BY <2>1, <2>3
  <2>5. (IF m.ok /\ mContext[t] \notin {null, c} THEN releaseSurface(m, mContext[t], fails) ELSE m) = v
    BY <1>3, <2>2, Zenon DEF Switching
  <2>. QED
    BY <1>3, <2>4, <2>5
<1>. HIDE DEF m, w
<1>5. OthersCurrent(mContext, m, t)
  BY <1>1, <1>3 DEF Current, OthersCurrent
<1>9. CanSwitch(mContext, m, t, c)
  BY <1>1, <1>2, <1>3 DEF CanSwitch
<1>6. Switched(v, m, mContext, t, c)
  BY <1>2, <1>5, <1>9, SwitchCurrent
<1>. HIDE DEF v
<1>7. World' = v
  BY <1>4, <1>6, BecomeWorld DEF Good, Switched
<1>. QED
  BY <1>1, <1>4, <1>6, <1>7 DEF IInv, Switched

LEMMA MakeNoneCurrentStep ==
    ASSUME IInv, ImplMayFail = FALSE, NEW t \in Threads, MakeCurrent(t, null, null)
    PROVE  IInv'
<1>. DEFINE w == World
            v == Switching(w, mContext[t], null)
<1>1. Good(w) /\ Current(mContext, w) /\ w.ok /\ mInitialized' = mInitialized
  BY DEF IInv, MakeCurrent, Good
<1>4. Become(v) /\ mContext' = [mContext EXCEPT ![t] = null]
  <2>1. PICK fails \in Failures :
            LET made == IF null = null THEN World ELSE makeCurrent(World, null, null, fails)
                previous == mContext[t]
            IN  /\ Become(IF made.ok /\ previous \notin {null, null}
                          THEN releaseSurface(made, previous, fails)
                          ELSE made)
                /\ mContext' = IF made.ok THEN [mContext EXCEPT ![t] = null] ELSE mContext
    BY DEF MakeCurrent
  <2>2. fails = FALSE
    BY NoFailures, Zenon
  <2>. HIDE DEF w
  <2>3. /\ Become(IF w.ok /\ mContext[t] \notin {null, null}
                  THEN releaseSurface(w, mContext[t], fails)
                  ELSE w)
        /\ mContext' = IF w.ok THEN [mContext EXCEPT ![t] = null] ELSE mContext
    BY <2>1 DEF w
  <2>4. (IF w.ok /\ mContext[t] \notin {null, null} THEN releaseSurface(w, mContext[t], fails) ELSE w) = v
    BY <1>1, <2>2, Zenon DEF Switching
  <2>. QED
    BY <1>1, <2>3, <2>4
<1>2. ~mInitialized => Empty(w) /\ mContext[t] = null
  BY <1>1 DEF IInv, Empty, Current
<1>. HIDE DEF w
<1>5. OthersCurrent(mContext, w, t)
  BY <1>1 DEF Current, OthersCurrent
<1>6. Switched(v, w, mContext, t, null)
  <2>1. CanSwitch(mContext, w, t, null)
    BY DEF CanSwitch
  <2>. QED
    BY <1>1, <1>5, <2>1, SwitchCurrent
<1>7. ~mInitialized => Empty(v)
  BY <1>2, Zenon DEF Switching
<1>. HIDE DEF v
<1>8. World' = v
  BY <1>4, <1>6, BecomeWorld DEF Good, Switched
<1>. QED
  BY <1>1, <1>4, <1>6, <1>7, <1>8 DEF IInv, Switched

LEMMA TerminateStep ==
    ASSUME IInv, ImplMayFail = FALSE, NEW t \in Threads, Terminate(t)
    PROVE  IInv'
<1>. DEFINE v == terminate(FALSE)
<1>1. Become(v) /\ mInitialized' = ~v.ok
  <2>1. PICK fails \in Failures : Become(terminate(fails)) /\ mInitialized' = ~terminate(fails).ok
    BY DEF Terminate
  <2>2. fails = FALSE
    BY NoFailures, Zenon
  <2>. QED
    BY <2>1, <2>2, Zenon
<1>2. Good(v) /\ Empty(v)
  BY terminateEffect, Zenon DEF IInv, Empty
<1>. HIDE DEF v
<1>3. World' = v /\ v.ok
  BY <1>1, <1>2, BecomeWorld DEF Good
<1>4. mContext' = [u \in Threads |-> null]
  <2>1. mContext \in [Threads -> Contexts \cup {null}] /\ mContext' = [mContext EXCEPT ![t] = null]
    BY DEF IInv, Current, Terminate
  <2>2. ASSUME NEW u \in Threads \ {t} PROVE mContext[u] = null
    <3>1. mContext[u] # null => mContext[u] \in mContextSet
      BY WorldFields DEF IInv, Current
    <3>. QED
      BY <3>1 DEF Terminate, NotCurrentElsewhere
  <2>. QED
    BY <2>1, <2>2, Zenon
<1>5. Current(mContext', v)
  BY <1>4 DEF Current
<1>. QED
  BY <1>1, <1>2, <1>3, <1>5 DEF IInv


\* A call on the current context that changes its bindings, and names of
\* textures in its texture manager.
ClientStep(c, q) ==
    /\ context' = Changed(context, c, q)
    /\ manager' \in [Textures -> Managers \cup {null}]
    /\ \A x \in Textures : manager'[x] \in {manager[x], null, TextureManagerOf(c)}
    /\ UNCHANGED <<mInitialized, mContextSet, mContext, surface, mBoundSurface, group>>

Rebound(q, c) ==
    /\ Follows(q, World, c) /\ Bound(q)
    /\ q.mCurrentSurface = context[c].mCurrentSurface

LEMMA ClientStepKeeps ==
    ASSUME IInv, NEW c \in mContextSet, NEW q, Rebound(q, c), ClientStep(c, q)
    PROVE  IInv'
<1>. DEFINE w == World
            u == WithContext(w, c, q)
            v == World'
<1>1. w \in Worlds /\ w.ok /\ SurfacesOK(w) /\ BoundOK(w) /\ GroupOK(w) /\ Good(w) /\ Current(mContext, w)
  BY DEF IInv, Good
<1>2. /\ Follows(q, w, c) /\ q \in ContextRecords /\ Bound(q) /\ c \in w.contexts /\ c \in Contexts
      /\ q.mCurrentSurface = w.context[c].mCurrentSurface
  BY <1>1, WorldFields DEF Rebound, Follows, Worlds
<1>3. ContextStep(u, w, c, q) /\ u.surface = w.surface
  <2>1. u = WithContext(w, c, q)
    OBVIOUS
  <2>. HIDE DEF u, w
  <2>. QED
    BY <1>1, <1>2, <2>1, OtherFieldsStep, ZenonT(30)
<1>4. GoodWith(u, w, c, q)
  BY <1>1, <1>2, <1>3, ContextStepGood, Zenon
<1>5. u.context = Changed(w.context, c, q) /\ SameTextures(u, w) /\ SameGroup(u, w)
  BY <1>1, <1>2, WithContextEffect, Zenon
<1>6. /\ v.contexts = w.contexts /\ v.context = Changed(w.context, c, q) /\ v.surface = w.surface
      /\ v.mBoundSurface = w.mBoundSurface /\ v.group = w.group /\ v.ok
      /\ v.manager \in [Textures -> Managers \cup {null}]
      /\ \A x \in Textures : v.manager[x] \in {w.manager[x], null, TextureManagerOf(c)}
      /\ mInitialized' = mInitialized /\ mContext' = mContext
  BY WorldFields, NextWorldFields DEF ClientStep
<1>7. v \in Worlds
  <2>1. Changed(w.context, c, q) \in [Contexts -> ContextRecords]
    BY <1>1, <1>2, ChangedEffect, Zenon DEF Worlds
  <2>2. /\ mContextSet' \in SUBSET Contexts /\ context' \in [Contexts -> ContextRecords]
        /\ surface' \in [Surfaces -> SurfaceRecs]
        /\ mBoundSurface' \in [TextureObjects -> Surfaces \cup {null}]
        /\ manager' \in [Textures -> Managers \cup {null}] /\ group' \in Groups
    BY <1>1, <1>6, <2>1, NextWorldFields, Zenon DEF Worlds
  <2>. QED
    BY <2>2, NextWorldType
<1>8. TextureManagerOf(c) = IF w.context[c].mDisplayTextureShareGroup THEN "group" ELSE c
  BY WorldFields DEF TextureManagerOf
<1>9. mInitialized /\ mInitialized \in BOOLEAN
  BY <1>2, Zenon DEF IInv, Empty
<1>. HIDE DEF u, v, w
<1>10. /\ Good(u) /\ u.contexts = w.contexts /\ u.context[c] = q
       /\ \A d \in Contexts \ {c} : u.context[d] = w.context[d]
  BY <1>4 DEF GoodWith, OnlyContext
<1>11. v.contexts = u.contexts /\ v.context = u.context /\ v.surface = u.surface
       /\ v.mBoundSurface = u.mBoundSurface /\ v.group = u.group
  BY <1>3, <1>5, <1>6, <1>10, Zenon DEF SameTextures, SameGroup
<1>12. SurfacesOK(v) /\ ContextsOK(v) /\ BoundOK(v)
  <2>1. SurfacesOK(u) /\ ContextsOK(u) /\ BoundOK(u) /\ SameContexts(v, u) /\ SameTextures(v, u)
    BY <1>10, <1>11, Zenon DEF Good, SameContexts, SameTextures
  <2>2. ContextsOK(v)
    BY <1>11, <2>1, Zenon DEF ContextsOK
  <2>. QED
    BY <1>11, <2>1, <2>2, SurfacesSame, BoundSame, Zenon
<1>13. GroupOK(v)
  <2>1. Users(v) = Users(u) /\ GroupOK(u)
    BY <1>10, <1>11, Zenon DEF Users, Good
  <2>2. c \in Users(u) <=> w.context[c].mDisplayTextureShareGroup
    BY <1>2, <1>10, Zenon DEF Users, Follows
  <2>3. ASSUME NEW x \in Textures
        PROVE  \/ v.manager[x] \in (v.contexts \ Users(v)) \cup {null}
               \/ v.manager[x] = "group" /\ v.group.mTextureManager
    <3>1. CASE v.manager[x] = w.manager[x]
      <4>1. v.manager[x] = u.manager[x]
        BY <1>5, <3>1 DEF SameGroup
      <4>. QED
        BY <1>11, <2>1, <4>1 DEF GroupOK
    <3>2. CASE v.manager[x] = null
      BY <3>2
    <3>3. CASE v.manager[x] = TextureManagerOf(c)
      BY <1>2, <1>8, <1>10, <1>11, <2>1, <2>2, <3>3, Zenon DEF GroupOK
    <3>. QED
      BY <1>6, <3>1, <3>2, <3>3, Zenon
  <2>. QED
    BY <1>11, <2>1, <2>3, Zenon DEF GroupOK
<1>14. Good(v)
  BY <1>6, <1>7, <1>12, <1>13, Zenon DEF Good
<1>15. Current(mContext, v)
  <2>1. v.contexts = w.contexts /\ Bound(v.context[c])
        /\ \A d \in Contexts \ {c} : v.context[d] = w.context[d]
    BY <1>2, <1>10, <1>11
  <2>. QED
    BY <1>1, <2>1, CurrentWith
<1>. QED
  BY <1>6, <1>9, <1>14, <1>15 DEF IInv, v

\* The current context of a thread, as its calls find it.
LEMMA CurrentFields ==
    ASSUME IInv, NEW t \in Threads, mContext[t] # null
    PROVE  LET c == mContext[t]
           IN  /\ c \in mContextSet /\ c \in Contexts /\ context[c] \in ContextRecords
               /\ Bound(context[c]) /\ BindingsOK(context[c], c)
               /\ context[c].samplerTexture \in TextureObjects
               /\ manager \in [Textures -> Managers \cup {null}]
               /\ TextureManagerOf(c) \in Managers /\ mInitialized
<1>. DEFINE c == mContext[t]
<1>1. World \in Worlds /\ ContextsOK(World) /\ Current(mContext, World)
  BY DEF IInv, Good
<1>2. c \in mContextSet /\ Bound(context[c])
  BY <1>1, WorldFields DEF Current
<1>3. mContextSet \subseteq Contexts /\ context \in [Contexts -> ContextRecords]
      /\ manager \in [Textures -> Managers \cup {null}]
  BY <1>1, WorldFields DEF Worlds
<1>4. c \in Contexts /\ context[c] \in ContextRecords
  BY <1>2, <1>3
<1>5. BindingsOK(context[c], c) /\ context[c].samplerTexture # null
  BY <1>1, <1>2, <1>4, WorldFields DEF ContextsOK
<1>6. context[c].samplerTexture \in TextureObjects
  BY <1>4, <1>5 DEF ContextRecords
<1>7. TextureManagerOf(c) \in Managers
  BY <1>4 DEF TextureManagerOf, Managers
<1>8. mInitialized
  BY <1>2, WorldFields DEF IInv, Empty
<1>. QED
  BY <1>2, <1>3, <1>4, <1>5, <1>6, <1>7, <1>8


WithBindings(r, read, draw) == [r EXCEPT !.mReadFramebuffer = read, !.mDrawFramebuffer = draw]

LEMMA WithBindingsRebound ==
    ASSUME IInv, NEW t \in Threads, mContext[t] # null,
           NEW read, read \in {context[mContext[t]].mReadFramebuffer, context[mContext[t]].mDrawFramebuffer,
                               context[mContext[t]].default, UserFramebuffer},
           NEW draw, draw \in {context[mContext[t]].mReadFramebuffer, context[mContext[t]].mDrawFramebuffer,
                               context[mContext[t]].default, UserFramebuffer}
    PROVE  Rebound(WithBindings(context[mContext[t]], read, draw), mContext[t])
<1>. DEFINE c == mContext[t]
            r == context[c]
            q == WithBindings(r, read, draw)
<1>1. /\ c \in Contexts /\ r \in ContextRecords /\ Bound(r) /\ BindingsOK(r, c)
      /\ r.samplerTexture \in TextureObjects
  BY CurrentFields, Zenon
<1>. HIDE DEF r, c
<1>2. UserFramebuffer \in Framebuffers /\ UserFramebuffer # null /\ null \notin TextureObjects
  BY ObjectsAssumption DEF Framebuffers
<1>3. /\ read \in Framebuffers /\ draw \in Framebuffers /\ read # null /\ draw # null
      /\ BindingOK(r, c, read) /\ BindingOK(r, c, draw)
  BY <1>1, <1>2, Zenon DEF ContextRecords, Bound, BindingsOK, BindingOK, r, c
<1>4. /\ q \in ContextRecords /\ q.mCurrentSurface = r.mCurrentSurface
      /\ q.mReadFramebuffer = read /\ q.mDrawFramebuffer = draw /\ q.default = r.default
      /\ q.mSurfacelessFramebuffer = r.mSurfacelessFramebuffer
      /\ q.mDisplayTextureShareGroup = r.mDisplayTextureShareGroup
      /\ q.samplerTexture = r.samplerTexture
  BY <1>1, <1>3, Zenon DEF ContextRecords, WithBindings
<1>. HIDE DEF q
<1>5. BindingsOK(q, c)
  BY <1>1, <1>3, <1>4, Zenon DEF BindingsOK, BindingOK
<1>6. Bound(q)
  BY <1>1, <1>3, <1>4, Zenon DEF Bound
<1>7. Rebound(q, c)
  BY <1>1, <1>2, <1>4, <1>5, <1>6, WorldFields, Zenon DEF Rebound, Follows, r
<1>. QED
  BY <1>7 DEF q, r, c

LEMMA SameManager ==
    ASSUME IInv, NEW t \in Threads, mContext[t] # null, UNCHANGED manager
    PROVE  /\ manager' \in [Textures -> Managers \cup {null}]
           /\ \A x \in Textures : manager'[x] \in {manager[x], null, TextureManagerOf(mContext[t])}
BY CurrentFields

LEMMA bindFramebufferStep ==
    ASSUME IInv, NEW t \in Threads, NEW target, NEW fb \in {0, UserFramebuffer},
           bindFramebuffer(t, target, fb)
    PROVE  IInv'
<1>. DEFINE c == mContext[t]
            r == context[c]
            object == IF fb = 0 THEN r.default ELSE fb
            read == IF target # "draw" THEN object ELSE r.mReadFramebuffer
            draw == IF target # "read" THEN object ELSE r.mDrawFramebuffer
            q == WithBindings(r, read, draw)
<1>1. /\ c # null /\ context' = Changed(context, c, q)
      /\ UNCHANGED <<mInitialized, mContextSet, mContext, surface, mBoundSurface, manager, group>>
  BY DEF bindFramebuffer, CurrentContext, Changed, WithBindings
<1>2. c \in mContextSet
  BY <1>1, CurrentFields, Zenon
<1>3. read \in {r.mReadFramebuffer, r.mDrawFramebuffer, r.default, UserFramebuffer}
      /\ draw \in {r.mReadFramebuffer, r.mDrawFramebuffer, r.default, UserFramebuffer}
  OBVIOUS
<1>. HIDE DEF read, draw
<1>4. Rebound(q, c)
  BY <1>1, <1>3, WithBindingsRebound, Zenon
<1>5. ClientStep(c, q)
  BY <1>1, SameManager DEF ClientStep
<1>. QED
  BY <1>2, <1>4, <1>5, ClientStepKeeps

LEMMA deleteFramebufferStep ==
    ASSUME IInv, NEW t \in Threads, deleteFramebuffer(t)
    PROVE  IInv'
<1>. DEFINE c == mContext[t]
            r == context[c]
            detached(fb) == IF fb = UserFramebuffer THEN r.default ELSE fb
            read == detached(r.mReadFramebuffer)
            draw == detached(r.mDrawFramebuffer)
            q == WithBindings(r, read, draw)
<1>1. /\ c # null /\ context' = Changed(context, c, q)
      /\ UNCHANGED <<mInitialized, mContextSet, mContext, surface, mBoundSurface, manager, group>>
  BY DEF deleteFramebuffer, CurrentContext, Changed, WithBindings
<1>2. c \in mContextSet
  BY <1>1, CurrentFields, Zenon
<1>3. read \in {r.mReadFramebuffer, r.mDrawFramebuffer, r.default, UserFramebuffer}
      /\ draw \in {r.mReadFramebuffer, r.mDrawFramebuffer, r.default, UserFramebuffer}
  OBVIOUS
<1>. HIDE DEF read, draw
<1>4. Rebound(q, c)
  BY <1>1, <1>3, WithBindingsRebound, Zenon
<1>5. ClientStep(c, q)
  BY <1>1, SameManager DEF ClientStep
<1>. QED
  BY <1>2, <1>4, <1>5, ClientStepKeeps

WithTexture(r, x) == [r EXCEPT !.samplerTexture = x]

LEMMA WithTextureRebound ==
    ASSUME IInv, NEW t \in Threads, mContext[t] # null, NEW x \in TextureObjects
    PROVE  Rebound(WithTexture(context[mContext[t]], x), mContext[t])
<1>. DEFINE c == mContext[t]
            r == context[c]
            q == WithTexture(r, x)
<1>1. c \in Contexts /\ r \in ContextRecords /\ Bound(r) /\ BindingsOK(r, c)
  BY CurrentFields
<1>. HIDE DEF r, c
<1>2. null \notin TextureObjects
  BY ObjectsAssumption
<1>4. /\ q \in ContextRecords /\ q.mCurrentSurface = r.mCurrentSurface
      /\ q.mReadFramebuffer = r.mReadFramebuffer /\ q.mDrawFramebuffer = r.mDrawFramebuffer
      /\ q.default = r.default /\ q.mSurfacelessFramebuffer = r.mSurfacelessFramebuffer
      /\ q.mDisplayTextureShareGroup = r.mDisplayTextureShareGroup /\ q.samplerTexture = x
  BY <1>1 DEF ContextRecords, WithTexture
<1>. HIDE DEF q
<1>5. BindingsOK(q, c) /\ Bound(q)
  BY <1>1, <1>4 DEF BindingsOK, BindingOK, Bound
<1>7. Rebound(q, c)
  BY <1>1, <1>2, <1>4, <1>5, WorldFields DEF Rebound, Follows, r
<1>. QED
  BY <1>7 DEF q, r, c

LEMMA bindTextureStep ==
    ASSUME IInv, NEW t \in Threads, NEW x \in TextureObjects, bindTexture(t, x)
    PROVE  IInv'
<1>. DEFINE c == mContext[t]
            q == WithTexture(context[c], x)
<1>1. /\ c # null /\ context' = Changed(context, c, q)
      /\ UNCHANGED <<mInitialized, mContextSet, mContext, surface, mBoundSurface, group>>
      /\ UNCHANGED manager \/ (x \in Textures /\ manager' = [manager EXCEPT ![x] = TextureManagerOf(c)])
  BY DEF bindTexture, CurrentContext, Changed, WithTexture
<1>2. /\ c \in mContextSet /\ TextureManagerOf(c) \in Managers
      /\ manager \in [Textures -> Managers \cup {null}]
  BY <1>1, CurrentFields, Zenon
<1>3. /\ manager' \in [Textures -> Managers \cup {null}]
      /\ \A y \in Textures : manager'[y] \in {manager[y], null, TextureManagerOf(c)}
  BY <1>1, <1>2
<1>4. Rebound(q, c)
  BY <1>1, WithTextureRebound
<1>5. ClientStep(c, q)
  BY <1>1, <1>3 DEF ClientStep
<1>. QED
  BY <1>2, <1>4, <1>5, ClientStepKeeps, Zenon

LEMMA deleteTextureStep ==
    ASSUME IInv, NEW t \in Threads, NEW x \in Textures, deleteTexture(t, x)
    PROVE  IInv'
<1>. DEFINE c == mContext[t]
            r == context[c]
            y == IF r.samplerTexture = x THEN ZeroTexture(c) ELSE r.samplerTexture
            q == WithTexture(r, y)
<1>1. /\ c # null /\ context' = Changed(context, c, q)
      /\ UNCHANGED <<mInitialized, mContextSet, mContext, surface, mBoundSurface, group>>
      /\ manager' = [manager EXCEPT ![x] = null]
  BY DEF deleteTexture, CurrentContext, Changed, WithTexture
<1>2. /\ c \in mContextSet /\ c \in Contexts /\ r.samplerTexture \in TextureObjects
      /\ manager \in [Textures -> Managers \cup {null}]
  BY <1>1, CurrentFields, Zenon
<1>3. /\ manager' \in [Textures -> Managers \cup {null}]
      /\ \A z \in Textures : manager'[z] \in {manager[z], null, TextureManagerOf(c)}
  BY <1>1, <1>2, Zenon
<1>4. y \in TextureObjects
  BY <1>2 DEF TextureObjects
<1>. HIDE DEF y
<1>5. Rebound(q, c)
  BY <1>1, <1>4, WithTextureRebound, Zenon
<1>6. ClientStep(c, q)
  BY <1>1, <1>3, Zenon DEF ClientStep
<1>. QED
  BY <1>2, <1>5, <1>6, ClientStepKeeps, Zenon


\* A call that changes only which surfaces have which textures.
LEMMA TextureStepKeeps ==
    ASSUME IInv, mInitialized, NEW v, World' = v, v \in Worlds, v.ok, SurfacesOK(v), BoundOK(v),
           SameContexts(v, World), SameGroup(v, World), UNCHANGED <<mInitialized, mContext>>
    PROVE  IInv'
<1>1. ContextsOK(World) /\ GroupOK(World) /\ Current(mContext, World)
  BY DEF IInv, Good
<1>2. ContextsOK(v)
  BY <1>1 DEF ContextsOK, SameContexts
<1>3. GroupOK(v)
  BY <1>1, Zenon DEF GroupOK, Users, SameContexts, SameGroup
<1>4. Good(v) /\ Current(mContext', v)
  BY <1>1, <1>2, <1>3, CurrentSame DEF Good
<1>. QED
  BY <1>4 DEF IInv

Tied(r, x) == [r EXCEPT !.mTexture = x]

LEMMA TiedFields ==
    ASSUME NEW r \in SurfaceRecs, NEW x \in TextureObjects, NEW n, SurfaceOK(r, n), r.live
    PROVE  Tied(r, x) \in SurfaceRecs /\ Tied(r, x).mTexture = x /\ SurfaceOK(Tied(r, x), n)
<1>1. /\ Tied(r, x) \in SurfaceRecs /\ Tied(r, x).mTexture = x /\ Tied(r, x).live = r.live
      /\ Tied(r, x).listed = r.listed /\ Tied(r, x).mDestroyed = r.mDestroyed
      /\ Tied(r, x).mCurrentCount = r.mCurrentCount
  BY Zenon DEF Tied, SurfaceRecs
<1>. QED
  BY <1>1, Zenon DEF SurfaceOK

LEMMA BindTexImageStep ==
    ASSUME IInv, ImplMayFail = FALSE, NEW t \in Threads, NEW s \in Surfaces, BindTexImage(t, s)
    PROVE  IInv'
<1>. DEFINE w == World
            x == context[mContext[t]].samplerTexture
            r == Tied(w.surface[s], x)
            u == WithBound(w, x, s)
            v == WithSurface(u, s, r)
<1>1. /\ w \in Worlds /\ w.ok /\ SurfacesOK(w) /\ BoundOK(w) /\ mContext[t] # null
      /\ w.surface[s].listed /\ w.surface[s].mTexture = null
      /\ UNCHANGED <<mInitialized, mContextSet, mContext, context, manager, group>>
  BY WorldFields DEF IInv, Good, BindTexImage, CurrentContext
<1>2. x \in TextureObjects /\ mInitialized
  BY <1>1, CurrentFields, Zenon
<1>3. mBoundSurface' = Changed(w.mBoundSurface, x, s) /\ surface' = Changed(w.surface, s, r)
  <2>1. PICK fails \in Failures :
            IF fails
            THEN mBoundSurface' = [mBoundSurface EXCEPT ![x] = null] /\ UNCHANGED surface
            ELSE /\ mBoundSurface' = [mBoundSurface EXCEPT ![x] = s]
                 /\ surface' = [surface EXCEPT ![s].mTexture = x]
    BY DEF BindTexImage, CurrentContext
  <2>2. fails = FALSE
    BY NoFailures, Zenon
  <2>. QED
    BY <2>1, <2>2, WorldFields DEF Changed, Tied
<1>. HIDE DEF x, w
<1>4. w.surface \in [Surfaces -> SurfaceRecs] /\ w.mBoundSurface \in [TextureObjects -> Surfaces \cup {null}]
      /\ null \notin TextureObjects /\ null \notin Surfaces
  BY <1>1, ObjectsAssumption, Zenon DEF Worlds
<1>5. SurfaceOK(w.surface[s], Cardinality(Having(w, s))) /\ w.surface[s].live
  BY <1>1, Zenon DEF SurfacesOK, SurfaceOK
<1>6. r \in SurfaceRecs /\ r.mTexture = x /\ SurfaceOK(r, Cardinality(Having(w, s)))
  BY <1>2, <1>4, <1>5, TiedFields, Zenon
<1>. HIDE DEF r
<1>7. /\ u \in Worlds /\ u.ok = w.ok /\ u.mBoundSurface = Changed(w.mBoundSurface, x, s)
      /\ u.surface = w.surface /\ SameContexts(u, w) /\ SameGroup(u, w)
  BY <1>1, <1>2, WithBoundEffect, Zenon
<1>. HIDE DEF u
<1>8. /\ v \in Worlds /\ v.ok = u.ok /\ v.surface = Changed(u.surface, s, r)
      /\ SameContexts(v, u) /\ SameGroup(v, u) /\ SameTextures(v, u)
  BY <1>6, <1>7, WithSurfaceEffect
<1>. HIDE DEF v
<1>9. /\ v.surface = Changed(w.surface, s, r) /\ v.mBoundSurface = Changed(w.mBoundSurface, x, s)
      /\ SameContexts(v, w) /\ SameGroup(v, w) /\ v.ok
  BY <1>1, <1>7, <1>8, Zenon DEF SameContexts, SameGroup, SameTextures
<1>10. World' = v
  <2>1. Become(v)
    BY <1>1, <1>3, <1>9, WorldFields, Zenon DEF Become, SameContexts, SameGroup, w
  <2>. QED
    BY <1>8, <1>9, <2>1, BecomeWorld
<1>11. /\ v.surface[s] = r /\ \A p \in Surfaces \ {s} : v.surface[p] = w.surface[p]
       /\ v.mBoundSurface[x] = s /\ \A y \in TextureObjects \ {x} : v.mBoundSurface[y] = w.mBoundSurface[y]
  <2>1. /\ Changed(w.surface, s, r)[s] = r
        /\ \A p \in Surfaces \ {s} : Changed(w.surface, s, r)[p] = w.surface[p]
    BY <1>4, <1>6 DEF Changed
  <2>2. /\ Changed(w.mBoundSurface, x, s)[x] = s
        /\ \A y \in TextureObjects \ {x} : Changed(w.mBoundSurface, x, s)[y] = w.mBoundSurface[y]
    BY <1>2, <1>4 DEF Changed
  <2>. QED
    BY <1>9, <2>1, <2>2, Zenon
<1>12. SurfacesOK(v)
  <2>. SUFFICES ASSUME NEW p \in Surfaces
                PROVE  SurfaceOK(v.surface[p], Cardinality(Having(v, p)))
    BY Zenon DEF SurfacesOK
  <2>1. Having(v, p) = Having(w, p)
    BY <1>9, HavingSame, Zenon
  <2>2. SurfaceOK(w.surface[p], Cardinality(Having(w, p)))
    BY <1>1, Zenon DEF SurfacesOK
  <2>3. CASE p = s
    BY <1>6, <1>11, <2>1, <2>3, Zenon
  <2>4. CASE p # s
    BY <1>11, <2>1, <2>2, <2>4, Zenon
  <2>. QED
    BY <2>3, <2>4, Zenon
<1>13. BoundOK(v)
  <2>. SUFFICES ASSUME NEW y \in TextureObjects, v.mBoundSurface[y] # null
                PROVE  v.surface[v.mBoundSurface[y]].mTexture = y
    BY DEF BoundOK
  <2>1. CASE y = x
    BY <1>6, <1>11, <2>1
  <2>2. CASE y # x
    <3>0. v.mBoundSurface[y] = w.mBoundSurface[y]
      BY <1>11, <2>2, Zenon
    <3>1. /\ v.mBoundSurface[y] = w.mBoundSurface[y] /\ w.mBoundSurface[y] \in Surfaces
          /\ w.surface[w.mBoundSurface[y]].mTexture = y
      <4>1. w.mBoundSurface[y] # null
        BY <3>0, Zenon
      <4>2. w.mBoundSurface[y] \in Surfaces \cup {null}
        BY <1>4, Zenon
      <4>3. w.surface[w.mBoundSurface[y]].mTexture = y
        BY <1>1, <4>1, Zenon DEF BoundOK
      <4>. QED
        BY <3>0, <4>1, <4>2, <4>3, Zenon
    <3>2. w.mBoundSurface[y] # s
      BY <1>1, <1>4, <3>1, Zenon
    <3>. QED
      BY <1>11, <3>1, <3>2
  <2>. QED
    BY <2>1, <2>2
<1>. QED
  BY <1>1, <1>2, <1>8, <1>9, <1>10, <1>12, <1>13, TextureStepKeeps, Zenon DEF w

\* eglReleaseTexImage, and the redefinition of a texture a surface is bound to.
LEMMA LetTextureGoKeeps ==
    ASSUME IInv, mInitialized, NEW s \in Surfaces, surface[s].mTexture # null,
           Become(LetTextureGo(World, s)), UNCHANGED <<mInitialized, mContext>>
    PROVE  IInv'
<1>. DEFINE w == World
            v == LetTextureGo(w, s)
<1>1. /\ w \in Worlds /\ w.ok /\ SurfacesOK(w) /\ BoundOK(w) /\ w.surface[s].mTexture # null
  BY WorldFields DEF IInv, Good
<1>2. SurfaceStep(v, w, s, Untied(w.surface[s]))
  BY <1>1, LetTextureGoStep
<1>3. Become(v)
  OBVIOUS
<1>. HIDE DEF v
<1>4. /\ v \in Worlds /\ v.ok /\ SurfacesOK(v) /\ BoundOK(v)
      /\ SameContexts(v, w) /\ SameGroup(v, w)
  BY <1>1, <1>2, UntieKeeps, Zenon
<1>5. World' = v
  BY <1>3, <1>4, BecomeWorld
<1>. QED
  BY <1>4, <1>5, TextureStepKeeps

LEMMA ReleaseTexImageStep ==
    ASSUME IInv, NEW t \in Threads, NEW s \in Surfaces, ReleaseTexImage(t, s)
    PROVE  IInv'
<1>1. mInitialized
  <2>1. SurfaceOK(surface[s], Cardinality(Having(World, s)))
    BY WorldFields DEF IInv, Good, SurfacesOK
  <2>2. World.surface[s].live
    BY <2>1, WorldFields, Zenon DEF SurfaceOK, ReleaseTexImage
  <2>. QED
    BY <2>2 DEF IInv, Empty
<1>. QED
  BY <1>1, LetTextureGoKeeps DEF ReleaseTexImage

LEMMA setImageStep ==
    ASSUME IInv, NEW t \in Threads, setImage(t)
    PROVE  IInv'
<1>. DEFINE x == context[mContext[t]].samplerTexture
            s == mBoundSurface[x]
<1>1. /\ mContext[t] # null /\ s # null
      /\ surface' = [surface EXCEPT ![s].mTexture = null]
      /\ mBoundSurface' = [mBoundSurface EXCEPT ![x] = null]
      /\ UNCHANGED <<mInitialized, mContextSet, mContext, context, manager, group>>
  BY Zenon DEF setImage, CurrentContext
<1>2. x \in TextureObjects /\ mInitialized
  BY <1>1, CurrentFields, Zenon
<1>3. World \in Worlds /\ BoundOK(World)
  BY DEF IInv, Good
<1>4. mBoundSurface \in [TextureObjects -> Surfaces \cup {null}] /\ surface \in [Surfaces -> SurfaceRecs]
      /\ null \notin TextureObjects
  BY <1>3, WorldFields, ObjectsAssumption DEF Worlds
<1>5. s \in Surfaces
  BY <1>1, <1>2, <1>4, Zenon
<1>6. surface[s].mTexture = x
  BY <1>1, <1>2, <1>3, WorldFields, Zenon DEF BoundOK
<1>7. Become(LetTextureGo(World, s))
  <2>1. LetTextureGo(World, s) =
            [World EXCEPT !.mBoundSurface[x] = null, !.surface[s].mTexture = null]
    BY <1>6, WorldFields, Zenon DEF LetTextureGo
  <2>2. LetTextureGo(World, s) = WithSurface(WithBound(World, x, null), s, Untied(surface[s]))
    BY <1>3, <2>1, WorldFields DEF WithSurface, WithBound, Changed, Untied, World
  <2>3. /\ WithBound(World, x, null) \in Worlds
        /\ WithBound(World, x, null).mBoundSurface = Changed(mBoundSurface, x, null)
        /\ WithBound(World, x, null).surface = surface
        /\ SameContexts(WithBound(World, x, null), World) /\ SameGroup(WithBound(World, x, null), World)
    <3>1. null \in Surfaces \cup {null} /\ World.mBoundSurface = mBoundSurface /\ World.surface = surface
      BY WorldFields, Zenon
    <3>. QED
      BY <1>2, <1>3, <3>1, WithBoundEffect, Zenon
  <2>4. Untied(surface[s]) \in SurfaceRecs
    BY <1>4, <1>5, UntiedType, Zenon
  <2>. DEFINE u == WithBound(World, x, null)
              v == WithSurface(u, s, Untied(surface[s]))
  <2>. HIDE DEF u
  <2>5. /\ v.surface = Changed(u.surface, s, Untied(surface[s]))
        /\ SameContexts(v, u) /\ SameGroup(v, u) /\ SameTextures(v, u)
    BY <1>5, <2>3, <2>4, WithSurfaceEffect, Zenon DEF u
  <2>. HIDE DEF v
  <2>6. surface' = Changed(surface, s, Untied(surface[s])) /\ mBoundSurface' = Changed(mBoundSurface, x, null)
    BY <1>1, Zenon DEF Changed, Untied
  <2>8. /\ u.mBoundSurface = Changed(mBoundSurface, x, null) /\ u.surface = surface
        /\ SameContexts(u, World) /\ SameGroup(u, World)
    BY <2>3, Zenon DEF u
  <2>9. /\ v.contexts = mContextSet /\ v.context = context /\ v.manager = manager /\ v.group = group
        /\ v.mBoundSurface = u.mBoundSurface
    BY <2>5, <2>8, WorldFields, Zenon DEF SameContexts, SameGroup, SameTextures
  <2>. HIDE DEF x
  <2>7. Become(v)
    BY <1>1, <2>5, <2>6, <2>8, <2>9, Zenon DEF Become
  <2>. QED
    BY <2>2, <2>7 DEF v, u
<1>8. surface[s].mTexture # null
  BY <1>2, <1>4, <1>6, Zenon
<1>. HIDE DEF s
<1>. QED
  BY <1>1, <1>2, <1>5, <1>7, <1>8, LetTextureGoKeeps


-------------------------------------------------------------------------------
(* The invariant holds initially and every step keeps it.                  *)

LEMMA InitIInv == Init => IInv
<1>. SUFFICES ASSUME Init PROVE IInv
  OBVIOUS
<1>. DEFINE w == World
<1>1. /\ w.contexts = {} /\ w.context = [c \in Contexts |-> NoContext]
      /\ w.surface = [s \in Surfaces |-> NoSurface] /\ w.mBoundSurface = [x \in TextureObjects |-> null]
      /\ w.manager = [x \in Textures |-> null] /\ w.ok
      /\ w.group = [mTextureManager |-> FALSE, users |-> 0, refs |-> 0]
  BY WorldFields DEF Init
<1>2. w \in Worlds
  <2>1. [mTextureManager |-> FALSE, users |-> 0, refs |-> 0] \in Groups
    BY DEF Groups
  <2>2. /\ mContextSet \in SUBSET Contexts /\ context \in [Contexts -> ContextRecords]
        /\ surface \in [Surfaces -> SurfaceRecs] /\ group \in Groups
        /\ mBoundSurface \in [TextureObjects -> Surfaces \cup {null}]
        /\ manager \in [Textures -> Managers \cup {null}]
    <3>1. mContextSet = {} /\ group \in Groups
      BY <2>1, Zenon DEF Init
    <3>2. context \in [Contexts -> ContextRecords]
      BY NoContextType, Zenon DEF Init
    <3>3. surface \in [Surfaces -> SurfaceRecs]
      BY NoSurfaceType, Zenon DEF Init
    <3>4. /\ mBoundSurface \in [TextureObjects -> Surfaces \cup {null}]
          /\ manager \in [Textures -> Managers \cup {null}]
      BY Zenon DEF Init
    <3>. QED
      BY <3>1, <3>2, <3>3, <3>4, Zenon
  <2>. QED
    BY <2>2 DEF World, Worlds
<1>. HIDE DEF w
<1>3. \A s \in Surfaces : w.surface[s] = NoSurface /\ Having(w, s) = {}
  <2>1. w.contexts = {} /\ w.surface = [s \in Surfaces |-> NoSurface]
    BY <1>1, Zenon
  <2>. QED
    BY <2>1, Zenon DEF Having
<1>4. SurfaceOK(NoSurface, 0) /\ NoSurface.live = FALSE
  BY NoSurfaceOK DEF NoSurface
<1>5. Cardinality({}) = 0
  BY FS_EmptySet
<1>6. SurfacesOK(w)
  BY <1>3, <1>4, <1>5 DEF SurfacesOK
<1>7. ContextsOK(w) /\ BoundOK(w)
  BY <1>1 DEF ContextsOK, BoundOK
<1>8. GroupOK(w)
  <2>1. Users(w) = {}
    BY <1>1 DEF Users
  <2>2. w.group.mTextureManager = FALSE /\ w.group.users = 0 /\ w.group.refs = 0
    BY <1>1
  <2>. QED
    BY <1>1, <1>5, <2>1, <2>2 DEF GroupOK
<1>9. Current(mContext, w)
  BY DEF Current, Init
<1>10. Empty(w)
  BY <1>1, <1>3, <1>4 DEF Empty
<1>11. mInitialized \in BOOLEAN
  BY Zenon DEF Init
<1>. QED
  BY <1>1, <1>2, <1>6, <1>7, <1>8, <1>9, <1>10, <1>11, Zenon DEF IInv, Good, w

LEMMA NextIInv ==
    ASSUME ImplMayFail = FALSE, IInv, [Next]_vars
    PROVE  IInv'
<1>1. CASE Initialize
  BY <1>1, InitializeStep
<1>2. ASSUME NEW s \in Surfaces, CreateSurface(s)
      PROVE  IInv'
  BY <1>2, CreateSurfaceStep
<1>3. ASSUME NEW s \in Surfaces, DestroySurface(s)
      PROVE  IInv'
  BY <1>3, DestroySurfaceStep, Zenon
<1>4. ASSUME NEW c \in Contexts, NEW inGroup \in BOOLEAN, CreateContext(c, inGroup)
      PROVE  IInv'
  BY <1>4, CreateContextStep
<1>5. ASSUME NEW t \in Threads, NEW c \in Contexts, DestroyContext(t, c)
      PROVE  IInv'
  BY <1>5, DestroyContextStep, Zenon
<1>6. ASSUME NEW t \in Threads, NEW c \in Contexts, NEW s \in Surfaces \cup {null}, MakeCurrent(t, c, s)
      PROVE  IInv'
  BY <1>6, MakeCurrentStep, Zenon
<1>7. ASSUME NEW t \in Threads, MakeCurrent(t, null, null)
      PROVE  IInv'
  BY <1>7, MakeNoneCurrentStep, Zenon
<1>8. ASSUME NEW t \in Threads, Terminate(t)
      PROVE  IInv'
  BY <1>8, TerminateStep, Zenon
<1>9. ASSUME NEW t \in Threads, NEW target \in {"read", "draw", "both"},
             NEW fb \in {0, UserFramebuffer}, bindFramebuffer(t, target, fb)
      PROVE  IInv'
  BY <1>9, bindFramebufferStep
<1>10. ASSUME NEW t \in Threads, deleteFramebuffer(t)
       PROVE  IInv'
  BY <1>10, deleteFramebufferStep
<1>11. ASSUME NEW t \in Threads, NEW x \in TextureObjects, bindTexture(t, x)
       PROVE  IInv'
  BY <1>11, bindTextureStep
<1>12. ASSUME NEW t \in Threads, NEW x \in Textures, deleteTexture(t, x)
       PROVE  IInv'
  BY <1>12, deleteTextureStep
<1>13. ASSUME NEW t \in Threads, NEW s \in Surfaces, BindTexImage(t, s)
       PROVE  IInv'
  BY <1>13, BindTexImageStep, Zenon
<1>14. ASSUME NEW t \in Threads, NEW s \in Surfaces, ReleaseTexImage(t, s)
       PROVE  IInv'
  BY <1>14, ReleaseTexImageStep
<1>15. ASSUME NEW t \in Threads, setImage(t)
       PROVE  IInv'
  BY <1>15, setImageStep
<1>16. CASE UNCHANGED vars
  <2>1. World' = World
    BY <1>16 DEF vars, World
  <2>. QED
    BY <1>16, <2>1 DEF vars, IInv
<1>. QED
  BY <1>1, <1>2, <1>3, <1>4, <1>5, <1>6, <1>7, <1>8, <1>9, <1>10, <1>11, <1>12, <1>13, <1>14,
     <1>15, <1>16, Zenon DEF Next

LEMMA Invariant ==
    ASSUME ImplMayFail = FALSE
    PROVE  Spec => []IInv
<1>1. IInv /\ [Next]_vars => IInv'
  BY NextIInv, Zenon
<1>. QED
  BY InitIInv, <1>1, PTL DEF Spec

-------------------------------------------------------------------------------
(* What the invariant says of the checked properties.                      *)

LEMMA SurfaceFacts ==
    ASSUME IInv, NEW s \in Surfaces
    PROVE  /\ surface[s] \in SurfaceRecs
           /\ SurfaceOK(surface[s], Cardinality(Having(World, s)))
           /\ surface[s].mCurrentCount \in 0..Cardinality(Contexts)
           /\ surface[s].mTexture # null => surface[s].live
<1>1. World \in Worlds /\ SurfacesOK(World)
  BY DEF IInv, Good
<1>2. surface[s] \in SurfaceRecs /\ SurfaceOK(surface[s], Cardinality(Having(World, s)))
  BY <1>1, WorldFields DEF Worlds, SurfacesOK
<1>3. Cardinality(Having(World, s)) \in 0..Cardinality(Contexts)
  <2>1. Having(World, s) \subseteq Contexts
    BY <1>1 DEF Worlds, Having
  <2>2. Cardinality(Having(World, s)) <= Cardinality(Contexts)
        /\ Cardinality(Contexts) \in Nat /\ Cardinality(Having(World, s)) \in Nat
    BY <2>1, <1>1, ObjectsAssumption, FS_Subset, FS_CardinalityType, HavingFinite
  <2>. QED
    BY <2>2
<1>4. surface[s].mCurrentCount = Cardinality(Having(World, s))
  BY <1>2 DEF SurfaceOK
<1>5. surface[s].mTexture # null => surface[s].live
  BY <1>2, LiveOrEmpty, Zenon
<1>. QED
  BY <1>2, <1>3, <1>4, <1>5

LEMMA TypeFollows == ASSUME IInv PROVE TypeOK
<1>1. /\ mContextSet \subseteq Contexts /\ context \in [Contexts -> ContextRecords]
      /\ surface \in [Surfaces -> SurfaceRecs]
      /\ mBoundSurface \in [TextureObjects -> Surfaces \cup {null}]
      /\ manager \in [Textures -> Managers \cup {null}] /\ group \in Groups
      /\ mInitialized \in BOOLEAN /\ mContext \in [Threads -> Contexts \cup {null}]
  BY WorldFields DEF IInv, Good, Worlds, Current
<1>2. ASSUME NEW s \in Surfaces PROVE surface[s] \in SurfaceRecords
  BY SurfaceFacts, Zenon DEF SurfaceRecs, SurfaceRecords
<1>3. group.mTextureManager \in BOOLEAN
  BY <1>1 DEF Groups
<1>4. group.users \in 0..Cardinality(Contexts) /\ group.refs \in 0..(Cardinality(Contexts) + 1)
  <2>1. Users(World) \subseteq Contexts
    BY <1>1, WorldFields DEF Users
  <2>2. /\ Cardinality(Users(World)) <= Cardinality(Contexts)
        /\ Cardinality(Contexts) \in Nat /\ Cardinality(Users(World)) \in Nat
    BY <2>1, ObjectsAssumption, FS_Subset, FS_CardinalityType
  <2>3. /\ group.users = Cardinality(Users(World))
        /\ group.refs = Cardinality(Users(World)) + (IF group.mTextureManager THEN 1 ELSE 0)
    BY WorldFields, Zenon DEF IInv, Good, GroupOK
  <2>. QED
    BY <2>2, <2>3
<1>5. surface \in [Surfaces -> SurfaceRecords]
  BY <1>1, <1>2
<1>. QED
  BY <1>1, <1>3, <1>4, <1>5 DEF TypeOK

LEMMA CountsFollow == ASSUME IInv PROVE CurrentCountExact
<1>. SUFFICES ASSUME NEW s \in Surfaces
              PROVE  surface[s].mCurrentCount =
                         Cardinality({c \in mContextSet : context[c].mCurrentSurface = s})
  BY DEF CurrentCountExact
<1>1. surface[s].mCurrentCount = Cardinality(Having(World, s))
  BY SurfaceFacts DEF SurfaceOK
<1>2. Having(World, s) = {c \in mContextSet : context[c].mCurrentSurface = s}
  BY WorldFields DEF Having
<1>. QED
  BY <1>1, <1>2

LEMMA DeletedFollows == ASSUME IInv PROVE DeletedWhenUnused
<1>. SUFFICES ASSUME NEW s \in Surfaces
              PROVE  /\ surface[s].live /\ surface[s].mDestroyed => surface[s].mCurrentCount > 0
                     /\ surface[s].live = (surface[s].listed \/ surface[s].mDestroyed)
  BY DEF DeletedWhenUnused
<1>1. /\ SurfaceOK(surface[s], Cardinality(Having(World, s)))
      /\ surface[s].mCurrentCount \in 0..Cardinality(Contexts)
  BY SurfaceFacts
<1>2. surface[s].live = (surface[s].listed \/ surface[s].mDestroyed)
  BY <1>1 DEF SurfaceOK
<1>3. surface[s].mDestroyed => surface[s].mCurrentCount # 0
  BY <1>1, Zenon DEF SurfaceOK
<1>4. surface[s].mDestroyed => surface[s].mCurrentCount > 0
  BY <1>1, <1>3
<1>. QED
  BY <1>2, <1>4

LEMMA DefaultsFollow == ASSUME IInv PROVE DefaultFramebufferLive
<1>. SUFFICES ASSUME NEW c \in mContextSet,
                     NEW fb \in {context[c].mReadFramebuffer, context[c].mDrawFramebuffer,
                                 context[c].default} \ {null, UserFramebuffer}
              PROVE  IF fb \in Surfaces
                     THEN surface[fb].live /\ context[c].mCurrentSurface = fb
                     ELSE /\ fb = c
                          /\ context[c].mSurfacelessFramebuffer
                          /\ context[c].mCurrentSurface = null
  BY DEF DefaultFramebufferLive
<1>1. c \in Contexts /\ BindingsOK(context[c], c)
  BY WorldFields, Zenon DEF IInv, Good, Worlds, ContextsOK
<1>2. BindingOK(context[c], c, fb)
  BY <1>1 DEF BindingsOK
<1>3. c \notin Surfaces
  BY <1>1, ObjectsAssumption
<1>4. CASE fb \in Surfaces
  <2>1. context[c].mCurrentSurface = fb
    BY <1>2, <1>3, <1>4 DEF BindingOK
  <2>2. c \in Having(World, fb) /\ World \in Worlds
    BY <2>1, WorldFields, Zenon DEF Having, IInv, Good
  <2>3. Cardinality(Having(World, fb)) # 0
    BY <2>2, HavingFinite, FS_EmptySet
  <2>4. surface[fb].mCurrentCount # 0
    BY <1>4, <2>3, SurfaceFacts, Zenon DEF SurfaceOK
  <2>5. surface[fb].live
    BY <1>4, <2>4, SurfaceFacts, LiveOrEmpty, Zenon
  <2>. QED
    BY <1>4, <2>1, <2>5
<1>5. CASE fb \notin Surfaces
  BY <1>2, <1>5 DEF BindingOK
<1>. QED
  BY <1>4, <1>5, Zenon

LEMMA BoundFollows == ASSUME IInv PROVE BoundSurfaceHoldsTexture
<1>. SUFFICES ASSUME NEW x \in TextureObjects, mBoundSurface[x] # null
              PROVE  surface[mBoundSurface[x]].live /\ surface[mBoundSurface[x]].mTexture = x
  BY DEF BoundSurfaceHoldsTexture
<1>1. mBoundSurface[x] \in Surfaces
  BY WorldFields, Zenon DEF IInv, Good, Worlds
<1>2. surface[mBoundSurface[x]].mTexture = x
  BY WorldFields, Zenon DEF IInv, Good, BoundOK
<1>3. x # null
  BY ObjectsAssumption
<1>. QED
  BY <1>1, <1>2, <1>3, SurfaceFacts, Zenon

LEMMA EmptyFollows == ASSUME IInv PROVE NothingAfterTerminate
<1>. SUFFICES ASSUME ~mInitialized
              PROVE  /\ mContextSet = {}
                     /\ \A s \in Surfaces : ~surface[s].live
                     /\ \A x \in TextureObjects : ~IsReferenced(x) /\ mBoundSurface[x] = null
  BY DEF NothingAfterTerminate
<1>1. mContextSet = {} /\ \A s \in Surfaces : ~surface[s].live
  BY WorldFields DEF IInv, Empty
<1>2. \A s \in Surfaces : surface[s].mTexture = null
  BY <1>1, SurfaceFacts
<1>3. \A c \in Contexts : context[c].samplerTexture = null
  <2>1. \A c \in Contexts : context[c] = NoContext
    BY <1>1, WorldFields, Zenon DEF IInv, Good, ContextsOK
  <2>. QED
    BY <2>1 DEF NoContext
<1>4. \A x \in Textures : manager[x] = null
  <2>1. Users(World) = {} /\ GroupOK(World)
    BY <1>1, WorldFields, Zenon DEF IInv, Good, Users
  <2>. QED
    BY <1>1, <2>1, WorldFields DEF GroupOK
<1>5. ASSUME NEW x \in TextureObjects PROVE ~IsReferenced(x) /\ mBoundSurface[x] = null
  <2>1. x # null
    BY ObjectsAssumption
  <2>2. ~IsReferenced(x)
    BY <1>2, <1>3, <1>4, <2>1 DEF IsReferenced
  <2>3. mBoundSurface[x] = null
    <3>1. mBoundSurface[x] \in Surfaces \cup {null}
      BY WorldFields DEF IInv, Good, Worlds
    <3>2. mBoundSurface[x] # null => surface[mBoundSurface[x]].live
      BY BoundFollows, Zenon DEF BoundSurfaceHoldsTexture
    <3>. QED
      BY <1>1, <3>1, <3>2
  <2>. QED
    BY <2>2, <2>3
<1>. QED
  BY <1>1, <1>5


-------------------------------------------------------------------------------
(* The properties of Display, as theorems.                                 *)

\* The variables have values the code's fields can have: no count of a surface
\* or of the share group leaves its range.
THEOREM TypeCorrect ==
    ASSUME ImplMayFail = FALSE
    PROVE  Spec => []TypeOK
<1>1. IInv => TypeOK
  BY TypeFollows
<1>. QED
  BY Invariant, <1>1, PTL

\* Surface::setIsCurrent counts exactly the contexts that have the surface, so
\* that its ASSERT(mCurrentCount > 0) holds and the surface is deleted by a
\* count that is right.
THEOREM CurrentCountExactTheorem ==
    ASSUME ImplMayFail = FALSE
    PROVE  Spec => []CurrentCountExact
<1>1. IInv => CurrentCountExact
  BY CountsFollow
<1>. QED
  BY Invariant, <1>1, PTL

\* A surface is deleted when it has been destroyed and no context has it, and
\* not before: Surface::onDestroy and setIsCurrent between them, for any number
\* of contexts that had it.
THEOREM DeletedWhenUnusedTheorem ==
    ASSUME ImplMayFail = FALSE
    PROVE  Spec => []DeletedWhenUnused
<1>1. IInv => DeletedWhenUnused
  BY DeletedFollows
<1>. QED
  BY Invariant, <1>1, PTL

\* No context has the default framebuffer of a surface that is deleted or not
\* current bound: what Context::makeCurrent and releaseSurface leave bound.
THEOREM DefaultFramebufferLiveTheorem ==
    ASSUME ImplMayFail = FALSE
    PROVE  Spec => []DefaultFramebufferLive
<1>1. IInv => DefaultFramebufferLive
  BY DefaultsFollow
<1>. QED
  BY Invariant, <1>1, PTL

\* The context a thread has current exists and has all its framebuffer
\* bindings (eglMakeCurrent, eglDestroyContext and eglTerminate by any thread).
THEOREM CurrentContextUsableTheorem ==
    ASSUME ImplMayFail = FALSE
    PROVE  Spec => []CurrentContextUsable
<1>1. IInv => CurrentContextUsable
  BY WorldFields, Zenon DEF IInv, Current, Bound, CurrentContextUsable
<1>. QED
  BY Invariant, <1>1, PTL

\* The display's texture manager exists exactly while a context uses the share
\* group, with a reference for each of them: the ASSERTs of
\* Display::createContext and destroyContext.
THEOREM ShareGroupExactTheorem ==
    ASSUME ImplMayFail = FALSE
    PROVE  Spec => []ShareGroupExact
<1>1. IInv => ShareGroupExact
  BY WorldFields, Zenon DEF IInv, Good, GroupOK, Users, ShareGroupExact
<1>. QED
  BY Invariant, <1>1, PTL

\* Texture::mBoundSurface is never a deleted surface, nor one that has let the
\* texture go.
THEOREM BoundSurfaceHoldsTextureTheorem ==
    ASSUME ImplMayFail = FALSE
    PROVE  Spec => []BoundSurfaceHoldsTexture
<1>1. IInv => BoundSurfaceHoldsTexture
  BY BoundFollows
<1>. QED
  BY Invariant, <1>1, PTL

\* Display::terminate leaves no context, no surface and no reference to a
\* texture, whatever was current, destroyed or bound before.
THEOREM NothingAfterTerminateTheorem ==
    ASSUME ImplMayFail = FALSE
    PROVE  Spec => []NothingAfterTerminate
<1>1. IInv => NothingAfterTerminate
  BY EmptyFollows
<1>. QED
  BY Invariant, <1>1, PTL
===============================================================================
