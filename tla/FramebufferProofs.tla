--------------------------- MODULE FramebufferProofs --------------------------
(***************************************************************************)
(* Proofs about Framebuffer, for any number of contexts, textures and      *)
(* levels, and for the clients that do without the operations that are     *)
(* known to break its properties.                                          *)
(***************************************************************************)
EXTENDS Framebuffer, TLAPS

-------------------------------------------------------------------------------
(* Textures.  Nothing is assumed of the sizes of images.                   *)

InitStates == {"Initialized", "MayNeedInit"}
Contents == {"defined", "undefined", "mixed"}

InitState(x, l) == x.mImageDescs[l].initState
SizeOf(x, l) == x.mImageDescs[l].size

IsTexture(x) ==
    /\ x = [mImageDescs |-> x.mImageDescs, contents |-> x.contents,
            mBaseLevel |-> x.mBaseLevel, mImmutableLevels |-> x.mImmutableLevels]
    /\ x.mImageDescs = [l \in Levels |-> x.mImageDescs[l]]
    /\ \A l \in Levels : /\ x.mImageDescs[l] = Image(SizeOf(x, l), InitState(x, l))
                         /\ InitState(x, l) \in InitStates
    /\ x.contents \in [Levels -> Contents]
    /\ x.mBaseLevel \in Levels
    /\ x.mImmutableLevels \in 0 .. MaxLevel + 1

\* InitStateExact, of one level and of all.
ExactAt(x, l) ==
    x.contents[l] # "mixed" /\ (InitState(x, l) = "MayNeedInit" <=> x.contents[l] = "undefined")
Exact(x) == \A l \in Levels : ExactAt(x, l)

\* The completeness of an attachment depends on this much.
SameShape(y, x) ==
    /\ y.mBaseLevel = x.mBaseLevel /\ y.mImmutableLevels = x.mImmutableLevels
    /\ \A l \in Levels : SizeOf(y, l) = SizeOf(x, l)

LEMMA NewTextureOK == IsTexture(NewTexture) /\ Exact(NewTexture)
BY MaxLevelAssumption DEF NewTexture, IsTexture, Exact, ExactAt, NoImage, Image, InitState,
                          SizeOf, Levels, InitStates, Contents

\* What the calls do to level l.
WithContents(x, l, e) == [x EXCEPT !.contents[l] = e]

NewContents(y, x, l, e) ==
    /\ IsTexture(y) /\ SameShape(y, x) /\ y.mImageDescs = x.mImageDescs
    /\ y.contents[l] = e
    /\ \A k \in Levels \ {l} : y.contents[k] = x.contents[k]

LEMMA ContentsEffect ==
    ASSUME NEW x, IsTexture(x), NEW l \in Levels, NEW e \in Contents,
           NEW y, y = WithContents(x, l, e)
    PROVE  NewContents(y, x, l, e)
<1>. DEFINE c == [x.contents EXCEPT ![l] = e]
<1>1. c \in [Levels -> Contents] /\ c[l] = e /\ \A k \in Levels \ {l} : c[k] = x.contents[k]
  BY DEF IsTexture
<1>2. y = [x EXCEPT !.contents = c]
  BY DEF WithContents
<1>. HIDE DEF c
<1>3. y = [mImageDescs |-> x.mImageDescs, contents |-> c,
           mBaseLevel |-> x.mBaseLevel, mImmutableLevels |-> x.mImmutableLevels]
  BY <1>2 DEF IsTexture
<1>4. /\ y.mImageDescs = x.mImageDescs /\ y.contents = c
      /\ y.mBaseLevel = x.mBaseLevel /\ y.mImmutableLevels = x.mImmutableLevels
  BY <1>3
<1>. QED
  BY <1>1, <1>3, <1>4 DEF IsTexture, SameShape, SizeOf, InitState, NewContents

WithImage(x, l, i) == [x EXCEPT !.mImageDescs[l] = i]

LEMMA DescEffect ==
    ASSUME NEW x, IsTexture(x), NEW l \in Levels, NEW size, NEW s \in InitStates,
           NEW y, y = WithImage(x, l, Image(size, s))
    PROVE  /\ IsTexture(y) /\ y.contents = x.contents
           /\ y.mBaseLevel = x.mBaseLevel /\ y.mImmutableLevels = x.mImmutableLevels
           /\ InitState(y, l) = s /\ SizeOf(y, l) = size
           /\ \A k \in Levels \ {l} : y.mImageDescs[k] = x.mImageDescs[k]
<1>. DEFINE i == Image(size, s)
            d == [x.mImageDescs EXCEPT ![l] = i]
<1>1. i.size = size /\ i.initState = s /\ i = Image(i.size, i.initState)
  BY DEF Image
<1>. HIDE DEF i
<1>2. /\ d = [k \in Levels |-> d[k]] /\ d[l] = i
      /\ \A k \in Levels \ {l} : d[k] = x.mImageDescs[k]
  BY DEF IsTexture
<1>3. y = [x EXCEPT !.mImageDescs = d]
  BY DEF WithImage, i
<1>. HIDE DEF d
<1>4. y = [mImageDescs |-> d, contents |-> x.contents,
           mBaseLevel |-> x.mBaseLevel, mImmutableLevels |-> x.mImmutableLevels]
  BY <1>3 DEF IsTexture
<1>5. /\ y.mImageDescs = d /\ y.contents = x.contents
      /\ y.mBaseLevel = x.mBaseLevel /\ y.mImmutableLevels = x.mImmutableLevels
  BY <1>4
<1>6. \A k \in Levels : d[k] = Image(d[k].size, d[k].initState) /\ d[k].initState \in InitStates
  BY <1>1, <1>2 DEF IsTexture, SizeOf, InitState
<1>. QED
  BY <1>1, <1>2, <1>4, <1>5, <1>6 DEF IsTexture, SizeOf, InitState

NewInitState(y, x, l, s) ==
    /\ IsTexture(y) /\ SameShape(y, x) /\ y.contents = x.contents
    /\ InitState(y, l) = s
    /\ \A k \in Levels \ {l} : InitState(y, k) = InitState(x, k)

LEMMA SetInitStateEffect ==
    ASSUME NEW x, IsTexture(x), NEW l \in Levels, NEW s \in InitStates,
           NEW y, y = setInitState(x, l, s)
    PROVE  NewInitState(y, x, l, s)
<1>. DEFINE i == x.mImageDescs[l]
            size == SizeOf(x, l)
<1>1. i = [size |-> size, initState |-> InitState(x, l)]
  BY DEF IsTexture, Image
<1>2. y = WithImage(x, l, [i EXCEPT !.initState = s])
  BY DEF setInitState, WithImage
<1>. HIDE DEF i, size
<1>3. [i EXCEPT !.initState = s] = Image(size, s)
  BY <1>1 DEF Image
<1>4. y = WithImage(x, l, Image(size, s))
  BY <1>2, <1>3
<1>5. /\ IsTexture(y) /\ y.contents = x.contents
      /\ y.mBaseLevel = x.mBaseLevel /\ y.mImmutableLevels = x.mImmutableLevels
      /\ InitState(y, l) = s /\ SizeOf(y, l) = size
      /\ \A k \in Levels \ {l} : y.mImageDescs[k] = x.mImageDescs[k]
  BY <1>4, DescEffect
<1>. QED
  BY <1>5 DEF SameShape, SizeOf, InitState, NewInitState, size

\* y has the images of x; what may need a clear in y may need one in x.
Calmer(y, x) ==
    /\ SameShape(y, x)
    /\ \A l \in Levels : InitState(y, l) = "MayNeedInit" => InitState(x, l) = "MayNeedInit"

\* Level l has been initialized, and the other levels are as they were.
Cleared(y, x, l) ==
    /\ IsTexture(y) /\ Calmer(y, x)
    /\ InitState(y, l) = "Initialized" /\ y.contents[l] = "defined"
    /\ \A k \in Levels \ {l} : InitState(y, k) = InitState(x, k) /\ y.contents[k] = x.contents[k]

LEMMA ClearedExact ==
    ASSUME NEW x, Exact(x), NEW l \in Levels, NEW y, Cleared(y, x, l)
    PROVE  Exact(y)
BY DEF Exact, ExactAt, Cleared

\* A level that needs no clear is initialized as it is.
LEMMA ClearedAlready ==
    ASSUME NEW x, IsTexture(x), Exact(x), NEW l \in Levels, InitState(x, l) = "Initialized"
    PROVE  Cleared(x, x, l)
<1>1. x.contents[l] \in Contents
  BY DEF IsTexture
<1>. QED
  BY <1>1 DEF Cleared, Calmer, SameShape, Exact, ExactAt, Contents

\* What is written and marked as initialized, in whichever order, is cleared.
LEMMA ClearedByParts ==
    ASSUME NEW x, NEW z, NEW y, NEW l \in Levels,
           \/ NewContents(z, x, l, "defined") /\ NewInitState(y, z, l, "Initialized")
           \/ NewInitState(z, x, l, "Initialized") /\ NewContents(y, z, l, "defined")
           \/ Cleared(z, x, l) /\ NewContents(y, z, l, "defined")
           \/ Cleared(z, x, l) /\ NewInitState(y, z, l, "Initialized")
    PROVE  Cleared(y, x, l)
BY Zenon DEF NewContents, NewInitState, Cleared, Calmer, SameShape, InitState

LEMMA InitializeContentsEffect ==
    ASSUME NEW x, IsTexture(x), NEW l \in Levels, NEW y, y = initializeContents(x, l)
    PROVE  NewContents(y, x, l, "defined")
<1>. DEFINE e == "defined"
<1>1. e \in Contents /\ y = WithContents(x, l, e)
  BY DEF Contents, initializeContents, WithContents
<1>. HIDE DEF e
<1>2. NewContents(y, x, l, e)
  BY <1>1, ContentsEffect
<1>. QED
  BY <1>2 DEF e

LEMMA WriteToEffect ==
    ASSUME NEW x, IsTexture(x), NEW l \in Levels, NEW whole \in BOOLEAN,
           whole \/ x.contents[l] = "defined", NEW y, y = WriteTo(x, l, whole)
    PROVE  NewContents(y, x, l, "defined")
<1>. DEFINE e == "defined"
<1>1. e \in Contents
  BY DEF Contents
<1>2. y = WithContents(x, l, e)
  BY DEF WriteTo, WithContents
<1>. HIDE DEF e
<1>3. NewContents(y, x, l, e)
  BY <1>1, <1>2, ContentsEffect
<1>. QED
  BY <1>3 DEF e

LEMMA SetInitializedEffect ==
    ASSUME NEW x, IsTexture(x), NEW l \in Levels, NEW y, y = setInitState(x, l, "Initialized")
    PROVE  NewInitState(y, x, l, "Initialized")
<1>. DEFINE s == "Initialized"
<1>1. s \in InitStates /\ y = setInitState(x, l, s)
  BY DEF InitStates
<1>. HIDE DEF s
<1>2. NewInitState(y, x, l, s)
  BY <1>1, SetInitStateEffect
<1>. QED
  BY <1>2 DEF s

\* glTexSubImage2D, on the level of a texture.
LEMMA SubImageEffect ==
    ASSUME NEW x, IsTexture(x), Exact(x), NEW l \in Levels, NEW whole \in BOOLEAN,
           NEW y, y = WriteTo(ensureSubImageInitialized(x, l, whole), l, whole)
    PROVE  Cleared(y, x, l)
<1>1. CASE InitState(x, l) = "Initialized"
  <2>1. y = WriteTo(x, l, whole) /\ Cleared(x, x, l)
    BY <1>1, ClearedAlready DEF ensureSubImageInitialized, InitState
  <2>2. x.contents[l] = "defined"
    BY <2>1 DEF Cleared
  <2>3. NewContents(y, x, l, "defined")
    BY <2>1, <2>2, WriteToEffect
  <2>. QED
    BY <2>1, <2>3, ClearedByParts
<1>2. CASE InitState(x, l) # "Initialized" /\ whole = TRUE
  <2>. DEFINE z == setInitState(x, l, "Initialized")
  <2>1. y = WriteTo(z, l, whole)
    BY <1>2 DEF ensureSubImageInitialized, InitState
  <2>2. NewInitState(z, x, l, "Initialized")
    BY SetInitializedEffect
  <2>. HIDE DEF z
  <2>3. IsTexture(z)
    BY <2>2 DEF NewInitState
  <2>4. NewContents(y, z, l, "defined")
    BY <1>2, <2>1, <2>3, WriteToEffect, Zenon
  <2>. QED
    BY <2>2, <2>4, ClearedByParts
<1>3. CASE InitState(x, l) # "Initialized" /\ whole = FALSE
  <2>. DEFINE u == initializeContents(x, l)
              z == setInitState(u, l, "Initialized")
  <2>1. y = WriteTo(z, l, whole)
    BY <1>3 DEF ensureSubImageInitialized, InitState
  <2>2. NewContents(u, x, l, "defined")
    BY InitializeContentsEffect
  <2>. HIDE DEF u
  <2>3. IsTexture(u)
    BY <2>2 DEF NewContents
  <2>4. NewInitState(z, u, l, "Initialized")
    BY <2>3, SetInitializedEffect
  <2>. HIDE DEF z
  <2>5. Cleared(z, x, l)
    BY <2>2, <2>4, ClearedByParts
  <2>6. IsTexture(z) /\ z.contents[l] = "defined"
    BY <2>5 DEF Cleared
  <2>7. NewContents(y, z, l, "defined")
    BY <2>1, <2>6, WriteToEffect
  <2>. QED
    BY <2>5, <2>7, ClearedByParts
<1>. QED
  BY <1>1, <1>2, <1>3, Zenon

\* A new image for level l, the others being exact: the image's init state says
\* what the memory holds.
Reimaged(y, x, l, s) ==
    /\ IsTexture(y) /\ Exact(y)
    /\ InitState(y, l) = s
    /\ \A k \in Levels \ {l} : y.mImageDescs[k] = x.mImageDescs[k]
    /\ y.mBaseLevel = x.mBaseLevel /\ y.mImmutableLevels = x.mImmutableLevels

LEMMA NewImageEffect ==
    ASSUME NEW x, IsTexture(x), NEW l \in Levels, \A k \in Levels \ {l} : ExactAt(x, k),
           NEW size, NEW pixels \in BOOLEAN,
           NEW y, y = setImageDesc(Allocate(x, l, pixels), l, Image(size, DetermineInitState(pixels)))
    PROVE  Reimaged(y, x, l, DetermineInitState(pixels))
<1>. DEFINE e == IF pixels THEN "defined" ELSE "undefined"
            s == DetermineInitState(pixels)
            z == Allocate(x, l, pixels)
<1>1. e \in Contents /\ s \in InitStates /\ e # "mixed" /\ (s = "MayNeedInit" <=> e = "undefined")
  BY DEF Contents, InitStates, DetermineInitState
<1>2. z = WithContents(x, l, e) /\ y = WithImage(z, l, Image(size, s))
  BY DEF Allocate, WithContents, setImageDesc, WithImage
<1>. HIDE DEF e, s, z
<1>3. NewContents(z, x, l, e)
  BY <1>1, <1>2, ContentsEffect
<1>4. IsTexture(z)
  BY <1>3 DEF NewContents
<1>5. /\ IsTexture(y) /\ y.contents = z.contents
      /\ y.mBaseLevel = z.mBaseLevel /\ y.mImmutableLevels = z.mImmutableLevels
      /\ InitState(y, l) = s
      /\ \A k \in Levels \ {l} : y.mImageDescs[k] = z.mImageDescs[k]
  BY <1>1, <1>2, <1>4, DescEffect
<1>6. ExactAt(y, l)
  BY <1>1, <1>3, <1>5 DEF ExactAt, NewContents
<1>7. \A k \in Levels \ {l} : ExactAt(y, k)
  BY <1>3, <1>5 DEF ExactAt, NewContents, InitState
<1>. QED
  BY <1>3, <1>5, <1>6, <1>7 DEF Exact, Reimaged, NewContents, SameShape, s

\* A chain of images: the given init state from..to, the old one elsewhere.
LEMMA ChainEffect ==
    ASSUME NEW x, IsTexture(x), NEW from, NEW to, NEW size, NEW s \in InitStates,
           NEW y, y = setImageDescChain(x, from, to, size, s)
    PROVE  /\ IsTexture(y) /\ y.contents = x.contents
           /\ y.mBaseLevel = x.mBaseLevel /\ y.mImmutableLevels = x.mImmutableLevels
           /\ \A k \in Levels : InitState(y, k) = IF k \in from..to THEN s ELSE InitState(x, k)
<1>. DEFINE d == [k \in Levels |-> IF k \in from..to THEN Image(Minified(size, k - from), s)
                                   ELSE x.mImageDescs[k]]
<1>1. y = [x EXCEPT !.mImageDescs = d]
  BY DEF setImageDescChain, IsTexture
<1>2. d = [k \in Levels |-> d[k]]
  OBVIOUS
<1>3. ASSUME NEW k \in Levels
      PROVE  /\ d[k] = Image(d[k].size, d[k].initState)
             /\ d[k].initState = IF k \in from..to THEN s ELSE InitState(x, k)
             /\ d[k].initState \in InitStates
  <2>1. CASE k \in from..to
    BY <2>1 DEF Image
  <2>2. CASE k \notin from..to
    BY <2>2 DEF IsTexture, InitState, SizeOf
  <2>. QED
    BY <2>1, <2>2
<1>. HIDE DEF d
<1>4. y = [mImageDescs |-> d, contents |-> x.contents,
           mBaseLevel |-> x.mBaseLevel, mImmutableLevels |-> x.mImmutableLevels]
  BY <1>1 DEF IsTexture
<1>5. /\ y.mImageDescs = d /\ y.contents = x.contents
      /\ y.mBaseLevel = x.mBaseLevel /\ y.mImmutableLevels = x.mImmutableLevels
  BY <1>4
<1>. QED
  BY <1>2, <1>3, <1>4, <1>5 DEF IsTexture, SizeOf, InitState

\* glTexStorage2D, on its texture, before and after it has images.
Stored(x, levels) ==
    [x EXCEPT !.mImmutableLevels = levels,
              !.mImageDescs = [l \in Levels |-> NoImage],
              !.contents = [l \in Levels |-> IF l < levels THEN "undefined" ELSE "defined"]]

IsStored(z, levels) ==
    /\ IsTexture(z)
    /\ \A l \in Levels : InitState(z, l) = "Initialized"
    /\ \A l \in Levels : z.contents[l] = IF l < levels THEN "undefined" ELSE "defined"

LEMMA StoredEffect ==
    ASSUME NEW x, IsTexture(x), NEW levels \in 0 .. MaxLevel + 1
    PROVE  IsStored(Stored(x, levels), levels)
<1>. DEFINE d == [l \in Levels |-> NoImage]
            c == [l \in Levels |-> IF l < levels THEN "undefined" ELSE "defined"]
            z == [mImageDescs |-> d, contents |-> c, mBaseLevel |-> x.mBaseLevel,
                  mImmutableLevels |-> levels]
<1>1. /\ d = [l \in Levels |-> d[l]]
      /\ \A l \in Levels : /\ d[l] = Image(d[l].size, d[l].initState)
                           /\ d[l].initState = "Initialized" /\ d[l].initState \in InitStates
  BY DEF NoImage, Image, InitStates
<1>2. /\ c \in [Levels -> Contents]
      /\ \A l \in Levels : c[l] = IF l < levels THEN "undefined" ELSE "defined"
  BY DEF Contents
<1>. HIDE DEF d, c
<1>3. Stored(x, levels) = z
  <2>1. Stored(x, levels) = [x EXCEPT !.mImmutableLevels = levels, !.mImageDescs = d, !.contents = c]
    BY DEF Stored, d, c
  <2>. QED
    BY <2>1, Zenon DEF IsTexture
<1>4. z.mImageDescs = d /\ z.contents = c /\ z.mBaseLevel = x.mBaseLevel /\ z.mImmutableLevels = levels
  OBVIOUS
<1>5. z = [mImageDescs |-> z.mImageDescs, contents |-> z.contents,
           mBaseLevel |-> z.mBaseLevel, mImmutableLevels |-> z.mImmutableLevels]
  OBVIOUS
<1>. HIDE DEF z
<1>6. IsTexture(z)
  BY <1>1, <1>2, <1>4, <1>5 DEF IsTexture, SizeOf, InitState
<1>. QED
  BY <1>1, <1>2, <1>3, <1>4, <1>6 DEF IsStored, InitState

LEMMA StorageEffect ==
    ASSUME NEW z, NEW levels \in 1 .. MaxLevel + 1, IsStored(z, levels), NEW size,
           NEW y, y = setImageDescChain(z, 0, levels - 1, size, "MayNeedInit")
    PROVE  IsTexture(y) /\ Exact(y)
<1>. DEFINE s == "MayNeedInit"
            last == levels - 1
            first == 0
<1>1. y = setImageDescChain(z, first, last, size, s) /\ s \in InitStates /\ IsTexture(z)
  BY DEF InitStates, IsStored
<1>. HIDE DEF s, first, last
<1>2. /\ IsTexture(y) /\ y.contents = z.contents
      /\ \A k \in Levels : InitState(y, k) = IF k \in first..last THEN s ELSE InitState(z, k)
  BY <1>1, ChainEffect
<1>3. \A k \in Levels : k \in first..last <=> k < levels
  BY MaxLevelAssumption DEF Levels, first, last
<1>. QED
  BY <1>2, <1>3 DEF Exact, ExactAt, IsStored, s

LEMMA EffectiveBaseLevelInt ==
    ASSUME NEW x, IsTexture(x)
    PROVE  getEffectiveBaseLevel(x) \in Int
<1>1. x.mBaseLevel \in Int /\ x.mImmutableLevels - 1 \in Int
  BY MaxLevelAssumption DEF IsTexture, Levels
<1>2. \A a, b \in Int : Min({a, b}) \in Int
  BY DEF Min
<1>. QED
  BY <1>1, <1>2 DEF getEffectiveBaseLevel

\* glGenerateMipmap, on its texture.
LEMMA GenerateEffect ==
    ASSUME NEW x, IsTexture(x), Exact(x), getMipmapMaxLevel(x) \in Levels,
           NEW y, y = GenerateLevels(x)
    PROVE  IsTexture(y) /\ Exact(y)
<1>. DEFINE base == getEffectiveBaseLevel(x)
            max == getMipmapMaxLevel(x)
            u == IF x.mImageDescs[base].initState = "Initialized" THEN x
                 ELSE initializeContents(x, base)
            size == x.mImageDescs[base].size
            s == "Initialized"
            z == setImageDescChain(u, base, max, size, s)
            c == [l \in Levels |-> IF l \in base + 1 .. max THEN "defined" ELSE z.contents[l]]
<1>1. base \in Int /\ max \in Int /\ s \in InitStates
  BY EffectiveBaseLevelInt, MaxLevelAssumption DEF Levels, InitStates
<1>2. y = IF max <= base THEN x ELSE [z EXCEPT !.contents = c]
  BY DEF GenerateLevels
<1>3. CASE max <= base
  BY <1>2, <1>3
<1>4. CASE ~(max <= base)
  <2>1. /\ IsTexture(u) /\ u.mImageDescs = x.mImageDescs
        /\ \A l \in Levels : u.contents[l] = IF l = base THEN "defined" ELSE x.contents[l]
    <3>1. CASE base \notin Levels
      <4>1. u = x
        BY <3>1 DEF initializeContents, IsTexture
      <4>. QED
        BY <3>1, <4>1
    <3>2. CASE base \in Levels /\ InitState(x, base) = "Initialized"
      <4>1. u = x /\ Cleared(x, x, base)
        BY <3>2, ClearedAlready DEF InitState
      <4>. QED
        BY <3>2, <4>1 DEF Cleared
    <3>3. CASE base \in Levels /\ InitState(x, base) # "Initialized"
      <4>1. u = initializeContents(x, base)
        BY <3>3 DEF InitState
      <4>. HIDE DEF u, base
      <4>2. NewContents(u, x, base, "defined")
        BY <3>3, <4>1, InitializeContentsEffect
      <4>. QED
        BY <3>3, <4>2 DEF NewContents
    <3>. QED
      BY <3>1, <3>2, <3>3
  <2>. HIDE DEF u, s, base, max, size
  <2>2. /\ IsTexture(z) /\ z.contents = u.contents
        /\ z.mBaseLevel = u.mBaseLevel /\ z.mImmutableLevels = u.mImmutableLevels
        /\ \A k \in Levels : InitState(z, k) = IF k \in base..max THEN s ELSE InitState(u, k)
    BY <1>1, <2>1, ChainEffect
  <2>. HIDE DEF z
  <2>3. /\ c \in [Levels -> Contents]
        /\ \A l \in Levels : c[l] = IF l \in base + 1 .. max THEN "defined" ELSE z.contents[l]
    BY <2>2 DEF IsTexture, Contents
  <2>4. y = [z EXCEPT !.contents = c]
    BY <1>2, <1>4
  <2>. HIDE DEF c
  <2>5. y = [mImageDescs |-> z.mImageDescs, contents |-> c,
             mBaseLevel |-> z.mBaseLevel, mImmutableLevels |-> z.mImmutableLevels]
    BY <2>2, <2>4 DEF IsTexture
  <2>6. /\ y.mImageDescs = z.mImageDescs /\ y.contents = c
        /\ y.mBaseLevel = z.mBaseLevel /\ y.mImmutableLevels = z.mImmutableLevels
    BY <2>5
  <2>7. IsTexture(y)
    BY <2>2, <2>3, <2>5, <2>6 DEF IsTexture, SizeOf, InitState
  <2>8. ASSUME NEW l \in Levels PROVE ExactAt(y, l)
    <3>1. ExactAt(x, l) /\ InitState(u, l) = InitState(x, l)
      BY <2>1 DEF Exact, InitState
    <3>2. InitState(y, l) = IF l \in base..max THEN s ELSE InitState(x, l)
      BY <2>2, <2>6, <3>1 DEF InitState
    <3>3. y.contents[l] = IF l \in base + 1 .. max \/ l = base THEN "defined" ELSE x.contents[l]
      BY <2>1, <2>2, <2>3, <2>6
    <3>4. CASE l \in base..max
      <4>1. l = base \/ l \in base + 1 .. max
        BY <1>1, <3>4 DEF Levels
      <4>. QED
        BY <3>2, <3>3, <3>4, <4>1 DEF ExactAt, s
    <3>5. CASE l \notin base..max
      <4>1. l \notin base + 1 .. max
        BY <1>1, <3>5 DEF Levels
      <4>2. l # base
        BY <1>1, <1>4, <3>5
      <4>3. y.contents[l] = x.contents[l]
        BY <3>3, <4>1, <4>2
      <4>. QED
        BY <3>1, <3>2, <3>5, <4>3 DEF ExactAt
    <3>. QED
      BY <3>4, <3>5
  <2>. QED
    BY <2>7, <2>8 DEF Exact
<1>. QED
  BY <1>3, <1>4

-------------------------------------------------------------------------------
(* Framebuffers, with the textures xs.                                     *)

Statuses == {"invalid", "missing attachment", "incomplete attachment", "complete"}

FramebufferRecords ==
    [mResource : Textures \cup {null}, mipLevel : Levels, mChannel : Textures \cup {null},
     dirty : BOOLEAN, mCachedStatus : Statuses, mResourceNeedsInit : BOOLEAN,
     mDrawBufferState : BOOLEAN, mEnabledDrawBuffers : BOOLEAN]

\* An attached texture's signals arrive; the enabled draw buffers are right.
Wired(f) ==
    isAttached(f) => f.mChannel = f.mResource /\ f.mEnabledDrawBuffers = f.mDrawBufferState

\* NeedsInitKnown and StatusFresh, of one framebuffer.
Known(xs, f) ==
    /\ isAttached(f) /\ AttachedImage(xs, f).initState = "MayNeedInit" => f.mResourceNeedsInit
    /\ f.mResourceNeedsInit => isAttached(f)
Fresh(xs, f) == ~f.dirty /\ f.mCachedStatus # "invalid" => f.mCachedStatus = Status(xs, f)

Good(xs, f) == f \in FramebufferRecords /\ Wired(f) /\ Known(xs, f) /\ Fresh(xs, f)

\* Completeness is a matter of the texture's shape.  The effective base level is
\* used for textures that are not immutable only, where it is a level.
LEMMA CompletenessOfShape ==
    ASSUME NEW x, NEW y, IsTexture(x), SameShape(y, x), NEW l \in Levels
    PROVE  CheckAttachmentCompleteness(y, l) <=> CheckAttachmentCompleteness(x, l)
<1>1. /\ y.mBaseLevel = x.mBaseLevel /\ y.mImmutableLevels = x.mImmutableLevels
      /\ \A k \in Levels : y.mImageDescs[k].size = x.mImageDescs[k].size
  BY DEF SameShape, SizeOf
<1>2. x.mBaseLevel \in Levels
  BY DEF IsTexture
<1>3. CASE x.mImmutableLevels > 0
  BY <1>1, <1>3 DEF CheckAttachmentCompleteness
<1>4. CASE ~(x.mImmutableLevels > 0)
  <2>1. getEffectiveBaseLevel(y) = x.mBaseLevel /\ getEffectiveBaseLevel(x) = x.mBaseLevel
    BY <1>1, <1>4 DEF getEffectiveBaseLevel
  <2>2. BaseImage(y).size = BaseImage(x).size
    BY <1>1, <1>2, <2>1 DEF BaseImage
  <2>3. getMipmapMaxLevel(y) = getMipmapMaxLevel(x)
    BY <1>1, <2>1, <2>2 DEF getMipmapMaxLevel
  <2>4. \A k : computeLevelCompleteness(y, k) <=> computeLevelCompleteness(x, k)
    BY <1>1, <2>1, <2>2 DEF computeLevelCompleteness
  <2>5. computeMipmapCompleteness(y) <=> computeMipmapCompleteness(x)
    BY <2>1, <2>2, <2>3, <2>4 DEF computeMipmapCompleteness
  <2>. QED
    BY <1>1, <2>2, <2>3, <2>5 DEF CheckAttachmentCompleteness
<1>. QED
  BY <1>3, <1>4

\* Textures that only get calmer leave a framebuffer good.
LEMMA CalmerGood ==
    ASSUME NEW xs, NEW ys, NEW f, Good(xs, f),
           isAttached(f) => IsTexture(xs[f.mResource]) /\ Calmer(ys[f.mResource], xs[f.mResource])
    PROVE  Good(ys, f)
<1>1. f \in FramebufferRecords /\ Wired(f) /\ Known(xs, f) /\ Fresh(xs, f) /\ f.mipLevel \in Levels
  BY DEF Good, FramebufferRecords
<1>2. Status(ys, f) = Status(xs, f)
  <2>1. CASE ~isAttached(f)
    BY <2>1 DEF Status
  <2>2. CASE isAttached(f)
    <3>. DEFINE x == xs[f.mResource]
                y == ys[f.mResource]
    <3>1. IsTexture(x) /\ SameShape(y, x)
      BY <2>2 DEF Calmer
    <3>. HIDE DEF x, y
    <3>2. CheckAttachmentCompleteness(y, f.mipLevel) <=> CheckAttachmentCompleteness(x, f.mipLevel)
      BY <1>1, <3>1, CompletenessOfShape
    <3>. QED
      BY <2>2, <3>2, Zenon DEF Status, x, y
  <2>. QED
    BY <2>1, <2>2
<1>3. Known(ys, f)
  BY <1>1 DEF Known, Calmer, AttachedImage, InitState
<1>. QED
  BY <1>1, <1>2, <1>3 DEF Good, Fresh

\* A framebuffer looks at the texture that is attached.
LEMMA OtherGood ==
    ASSUME NEW xs, NEW ys, NEW f, Good(xs, f), isAttached(f) => ys[f.mResource] = xs[f.mResource]
    PROVE  Good(ys, f)
BY Zenon DEF Good, Known, Fresh, Status, AttachedImage

\* A framebuffer with another needs-init bit, or status.
SameAttachment(g, f) ==
    /\ g \in FramebufferRecords
    /\ g.mResource = f.mResource /\ g.mipLevel = f.mipLevel /\ g.mChannel = f.mChannel
    /\ g.mDrawBufferState = f.mDrawBufferState /\ g.mEnabledDrawBuffers = f.mEnabledDrawBuffers

LEMMA SameAttachmentWired ==
    ASSUME NEW f, NEW g, SameAttachment(g, f), Wired(f)
    PROVE  Wired(g)
BY DEF SameAttachment, Wired, isAttached

LEMMA CheckStatusGood ==
    ASSUME NEW xs, NEW f, Good(xs, f), NEW g, g = checkStatus(xs, f)
    PROVE  /\ Good(xs, g) /\ SameAttachment(g, f)
           /\ g.mResourceNeedsInit = f.mResourceNeedsInit
           /\ Complete(xs, f) => isAttached(g)
<1>. DEFINE s == Status(xs, f)
            h == IF s = "complete" THEN syncState(f) ELSE f
<1>1. f \in FramebufferRecords /\ Wired(f) /\ Known(xs, f) /\ Fresh(xs, f)
  BY DEF Good
<1>2. s \in Statuses /\ (s = "complete" => isAttached(f)) /\ s # "invalid"
  BY DEF Status, Statuses
<1>3. Complete(xs, f) <=> g.mCachedStatus = "complete"
  BY DEF Complete
<1>4. CASE ~f.dirty /\ f.mCachedStatus # "invalid"
  <2>1. g = f
    BY <1>4 DEF checkStatus
  <2>2. g.mCachedStatus = s
    BY <1>1, <1>4, <2>1 DEF Fresh
  <2>. QED
    BY <1>1, <1>2, <1>3, <2>1, <2>2 DEF SameAttachment
<1>5. CASE ~(~f.dirty /\ f.mCachedStatus # "invalid")
  <2>1. g = [h EXCEPT !.mCachedStatus = s]
    BY <1>5 DEF checkStatus
  <2>. HIDE DEF s
  <2>2. h \in FramebufferRecords /\ SameAttachment(h, f) /\ h.mResourceNeedsInit = f.mResourceNeedsInit
    BY <1>1, Zenon DEF syncState, SameAttachment, FramebufferRecords, Statuses
  <2>. HIDE DEF h
  <2>3. /\ g \in FramebufferRecords /\ SameAttachment(g, h)
        /\ g.mResourceNeedsInit = h.mResourceNeedsInit /\ g.mCachedStatus = s
    BY <1>2, <2>1, <2>2 DEF SameAttachment, FramebufferRecords
  <2>4. SameAttachment(g, f) /\ g.mResourceNeedsInit = f.mResourceNeedsInit
    BY <2>2, <2>3 DEF SameAttachment
  <2>5. Status(xs, g) = s /\ (isAttached(g) <=> isAttached(f))
    BY <2>4 DEF s, Status, SameAttachment, isAttached
  <2>6. Known(xs, g) /\ Fresh(xs, g) /\ Wired(g)
    BY <1>1, <2>3, <2>4, <2>5, SameAttachmentWired DEF Known, Fresh, SameAttachment, AttachedImage
  <2>. QED
    BY <1>2, <1>3, <2>3, <2>4, <2>5, <2>6 DEF Good
<1>. QED
  BY <1>4, <1>5

-------------------------------------------------------------------------------
(* The inductive invariant.  The textures that are attached are alive, so  *)
(* that Become resets none of them and closes none of their channels.      *)

TexturesOK(xs) ==
    xs = [t \in Textures |-> xs[t]] /\ \A t \in Textures : IsTexture(xs[t]) /\ Exact(xs[t])

IInv ==
    /\ client \in Clients
    /\ TexturesOK(texture)
    /\ named \subseteq Textures
    /\ bound \in [Contexts -> Textures \cup {null}]
    /\ framebuffer = [c \in Contexts |-> framebuffer[c]]
    /\ \A c \in Contexts : Good(texture, framebuffer[c])


LEMMA LevelsFromZero == 0 \in Levels
BY MaxLevelAssumption DEF Levels

\* Closing the channel of a framebuffer without attachment.
LEMMA ClosedGood ==
    ASSUME NEW xs, NEW f, Good(xs, f), ~isAttached(f), NEW g, g = [f EXCEPT !.mChannel = null]
    PROVE  Good(xs, g)
<1>1. f \in FramebufferRecords
  BY DEF Good
<1>2. /\ g \in FramebufferRecords
      /\ g.mResource = f.mResource /\ g.dirty = f.dirty /\ g.mCachedStatus = f.mCachedStatus
      /\ g.mResourceNeedsInit = f.mResourceNeedsInit
  BY <1>1 DEF FramebufferRecords
<1>. QED
  BY <1>2, Zenon DEF Good, Wired, Known, Fresh, Status, isAttached

LEMMA BecomeKeeps ==
    ASSUME NEW xs, NEW names, NEW bindings, NEW fs, Become(xs, names, bindings, fs),
           client \in Clients, TexturesOK(xs), names \subseteq Textures,
           bindings \in [Contexts -> Textures \cup {null}],
           \A c \in Contexts : Good(xs, fs[c])
    PROVE  IInv'
<1>. DEFINE live == {t \in Textures : Referenced(t, names, bindings, fs)}
<1>1. /\ client' = client /\ named' = names /\ bound' = bindings
      /\ texture' = [t \in Textures |-> IF t \in live THEN xs[t] ELSE NewTexture]
      /\ framebuffer' = [c \in Contexts |->
            IF fs[c].mChannel \in live THEN fs[c] ELSE [fs[c] EXCEPT !.mChannel = null]]
  BY DEF Become
<1>2. TexturesOK(texture')
  BY <1>1, NewTextureOK DEF TexturesOK
<1>3. framebuffer' = [c \in Contexts |-> framebuffer'[c]]
  BY <1>1
<1>4. ASSUME NEW c \in Contexts
      PROVE  Good(texture', framebuffer'[c])
  <2>. DEFINE f == fs[c]
  <2>1. Good(xs, f) /\ f.mResource \in Textures \cup {null} /\ Wired(f)
    BY DEF Good, FramebufferRecords
  <2>2. f.mResource \in Textures => f.mResource \in live
    BY DEF Referenced
  <2>3. framebuffer'[c] = IF f.mChannel \in live THEN f ELSE [f EXCEPT !.mChannel = null]
    BY <1>1
  <2>4. f.mResource \in Textures => texture'[f.mResource] = xs[f.mResource]
    BY <1>1, <2>2
  <2>. HIDE DEF f, live
  <2>5. Good(texture', f)
    BY <2>1, <2>4, OtherGood DEF isAttached
  <2>6. isAttached(f) => f.mChannel \in live
    BY <2>1, <2>2 DEF Wired, isAttached
  <2>7. ~isAttached(f) => Good(texture', [f EXCEPT !.mChannel = null])
    BY <2>5, ClosedGood
  <2>. QED
    BY <2>3, <2>5, <2>6, <2>7
<1>. QED
  BY <1>1, <1>2, <1>3, <1>4 DEF IInv

\* One texture is changed.
Changed(xs, t, x) == [xs EXCEPT ![t] = x]

LEMMA ChangedOK ==
    ASSUME NEW xs, TexturesOK(xs), NEW t \in Textures, NEW x, IsTexture(x), Exact(x),
           NEW ys, ys = Changed(xs, t, x)
    PROVE  TexturesOK(ys) /\ ys[t] = x /\ \A u \in Textures \ {t} : ys[u] = xs[u]
BY DEF TexturesOK, Changed

\* One framebuffer is changed, along with the textures xs.
LEMMA FramebuffersKeeps ==
    ASSUME IInv, NEW c \in Contexts, NEW xs, TexturesOK(xs), NEW g, Good(xs, g),
           \A d \in Contexts \ {c} : Good(xs, framebuffer[d]), Framebuffers(c, xs, g)
    PROVE  IInv'
<1>. DEFINE fs == [framebuffer EXCEPT ![c] = g]
<1>1. /\ client \in Clients /\ named \subseteq Textures /\ bound \in [Contexts -> Textures \cup {null}]
      /\ framebuffer = [d \in Contexts |-> framebuffer[d]]
  BY DEF IInv
<1>2. \A d \in Contexts : Good(xs, fs[d])
  BY <1>1
<1>3. Become(xs, named, bound, fs)
  BY DEF Framebuffers
<1>. HIDE DEF fs
<1>. QED
  BY <1>1, <1>2, <1>3, BecomeKeeps

\* Nothing else is changed.
LEMMA FramebufferKeeps ==
    ASSUME IInv, NEW c \in Contexts, NEW g, Good(texture, g), Framebuffers(c, texture, g)
    PROVE  IInv'
BY FramebuffersKeeps DEF IInv

-------------------------------------------------------------------------------
(* Textures that are redefined, and the signal to the framebuffers.        *)

\* MisleadsAttachment, of one framebuffer.
Misled(f, t, x, s) ==
    /\ f.mChannel = t
    /\ IF s = "Initialized"
       THEN f.mResource = t /\ InitState(x, f.mipLevel) = "MayNeedInit"
       ELSE f.mResource # t

LEMMA SignalGood ==
    ASSUME NEW xs, NEW ys, NEW f, Good(xs, f), NEW t \in Textures, NEW x, NEW s \in InitStates,
           ys[t] = x, \A u \in Textures \ {t} : ys[u] = xs[u], ~Misled(f, t, x, s),
           NEW g, g = IF f.mChannel = t THEN signal(f, s) ELSE f
    PROVE  Good(ys, g)
<1>1. f \in FramebufferRecords /\ Wired(f) /\ f.mResource \in Textures \cup {null}
  BY DEF Good, FramebufferRecords
<1>2. CASE f.mChannel # t
  BY <1>1, <1>2, OtherGood DEF Wired, isAttached
<1>3. CASE f.mChannel = t
  <2>1. /\ g \in FramebufferRecords /\ SameAttachment(g, f)
        /\ g.mCachedStatus = "invalid" /\ g.mResourceNeedsInit = (s = "MayNeedInit")
    BY <1>1, <1>3, Zenon DEF signal, FramebufferRecords, SameAttachment, Statuses
  <2>2. g.mResource = f.mResource /\ g.mipLevel = f.mipLevel /\ Wired(g)
    BY <1>1, <2>1, SameAttachmentWired DEF SameAttachment
  <2>3. Fresh(ys, g)
    BY <2>1 DEF Fresh
  <2>4. isAttached(f) => f.mResource = t
    BY <1>1, <1>3 DEF Wired
  <2>5. Known(ys, g)
    <3>1. CASE s = "Initialized"
      <4>1. isAttached(f) => InitState(x, f.mipLevel) # "MayNeedInit"
        BY <1>3, <2>4, <3>1 DEF Misled
      <4>. QED
        BY <2>1, <2>2, <2>4, <3>1, <4>1, Zenon DEF Known, isAttached, AttachedImage, InitState
    <3>2. CASE s = "MayNeedInit"
      <4>1. f.mResource = t /\ t # null
        BY <1>3, <3>2, ClientsAssumption DEF Misled
      <4>. QED
        BY <2>1, <2>2, <3>2, <4>1, Zenon DEF Known, isAttached
    <3>. QED
      BY <3>1, <3>2 DEF InitStates
  <2>. QED
    BY <2>1, <2>2, <2>3, <2>5 DEF Good
<1>. QED
  BY <1>2, <1>3

\* The client does not mislead the framebuffers.
LEMMA NotMisled ==
    ASSUME NEW t, NEW x, NEW s, Permitted(t, x, s), "misleading" \notin client.operations,
           NEW c \in Contexts
    PROVE  ~Misled(framebuffer[c], t, x, s)
BY DEF Permitted, MisleadsAttachment, Misled, InitState

LEMMA RedefineKeeps ==
    ASSUME IInv, "misleading" \notin client.operations,
           NEW t \in Textures, NEW x, IsTexture(x), Exact(x), NEW s \in InitStates,
           Permitted(t, x, s), Redefine(t, x, s)
    PROVE  IInv'
<1>. DEFINE ys == [texture EXCEPT ![t] = x]
            fs == signalDirty(framebuffer, t, s)
<1>1. /\ client \in Clients /\ named \subseteq Textures /\ bound \in [Contexts -> Textures \cup {null}]
      /\ \A d \in Contexts : Good(texture, framebuffer[d])
  BY DEF IInv
<1>2. TexturesOK(texture) /\ ys = Changed(texture, t, x)
  BY DEF IInv, Changed
<1>3. \A d \in Contexts : fs[d] = IF framebuffer[d].mChannel = t THEN signal(framebuffer[d], s)
                                  ELSE framebuffer[d]
  BY DEF signalDirty
<1>4. Become(ys, named, bound, fs)
  BY DEF Redefine
<1>. HIDE DEF ys, fs
<1>5. TexturesOK(ys) /\ ys[t] = x /\ \A u \in Textures \ {t} : ys[u] = texture[u]
  BY <1>2, ChangedOK
<1>6. \A d \in Contexts : Good(ys, fs[d])
  BY <1>1, <1>3, <1>5, NotMisled, SignalGood
<1>. QED
  BY <1>1, <1>4, <1>5, <1>6, BecomeKeeps


-------------------------------------------------------------------------------
(* Drawing, clearing and reading, through the attachment of framebuffer f. *)

IsFunction(xs) == xs = [t \in Textures |-> xs[t]]

\* The attached level has been initialized, and no other.
AttachmentCleared(ys, xs, f) ==
    /\ IsFunction(ys)
    /\ Cleared(ys[f.mResource], xs[f.mResource], f.mipLevel)
    /\ \A u \in Textures \ {f.mResource} : ys[u] = xs[u]

\* f is attached to a level of a texture.
Attached(f) == isAttached(f) /\ f \in FramebufferRecords

LEMMA AttachedTo ==
    ASSUME NEW f, Attached(f)
    PROVE  f.mResource \in Textures /\ f.mipLevel \in Levels
BY DEF Attached, isAttached, FramebufferRecords

LEMMA ClearedByChange ==
    ASSUME NEW f, Attached(f), NEW xs, NEW ys, IsFunction(ys),
           \A u \in Textures \ {f.mResource} : ys[u] = xs[u],
           NEW x, Cleared(x, xs[f.mResource], f.mipLevel),
           NEW zs, zs = Changed(ys, f.mResource, x)
    PROVE  AttachmentCleared(zs, xs, f)
<1>1. f.mResource \in Textures
  BY AttachedTo
<1>2. zs[f.mResource] = x /\ IsFunction(zs) /\ \A u \in Textures \ {f.mResource} : zs[u] = ys[u]
  BY <1>1 DEF IsFunction, Changed
<1>. QED
  BY <1>2 DEF AttachmentCleared

LEMMA AttachmentClearedOK ==
    ASSUME NEW f, Attached(f), NEW xs, TexturesOK(xs), NEW ys, AttachmentCleared(ys, xs, f)
    PROVE  TexturesOK(ys) /\ \A u \in Textures : Calmer(ys[u], xs[u])
<1>1. f.mResource \in Textures /\ f.mipLevel \in Levels
  BY AttachedTo
<1>. DEFINE y == ys[f.mResource]
            x == xs[f.mResource]
<1>2. IsTexture(y) /\ Exact(y) /\ Calmer(y, x)
  <2>1. Cleared(y, x, f.mipLevel) /\ Exact(x)
    BY <1>1 DEF AttachmentCleared, TexturesOK
  <2>. HIDE DEF y, x
  <2>2. Exact(y)
    BY <1>1, <2>1, ClearedExact
  <2>. QED
    BY <2>1, <2>2 DEF Cleared
<1>3. \A u \in Textures : Calmer(xs[u], xs[u])
  BY DEF Calmer, SameShape
<1>. QED
  BY <1>2, <1>3 DEF TexturesOK, AttachmentCleared, IsFunction

\* g is f but for the needs-init bit.
BitOnly(g, f) == SameAttachment(g, f) /\ g.dirty = f.dirty /\ g.mCachedStatus = f.mCachedStatus

LEMMA BitlessOnly ==
    ASSUME NEW f \in FramebufferRecords, NEW g, g = [f EXCEPT !.mResourceNeedsInit = FALSE]
    PROVE  BitOnly(g, f)
BY Zenon DEF BitOnly, SameAttachment, FramebufferRecords

\* Once the attachment is initialized the bit does not matter.
LEMMA ClearedGood ==
    ASSUME NEW f, Attached(f), NEW xs, TexturesOK(xs), Good(xs, f),
           NEW ys, AttachmentCleared(ys, xs, f), NEW g, BitOnly(g, f)
    PROVE  Good(ys, g)
<1>1. f.mResource \in Textures /\ IsTexture(xs[f.mResource]) /\ Calmer(ys[f.mResource], xs[f.mResource])
  BY AttachedTo, AttachmentClearedOK DEF TexturesOK
<1>2. Good(ys, f)
  BY <1>1, CalmerGood
<1>3. /\ g \in FramebufferRecords /\ g.mResource = f.mResource /\ g.mipLevel = f.mipLevel
      /\ g.dirty = f.dirty /\ g.mCachedStatus = f.mCachedStatus /\ Wired(g)
  BY <1>2, SameAttachmentWired DEF BitOnly, SameAttachment, Good
<1>4. Fresh(ys, g)
  BY <1>2, <1>3, Zenon DEF Good, Fresh, Status, isAttached
<1>5. Known(ys, g)
  BY <1>3, Zenon DEF Known, AttachedImage, AttachmentCleared, Cleared, InitState, Attached, isAttached
<1>. QED
  BY <1>3, <1>4, <1>5 DEF Good

\* The framebuffers, when textures only get calmer.
LEMMA CalmerTextures ==
    ASSUME IInv, NEW ys, \A u \in Textures : Calmer(ys[u], texture[u]), NEW d \in Contexts
    PROVE  Good(ys, framebuffer[d])
<1>. DEFINE h == framebuffer[d]
<1>1. Good(texture, h) /\ TexturesOK(texture)
  BY DEF IInv
<1>. HIDE DEF h
<1>2. isAttached(h) => h.mResource \in Textures
  BY <1>1 DEF Good, FramebufferRecords, isAttached
<1>3. isAttached(h) => IsTexture(texture[h.mResource]) /\ Calmer(ys[h.mResource], texture[h.mResource])
  BY <1>1, <1>2 DEF TexturesOK
<1>4. Good(ys, h)
  BY <1>1, <1>3, CalmerGood
<1>. QED
  BY <1>4 DEF h

\* What every call that goes through the attachment comes to.
LEMMA ClearedKeeps ==
    ASSUME IInv, NEW c \in Contexts, NEW f, f = checkStatus(texture, framebuffer[c]),
           Complete(texture, framebuffer[c]),
           NEW ys, AttachmentCleared(ys, texture, f), NEW g, BitOnly(g, f), Framebuffers(c, ys, g)
    PROVE  IInv'
<1>1. TexturesOK(texture) /\ \A d \in Contexts : Good(texture, framebuffer[d])
  BY DEF IInv
<1>2. Good(texture, f) /\ Attached(f)
  BY <1>1, CheckStatusGood DEF Attached, Good
<1>3. TexturesOK(ys) /\ \A u \in Textures : Calmer(ys[u], texture[u])
  BY <1>1, <1>2, AttachmentClearedOK
<1>4. Good(ys, g)
  BY <1>1, <1>2, ClearedGood
<1>5. \A d \in Contexts : Good(ys, framebuffer[d])
  BY <1>3, CalmerTextures
<1>. QED
  BY <1>3, <1>4, <1>5, FramebuffersKeeps

LEMMA EnsureEffect ==
    ASSUME NEW f, Attached(f), NEW xs, TexturesOK(xs), Good(xs, f),
           NEW r, r = ensureAttachmentInitialized(xs, f)
    PROVE  AttachmentCleared(r.xs, xs, f) /\ BitOnly(r.f, f)
<1>. DEFINE x == xs[f.mResource]
            l == f.mipLevel
<1>1. f.mResource \in Textures /\ l \in Levels /\ f \in FramebufferRecords
  BY AttachedTo DEF Attached
<1>2. IsTexture(x) /\ Exact(x) /\ IsFunction(xs)
  BY <1>1 DEF TexturesOK, IsFunction
<1>3. InitState(x, l) \in InitStates
  BY <1>1, <1>2, Zenon DEF IsTexture
<1>4. InitState(x, l) = "Initialized" => AttachmentCleared(xs, xs, f)
  <2>1. InitState(x, l) = "Initialized" => Cleared(x, x, l)
    BY <1>1, <1>2, ClearedAlready
  <2>. QED
    BY <1>2, <2>1, Zenon DEF AttachmentCleared
<1>5. CASE ~f.mResourceNeedsInit
  <2>1. r = [xs |-> xs, f |-> f]
    BY <1>5 DEF ensureAttachmentInitialized
  <2>2. InitState(x, l) = "Initialized"
    BY <1>3, <1>5, Zenon DEF Good, Known, InitState, InitStates, AttachedImage, Attached
  <2>. QED
    BY <1>1, <1>4, <2>1, <2>2 DEF BitOnly, SameAttachment
<1>6. CASE f.mResourceNeedsInit
  <2>1. r.xs = InitAttachment(xs, f) /\ r.f = [f EXCEPT !.mResourceNeedsInit = FALSE]
    BY <1>6 DEF ensureAttachmentInitialized
  <2>2. BitOnly(r.f, f)
    BY <1>1, <2>1, BitlessOnly
  <2>3. CASE InitState(x, l) = "Initialized"
    BY <1>4, <2>1, <2>2, <2>3 DEF InitAttachment, AttachedImage, InitState
  <2>4. CASE InitState(x, l) # "Initialized"
    <3>. DEFINE z == initializeContents(x, l)
                y == setInitState(z, l, "Initialized")
    <3>1. r.xs = Changed(xs, f.mResource, y)
      BY <2>1, <2>4 DEF InitAttachment, AttachedImage, InitState, Changed
    <3>2. Cleared(y, x, l)
      <4>. HIDE DEF x, l
      <4>1. NewContents(z, x, l, "defined")
        BY <1>1, <1>2, InitializeContentsEffect
      <4>. HIDE DEF z
      <4>2. NewInitState(y, z, l, "Initialized")
        BY <1>1, <4>1, SetInitializedEffect DEF NewContents
      <4>. HIDE DEF y
      <4>. QED
        BY <1>1, <4>1, <4>2, ClearedByParts
    <3>. HIDE DEF y
    <3>3. AttachmentCleared(r.xs, xs, f)
      BY <1>2, <3>1, <3>2, ClearedByChange
    <3>. QED
      BY <2>2, <3>3
  <2>. QED
    BY <2>3, <2>4
<1>. QED
  BY <1>5, <1>6


Marked(xs, f) == [xs EXCEPT ![f.mResource] = setInitState(@, f.mipLevel, "Initialized")]

\* To draw to, or to mark, what is initialized already.
LEMMA RenderReady ==
    ASSUME NEW f, Attached(f), NEW xs, NEW ys, AttachmentCleared(ys, xs, f),
           NEW g, SameAttachment(g, f), NEW whole \in BOOLEAN
    PROVE  AttachmentCleared(Render(ys, g, whole), xs, f)
<1>. DEFINE x == xs[f.mResource]
            y == ys[f.mResource]
            l == f.mipLevel
            z == WriteTo(y, l, whole)
<1>1. l \in Levels /\ g.mResource = f.mResource /\ g.mipLevel = l
  BY AttachedTo DEF SameAttachment
<1>2. Cleared(y, x, l) /\ IsFunction(ys) /\ \A u \in Textures \ {f.mResource} : ys[u] = xs[u]
  BY DEF AttachmentCleared
<1>3. CASE ~g.mDrawBufferState
  BY <1>3 DEF Render
<1>4. CASE g.mDrawBufferState
  <2>1. Render(ys, g, whole) = Changed(ys, f.mResource, z)
    BY <1>1, <1>4 DEF Render, Changed
  <2>2. Cleared(z, x, l)
    <3>. HIDE DEF x, y, l
    <3>1. IsTexture(y) /\ y.contents[l] = "defined"
      BY <1>2 DEF Cleared
    <3>2. NewContents(z, y, l, "defined")
      BY <1>1, <3>1, WriteToEffect
    <3>. HIDE DEF z
    <3>. QED
      BY <1>1, <1>2, <3>2, ClearedByParts, Zenon
  <2>. HIDE DEF z
  <2>. QED
    BY <1>2, <2>1, <2>2, ClearedByChange
<1>. QED
  BY <1>3, <1>4

LEMMA MarkReady ==
    ASSUME NEW f, Attached(f), NEW xs, NEW ys, AttachmentCleared(ys, xs, f),
           NEW g, SameAttachment(g, f)
    PROVE  AttachmentCleared(Marked(ys, g), xs, f)
<1>. DEFINE x == xs[f.mResource]
            y == ys[f.mResource]
            l == f.mipLevel
            z == setInitState(y, l, "Initialized")
<1>1. l \in Levels /\ g.mResource = f.mResource /\ g.mipLevel = l
  BY AttachedTo DEF SameAttachment
<1>2. Cleared(y, x, l) /\ IsFunction(ys) /\ \A u \in Textures \ {f.mResource} : ys[u] = xs[u]
  BY DEF AttachmentCleared
<1>3. Marked(ys, g) = Changed(ys, f.mResource, z)
  BY <1>1 DEF Marked, Changed
<1>4. Cleared(z, x, l)
  <2>. HIDE DEF x, y, l
  <2>1. NewInitState(z, y, l, "Initialized")
    BY <1>1, <1>2, SetInitializedEffect, Zenon DEF Cleared
  <2>. HIDE DEF z
  <2>. QED
    BY <1>1, <1>2, <2>1, ClearedByParts
<1>. HIDE DEF z
<1>. QED
  BY <1>2, <1>3, <1>4, ClearedByChange

\* A clear of the whole attachment, and the mark that follows.
LEMMA WholeClear ==
    ASSUME NEW f, Attached(f), NEW xs, TexturesOK(xs), f.mDrawBufferState = TRUE
    PROVE  AttachmentCleared(Marked(Render(xs, f, TRUE), f), xs, f)
<1>. DEFINE t == f.mResource
            x == xs[t]
            l == f.mipLevel
            y == WriteTo(x, l, TRUE)
            z == setInitState(y, l, "Initialized")
            ys == Changed(xs, t, y)
<1>1. t \in Textures /\ l \in Levels
  BY AttachedTo
<1>2. IsTexture(x) /\ IsFunction(xs)
  BY <1>1 DEF TexturesOK, IsFunction
<1>3. Render(xs, f, TRUE) = ys
  BY DEF Render, Changed
<1>4. ys[t] = y /\ IsFunction(ys) /\ \A u \in Textures \ {t} : ys[u] = xs[u]
  BY <1>1, <1>2, Zenon DEF IsFunction, Changed
<1>. HIDE DEF ys
<1>5. Marked(ys, f) = Changed(ys, t, z)
  BY <1>4 DEF Marked, Changed
<1>6. Cleared(z, x, l)
  <2>. HIDE DEF x, l
  <2>1. NewContents(y, x, l, "defined")
    BY <1>1, <1>2, WriteToEffect, Zenon
  <2>. HIDE DEF y
  <2>2. NewInitState(z, y, l, "Initialized")
    BY <1>1, <2>1, SetInitializedEffect DEF NewContents
  <2>. HIDE DEF z
  <2>. QED
    BY <1>1, <2>1, <2>2, ClearedByParts
<1>. HIDE DEF z, y
<1>7. AttachmentCleared(Marked(ys, f), xs, f)
  BY <1>4, <1>5, <1>6, ClearedByChange
<1>. QED
  BY <1>3, <1>7, Zenon

\* The framebuffer of a call that needs it to be complete.
LEMMA CompleteAttached ==
    ASSUME IInv, NEW c \in Contexts, Complete(texture, framebuffer[c]),
           NEW f, f = checkStatus(texture, framebuffer[c])
    PROVE  Attached(f) /\ Good(texture, f) /\ TexturesOK(texture)
<1>1. Good(texture, framebuffer[c]) /\ TexturesOK(texture)
  BY DEF IInv
<1>2. Good(texture, f) /\ isAttached(f)
  BY <1>1, CheckStatusGood
<1>. QED
  BY <1>1, <1>2 DEF Attached, Good

-------------------------------------------------------------------------------
(* The actions on framebuffers.                                            *)

LEMMA CheckFramebufferStatusKeeps ==
    ASSUME IInv, NEW c \in Contexts, checkFramebufferStatus(c)
    PROVE  IInv'
<1>. DEFINE g == checkStatus(texture, framebuffer[c])
<1>1. Good(texture, framebuffer[c])
  BY DEF IInv
<1>2. Good(texture, g)
  BY <1>1, CheckStatusGood
<1>3. Framebuffers(c, texture, g)
  BY DEF checkFramebufferStatus
<1>. HIDE DEF g
<1>. QED
  BY <1>2, <1>3, FramebufferKeeps

LEMMA ReadPixelsKeeps ==
    ASSUME IInv, NEW c \in Contexts, readPixels(c)
    PROVE  IInv'
<1>. DEFINE f == checkStatus(texture, framebuffer[c])
            r == ensureAttachmentInitialized(texture, f)
<1>1. Complete(texture, framebuffer[c]) /\ Framebuffers(c, r.xs, r.f)
  BY DEF readPixels
<1>2. Attached(f) /\ Good(texture, f) /\ TexturesOK(texture)
  BY <1>1, CompleteAttached
<1>3. AttachmentCleared(r.xs, texture, f) /\ BitOnly(r.f, f)
  BY <1>2, EnsureEffect
<1>. HIDE DEF r
<1>. QED
  BY <1>1, <1>3, ClearedKeeps

LEMMA DrawKeeps ==
    ASSUME IInv, NEW c \in Contexts, draw(c)
    PROVE  IInv'
<1>. DEFINE f == checkStatus(texture, framebuffer[c])
            r == ensureAttachmentInitialized(texture, f)
            ys == Render(r.xs, r.f, FALSE)
<1>1. Complete(texture, framebuffer[c]) /\ Framebuffers(c, ys, r.f)
  BY Zenon DEF draw
<1>2. Attached(f) /\ Good(texture, f) /\ TexturesOK(texture)
  BY <1>1, CompleteAttached
<1>3. AttachmentCleared(r.xs, texture, f) /\ BitOnly(r.f, f)
  BY <1>2, EnsureEffect
<1>. HIDE DEF r
<1>4. AttachmentCleared(ys, texture, f)
  BY <1>2, <1>3, RenderReady, Zenon DEF BitOnly
<1>. HIDE DEF ys
<1>. QED
  BY <1>1, <1>3, <1>4, ClearedKeeps


LEMMA BitOnlyTransitive ==
    ASSUME NEW f, NEW g, BitOnly(g, f), NEW h, h = [g EXCEPT !.mResourceNeedsInit = FALSE]
    PROVE  BitOnly(h, f)
<1>1. g \in FramebufferRecords
  BY DEF BitOnly, SameAttachment
<1>2. BitOnly(h, g)
  BY <1>1, BitlessOnly
<1>. QED
  BY <1>2 DEF BitOnly, SameAttachment

\* glClear and glClearBuffer mark alike what is initialized already.
LEMMA MarkedEffect ==
    ASSUME NEW f, Attached(f), NEW xs, NEW ys, AttachmentCleared(ys, xs, f), NEW g, BitOnly(g, f),
           NEW m, m = markDrawAttachmentsInitialized(ys, g) \/ m = markBufferInitialized(ys, g)
    PROVE  AttachmentCleared(m.xs, xs, f) /\ BitOnly(m.f, f)
<1>. DEFINE h == [g EXCEPT !.mResourceNeedsInit = FALSE]
            ms == Marked(ys, g)
<1>1. m = [xs |-> ys, f |-> g] \/ m = [xs |-> ms, f |-> h]
  BY DEF markDrawAttachmentsInitialized, markBufferInitialized, Marked
<1>2. BitOnly(h, f)
  BY BitOnlyTransitive
<1>3. AttachmentCleared(ms, xs, f)
  BY MarkReady DEF BitOnly
<1>. HIDE DEF h, ms
<1>4. (m.xs = ys /\ m.f = g) \/ (m.xs = ms /\ m.f = h)
  BY <1>1
<1>. QED
  BY <1>2, <1>3, <1>4

\* A scissored or masked clear.
LEMMA PartialClearKeeps ==
    ASSUME IInv, NEW c \in Contexts, clear(c, FALSE) \/ clearBuffer(c, FALSE)
    PROVE  IInv'
<1>. DEFINE f == checkStatus(texture, framebuffer[c])
            r == ensureAttachmentInitialized(texture, f)
            ys == Render(r.xs, r.f, FALSE)
            m == IF clear(c, FALSE) THEN markDrawAttachmentsInitialized(ys, r.f)
                 ELSE markBufferInitialized(ys, r.f)
<1>1. Complete(texture, framebuffer[c]) /\ Framebuffers(c, m.xs, m.f)
  BY Zenon DEF clear, clearBuffer
<1>2. Attached(f) /\ Good(texture, f) /\ TexturesOK(texture)
  BY <1>1, CompleteAttached, Zenon
<1>3. AttachmentCleared(r.xs, texture, f) /\ BitOnly(r.f, f)
  BY <1>2, EnsureEffect
<1>. HIDE DEF r
<1>4. AttachmentCleared(ys, texture, f)
  BY <1>2, <1>3, RenderReady, Zenon DEF BitOnly
<1>. HIDE DEF ys
<1>5. AttachmentCleared(m.xs, texture, f) /\ BitOnly(m.f, f)
  BY <1>2, <1>3, <1>4, MarkedEffect, Zenon
<1>. HIDE DEF m
<1>. QED
  BY <1>1, <1>5, ClearedKeeps

\* A clear of everything that is enabled for drawing: with nothing enabled
\* glClear does nothing.
LEMMA WholeClearKeeps ==
    ASSUME IInv, NEW c \in Contexts, "clearDisabled" \notin client.operations,
           clear(c, TRUE) \/ clearBuffer(c, TRUE)
    PROVE  IInv'
<1>. DEFINE f == checkStatus(texture, framebuffer[c])
            ys == Render(texture, f, TRUE)
            m == IF clear(c, TRUE) THEN markDrawAttachmentsInitialized(ys, f)
                 ELSE markBufferInitialized(ys, f)
            h == [f EXCEPT !.mResourceNeedsInit = FALSE]
<1>1. /\ Complete(texture, framebuffer[c]) /\ Framebuffers(c, m.xs, m.f)
      /\ f.mDrawBufferState \/ clear(c, TRUE)
  BY Zenon DEF clear, clearBuffer
<1>2. Attached(f) /\ Good(texture, f) /\ TexturesOK(texture)
  BY <1>1, CompleteAttached, Zenon
<1>. HIDE DEF f
<1>3. /\ f \in FramebufferRecords /\ f.mEnabledDrawBuffers = f.mDrawBufferState
      /\ f.mDrawBufferState \in BOOLEAN
  BY <1>2 DEF Good, Wired, Attached, FramebufferRecords
<1>4. CASE f.mDrawBufferState = TRUE
  <2>1. m.xs = Marked(ys, f) /\ m.f = h
    BY <1>3, <1>4, Zenon DEF markDrawAttachmentsInitialized, markBufferInitialized, Marked
  <2>2. AttachmentCleared(Marked(ys, f), texture, f)
    BY <1>2, <1>4, WholeClear, Zenon
  <2>3. BitOnly(h, f)
    BY <1>3, BitlessOnly
  <2>. HIDE DEF m, h, ys
  <2>4. f = checkStatus(texture, framebuffer[c])
    BY DEF f
  <2>. QED
    BY <1>1, <2>1, <2>2, <2>3, <2>4, ClearedKeeps
<1>5. CASE f.mDrawBufferState = FALSE
  <2>1. m.xs = texture /\ m.f = f
    BY <1>1, <1>3, <1>5, Zenon DEF markDrawAttachmentsInitialized, Render
  <2>2. Framebuffers(c, texture, f)
    BY <1>1, <2>1, Zenon
  <2>. QED
    BY <1>2, <2>2, FramebufferKeeps
<1>. QED
  BY <1>3, <1>4, <1>5, Zenon

LEMMA DrawBuffersKeeps ==
    ASSUME IInv, NEW c \in Contexts, NEW b \in BOOLEAN, drawBuffers(c, b)
    PROVE  IInv'
<1>. DEFINE f == framebuffer[c]
            g == setDrawBuffers(f, b)
<1>1. Good(texture, f) /\ Framebuffers(c, texture, g)
  BY DEF IInv, drawBuffers
<1>2. g = [f EXCEPT !.dirty = TRUE, !.mDrawBufferState = b, !.mEnabledDrawBuffers = b /\ isAttached(f)]
  BY DEF setDrawBuffers
<1>. HIDE DEF f, g
<1>3. (b /\ isAttached(f)) \in BOOLEAN /\ f \in FramebufferRecords
  BY <1>1 DEF Good
<1>4. /\ g \in FramebufferRecords /\ g.dirty = TRUE
      /\ g.mResource = f.mResource /\ g.mipLevel = f.mipLevel /\ g.mChannel = f.mChannel
      /\ g.mResourceNeedsInit = f.mResourceNeedsInit
      /\ g.mDrawBufferState = b /\ g.mEnabledDrawBuffers = (b /\ isAttached(f))
  BY <1>2, <1>3, Zenon DEF FramebufferRecords
<1>5. Good(texture, g)
  BY <1>1, <1>4, Zenon DEF Good, Wired, Known, Fresh, isAttached, AttachedImage
<1>. QED
  BY <1>1, <1>5, FramebufferKeeps

LEMMA FramebufferTexture2DKeeps ==
    ASSUME IInv, NEW c \in Contexts, NEW t \in named \cup {null}, NEW l \in Levels,
           framebufferTexture2D(c, t, l)
    PROVE  IInv'
<1>. DEFINE f == framebuffer[c]
            g == setAttachmentImpl(texture, f, t, l)
            bit == t # null /\ texture[t].mImageDescs[l].initState = "MayNeedInit"
            enabled == t # null /\ f.mDrawBufferState
<1>1. /\ Good(texture, f) /\ Framebuffers(c, texture, g) /\ t \in Textures \cup {null}
      /\ bit \in BOOLEAN /\ enabled \in BOOLEAN
  BY DEF IInv, framebufferTexture2D
<1>2. g = [[f EXCEPT !.mResource = t, !.mipLevel = l, !.dirty = TRUE, !.mChannel = t,
                     !.mResourceNeedsInit = bit] EXCEPT !.mEnabledDrawBuffers = enabled]
  BY DEF setAttachmentImpl, updateAttachment
<1>3. /\ bit <=> t # null /\ texture[t].mImageDescs[l].initState = "MayNeedInit"
      /\ enabled <=> t # null /\ f.mDrawBufferState
  OBVIOUS
<1>. HIDE DEF f, g, bit, enabled
<1>4. f \in FramebufferRecords
  BY <1>1 DEF Good
<1>5. /\ g \in FramebufferRecords /\ g.dirty = TRUE
      /\ g.mResource = t /\ g.mipLevel = l /\ g.mChannel = t
      /\ g.mResourceNeedsInit = bit
      /\ g.mDrawBufferState = f.mDrawBufferState /\ g.mEnabledDrawBuffers = enabled
  BY <1>1, <1>2, <1>4, Zenon DEF FramebufferRecords
<1>6. Wired(g)
  <2>1. f.mDrawBufferState \in BOOLEAN
    BY <1>4 DEF FramebufferRecords
  <2>. QED
    BY <1>1, <1>3, <1>5, <2>1 DEF Wired, isAttached
<1>7. Known(texture, g) /\ Fresh(texture, g)
  BY <1>3, <1>5, Zenon DEF Known, Fresh, isAttached, AttachedImage
<1>8. Good(texture, g)
  BY <1>5, <1>6, <1>7 DEF Good
<1>. QED
  BY <1>1, <1>8, FramebufferKeeps


-------------------------------------------------------------------------------
(* The actions on textures.                                                *)

\* The bound texture.
LEMMA BoundTexture ==
    ASSUME IInv, NEW c \in Contexts, bound[c] # null
    PROVE  /\ bound[c] \in Textures /\ TexturesOK(texture)
           /\ IsTexture(texture[bound[c]]) /\ Exact(texture[bound[c]])
<1>1. bound \in [Contexts -> Textures \cup {null}] /\ TexturesOK(texture)
  BY DEF IInv
<1>2. bound[c] \in Textures
  BY <1>1
<1>. QED
  BY <1>1, <1>2 DEF TexturesOK

\* A change that no framebuffer is told of, and that matters to none.
LEMMA QuietKeeps ==
    ASSUME IInv, NEW t \in Textures, NEW x, IsTexture(x), Exact(x),
           \/ Calmer(x, texture[t])
           \/ \A d \in Contexts : framebuffer[d].mResource # t,
           Become(Changed(texture, t, x), named, bound, framebuffer)
    PROVE  IInv'
<1>. DEFINE ys == Changed(texture, t, x)
<1>1. /\ client \in Clients /\ named \subseteq Textures /\ bound \in [Contexts -> Textures \cup {null}]
      /\ \A d \in Contexts : Good(texture, framebuffer[d])
  BY DEF IInv
<1>2. TexturesOK(texture)
  BY DEF IInv
<1>3. TexturesOK(ys) /\ ys[t] = x /\ \A u \in Textures \ {t} : ys[u] = texture[u]
  BY <1>2, ChangedOK
<1>. HIDE DEF ys
<1>4. ASSUME NEW d \in Contexts
      PROVE  Good(ys, framebuffer[d])
  <2>. DEFINE f == framebuffer[d]
  <2>1. Good(texture, f) /\ (Calmer(x, texture[t]) \/ f.mResource # t)
    BY <1>1
  <2>. HIDE DEF f
  <2>2. isAttached(f) => f.mResource \in Textures
    BY <2>1, Zenon DEF Good, FramebufferRecords, isAttached
  <2>3. CASE f.mResource # t
    BY <1>3, <2>1, <2>2, <2>3, OtherGood, Zenon DEF f
  <2>4. CASE f.mResource = t
    <3>1. IsTexture(texture[t]) /\ Calmer(ys[t], texture[t])
      BY <1>2, <1>3, <2>1, <2>4 DEF TexturesOK
    <3>2. Good(ys, f)
      BY <2>1, <2>4, <3>1, CalmerGood, Zenon
    <3>. QED
      BY <3>2, Zenon DEF f
  <2>. QED
    BY <2>3, <2>4
<1>5. Become(ys, named, bound, framebuffer)
  BY Zenon DEF ys
<1>. QED
  BY <1>1, <1>3, <1>4, <1>5, BecomeKeeps, Zenon

LEMMA BindTextureKeeps ==
    ASSUME IInv, NEW c \in Contexts, NEW t \in Textures \cup {null}, glBindTexture(c, t)
    PROVE  IInv'
<1>. DEFINE names == named \cup ({t} \ {null})
            bindings == [bound EXCEPT ![c] = t]
<1>1. /\ client \in Clients /\ TexturesOK(texture)
      /\ \A d \in Contexts : Good(texture, framebuffer[d])
  BY DEF IInv
<1>2. names \subseteq Textures /\ bindings \in [Contexts -> Textures \cup {null}]
  BY DEF IInv
<1>3. Become(texture, names, bindings, framebuffer)
  BY DEF glBindTexture
<1>. HIDE DEF names, bindings
<1>. QED
  BY <1>1, <1>2, <1>3, BecomeKeeps

LEMMA TexImage2DKeeps ==
    ASSUME IInv, "misleading" \notin client.operations, NEW c \in Contexts, NEW l \in Levels,
           NEW size, NEW pixels \in BOOLEAN, glTexImage2D(c, l, size, pixels)
    PROVE  IInv'
<1>. DEFINE t == bound[c]
            x == texture[t]
            s == DetermineInitState(pixels)
            y == setImageDesc(Allocate(x, l, pixels), l, Image(size, s))
<1>1. t # null /\ Permitted(t, y, s) /\ Redefine(t, y, s)
  BY Zenon DEF glTexImage2D, setImage
<1>2. t \in Textures /\ IsTexture(x) /\ Exact(x)
  BY <1>1, BoundTexture, Zenon
<1>3. Reimaged(y, x, l, s)
  <2>. HIDE DEF x
  <2>. QED
    BY <1>2, NewImageEffect, Zenon DEF Exact
<1>4. s \in InitStates
  BY DEF DetermineInitState, InitStates
<1>. HIDE DEF y, s
<1>. QED
  BY <1>1, <1>2, <1>3, <1>4, RedefineKeeps, Zenon DEF Reimaged

LEMMA TexSubImage2DKeeps ==
    ASSUME IInv, NEW c \in Contexts, NEW l \in Levels, NEW whole \in BOOLEAN,
           glTexSubImage2D(c, l, whole)
    PROVE  IInv'
<1>. DEFINE t == bound[c]
            x == texture[t]
            y == WriteTo(ensureSubImageInitialized(x, l, whole), l, whole)
<1>1. t # null /\ Become(Changed(texture, t, y), named, bound, framebuffer)
  BY Zenon DEF glTexSubImage2D, Changed
<1>2. t \in Textures /\ IsTexture(x) /\ Exact(x)
  BY <1>1, BoundTexture, Zenon
<1>3. Cleared(y, x, l) /\ Exact(y)
  <2>. HIDE DEF x
  <2>1. Cleared(y, x, l)
    BY <1>2, SubImageEffect
  <2>. HIDE DEF y
  <2>. QED
    BY <1>2, <2>1, ClearedExact
<1>. HIDE DEF y
<1>. QED
  BY <1>1, <1>2, <1>3, QuietKeeps, Zenon DEF Cleared

LEMMA SetStorageKeeps ==
    ASSUME IInv, "misleading" \notin client.operations, NEW c \in Contexts,
           NEW levels \in 1 .. MaxLevel + 1, NEW size, setStorage(c, levels, size)
    PROVE  IInv'
<1>. DEFINE t == bound[c]
            x == texture[t]
            z == Stored(x, levels)
            y == setImageDescChain(z, 0, levels - 1, size, "MayNeedInit")
            s == "MayNeedInit"
<1>1. t # null /\ Permitted(t, y, s) /\ Redefine(t, y, s)
  BY DEF setStorage, Stored
<1>2. t \in Textures /\ IsTexture(x)
  BY <1>1, BoundTexture, Zenon
<1>3. IsTexture(y) /\ Exact(y)
  <2>. HIDE DEF x
  <2>1. IsStored(z, levels)
    BY <1>2, StoredEffect, MaxLevelAssumption
  <2>. HIDE DEF z
  <2>. QED
    BY <2>1, StorageEffect
<1>4. s \in InitStates
  BY DEF InitStates
<1>. HIDE DEF y, s
<1>. QED
  BY <1>1, <1>2, <1>3, <1>4, RedefineKeeps


LEMMA GenerateMipmapKeeps ==
    ASSUME IInv, "misleading" \notin client.operations, NEW c \in Contexts, generateMipmap(c)
    PROVE  IInv'
<1>. DEFINE t == bound[c]
            x == texture[t]
            y == GenerateLevels(x)
            s == "Initialized"
<1>1. /\ t # null /\ getMipmapMaxLevel(x) \in Levels
      /\ Permitted(t, y, s) /\ Redefine(t, y, s)
  BY DEF generateMipmap
<1>2. t \in Textures /\ IsTexture(x) /\ Exact(x)
  BY <1>1, BoundTexture, Zenon
<1>3. IsTexture(y) /\ Exact(y)
  <2>. HIDE DEF x
  <2>. QED
    BY <1>1, <1>2, GenerateEffect
<1>4. s \in InitStates
  BY DEF InitStates
<1>. HIDE DEF y, s
<1>. QED
  BY <1>1, <1>2, <1>3, <1>4, RedefineKeeps, Zenon

WithBaseLevel(x, l) == [x EXCEPT !.mBaseLevel = l]

LEMMA BaseLevelEffect ==
    ASSUME NEW x, IsTexture(x), Exact(x), NEW l \in Levels
    PROVE  IsTexture(WithBaseLevel(x, l)) /\ Exact(WithBaseLevel(x, l))
<1>. DEFINE y == WithBaseLevel(x, l)
<1>1. y = [mImageDescs |-> x.mImageDescs, contents |-> x.contents,
           mBaseLevel |-> l, mImmutableLevels |-> x.mImmutableLevels]
  BY DEF IsTexture, WithBaseLevel
<1>. HIDE DEF y
<1>2. /\ y.mImageDescs = x.mImageDescs /\ y.contents = x.contents
      /\ y.mBaseLevel = l /\ y.mImmutableLevels = x.mImmutableLevels
  BY <1>1
<1>3. IsTexture(y) /\ Exact(y)
  BY <1>1, <1>2 DEF IsTexture, Exact, ExactAt, InitState, SizeOf
<1>. QED
  BY <1>3 DEF y

LEMMA SetBaseLevelKeeps ==
    ASSUME IInv, "baseLevel" \notin client.operations, NEW c \in Contexts, NEW l \in Levels,
           setBaseLevel(c, l)
    PROVE  IInv'
<1>. DEFINE t == bound[c]
            x == texture[t]
            y == WithBaseLevel(x, l)
<1>1. /\ t # null /\ \A d \in Contexts : framebuffer[d].mResource # t
      /\ Become(Changed(texture, t, y), named, bound, framebuffer)
  BY DEF setBaseLevel, Changed, WithBaseLevel
<1>2. t \in Textures /\ IsTexture(x) /\ Exact(x)
  BY <1>1, BoundTexture, Zenon
<1>3. IsTexture(y) /\ Exact(y)
  <2>. HIDE DEF x
  <2>. QED
    BY <1>2, BaseLevelEffect
<1>. HIDE DEF y
<1>. QED
  BY <1>1, <1>2, <1>3, QuietKeeps, Zenon

LEMMA DetachGood ==
    ASSUME NEW xs, NEW f, Good(xs, f), NEW t, NEW g, g = detachMatchingAttachment(f, t)
    PROVE  Good(xs, g)
<1>1. f \in FramebufferRecords
  BY DEF Good
<1>2. CASE f.mResource # t
  BY <1>2 DEF detachMatchingAttachment
<1>3. CASE f.mResource = t
  <2>1. /\ g \in FramebufferRecords /\ g.mResource = null
        /\ g.dirty = TRUE /\ g.mResourceNeedsInit = FALSE
    BY <1>1, <1>3, LevelsFromZero, Zenon DEF detachMatchingAttachment, FramebufferRecords
  <2>. QED
    BY <2>1 DEF Good, Wired, Known, Fresh, isAttached
<1>. QED
  BY <1>2, <1>3

LEMMA DeleteTextureKeeps ==
    ASSUME IInv, NEW c \in Contexts, NEW t \in Textures, deleteTexture(c, t)
    PROVE  IInv'
<1>. DEFINE names == named \ {t}
            bindings == [bound EXCEPT ![c] = IF @ = t THEN null ELSE @]
            g == detachMatchingAttachment(framebuffer[c], t)
            fs == [framebuffer EXCEPT ![c] = g]
<1>1. /\ client \in Clients /\ TexturesOK(texture)
      /\ framebuffer = [d \in Contexts |-> framebuffer[d]]
      /\ \A d \in Contexts : Good(texture, framebuffer[d])
  BY DEF IInv
<1>2. names \subseteq Textures /\ bindings \in [Contexts -> Textures \cup {null}]
  BY DEF IInv
<1>3. Become(texture, names, bindings, fs)
  BY DEF deleteTexture
<1>4. Good(texture, g)
  BY <1>1, DetachGood
<1>. HIDE DEF names, bindings, g
<1>5. \A d \in Contexts : Good(texture, fs[d])
  BY <1>1, <1>4
<1>. HIDE DEF fs
<1>. QED
  BY <1>1, <1>2, <1>3, <1>5, BecomeKeeps

\* The levels other than l are left alone.
LEMMA EnsureSubImageEffect ==
    ASSUME NEW x, IsTexture(x), Exact(x), NEW l \in Levels, NEW whole,
           NEW z, z = ensureSubImageInitialized(x, l, whole)
    PROVE  IsTexture(z) /\ \A k \in Levels \ {l} : ExactAt(z, k)
<1>. DEFINE u == IF whole THEN x ELSE initializeContents(x, l)
<1>1. CASE InitState(x, l) = "Initialized"
  BY <1>1, Zenon DEF ensureSubImageInitialized, InitState, Exact
<1>2. CASE InitState(x, l) # "Initialized"
  <2>1. z = setInitState(u, l, "Initialized")
    BY <1>2 DEF ensureSubImageInitialized, InitState
  <2>2. u = x \/ NewContents(u, x, l, "defined")
    BY InitializeContentsEffect
  <2>. HIDE DEF u
  <2>3. IsTexture(u) /\ \A k \in Levels \ {l} : ExactAt(u, k)
    BY <2>2 DEF NewContents, Exact, ExactAt, InitState
  <2>4. NewInitState(z, u, l, "Initialized")
    BY <2>1, <2>3, SetInitializedEffect
  <2>. QED
    BY <2>3, <2>4, Zenon DEF NewInitState, ExactAt
<1>. QED
  BY <1>1, <1>2


\* What the read of copyImage leaves of a framebuffer.
ReadOK(xs, f, g) ==
    /\ TexturesOK(xs) /\ Good(xs, f)
    /\ f.mChannel = g.mChannel /\ f.mResource = g.mResource /\ f.mipLevel = g.mipLevel

\* The framebuffer of context c after the read, and the others, with the textures
\* as they are then.
LEMMA ReadGood ==
    ASSUME IInv, NEW c \in Contexts, Complete(texture, framebuffer[c]),
           NEW f, f = checkStatus(texture, framebuffer[c]),
           NEW r, r = ensureAttachmentInitialized(texture, f),
           NEW fs, fs = Changed(framebuffer, c, r.f), NEW d \in Contexts
    PROVE  ReadOK(r.xs, fs[d], framebuffer[d])
<1>1. Attached(f) /\ Good(texture, f) /\ TexturesOK(texture)
  BY CompleteAttached
<1>2. AttachmentCleared(r.xs, texture, f) /\ BitOnly(r.f, f)
  BY <1>1, EnsureEffect
<1>3. TexturesOK(r.xs) /\ \A u \in Textures : Calmer(r.xs[u], texture[u])
  BY <1>1, <1>2, AttachmentClearedOK, Zenon
<1>4. Good(r.xs, r.f)
  BY <1>1, <1>2, ClearedGood
<1>5. Good(r.xs, framebuffer[d])
  BY <1>3, CalmerTextures, Zenon
<1>6. SameAttachment(r.f, f) /\ SameAttachment(f, framebuffer[c])
  <2>1. Good(texture, framebuffer[c])
    BY DEF IInv
  <2>. QED
    BY <1>2, <2>1, CheckStatusGood, Zenon DEF BitOnly
<1>7. fs[d] = IF d = c THEN r.f ELSE framebuffer[d]
  BY DEF IInv, Changed
<1>. QED
  BY <1>3, <1>4, <1>5, <1>6, <1>7, Zenon DEF SameAttachment, ReadOK

\* One texture is redefined, and the framebuffers that it is attached to are told.
Replaced(ys, xs, t, x) == ys[t] = x /\ \A u \in Textures \ {t} : ys[u] = xs[u]
Signalled(g, f, t, s) == g = IF f.mChannel = t THEN signal(f, s) ELSE f

LEMMA SignalledGood ==
    ASSUME NEW xs, NEW ys, NEW t \in Textures, NEW x, Replaced(ys, xs, t, x), NEW s \in InitStates,
           NEW f, Good(xs, f), ~Misled(f, t, x, s), NEW g, Signalled(g, f, t, s)
    PROVE  Good(ys, g)
BY SignalGood, Zenon DEF Replaced, Signalled

AllGood(xs, fs) == TexturesOK(xs) /\ \A d \in Contexts : Good(xs, fs[d])
NoneMisled(fs, t, x, s) == \A d \in Contexts : ~Misled(fs[d], t, x, s)
Told(gs, fs, t, s) ==
    \A d \in Contexts : Signalled(gs[d], fs[d], t, s)

LEMMA ToldGood ==
    ASSUME NEW t \in Textures, NEW xs, NEW fs, AllGood(xs, fs),
           NEW x, IsTexture(x), Exact(x), NEW s \in InitStates, NoneMisled(fs, t, x, s),
           NEW ys, ys = Changed(xs, t, x), NEW gs, Told(gs, fs, t, s)
    PROVE  AllGood(ys, gs)
<1>1. TexturesOK(ys) /\ Replaced(ys, xs, t, x)
  BY ChangedOK DEF AllGood, Replaced
<1>2. ASSUME NEW d \in Contexts PROVE Good(ys, gs[d])
  <2>1. Good(xs, fs[d]) /\ ~Misled(fs[d], t, x, s) /\ Signalled(gs[d], fs[d], t, s)
    BY Zenon DEF AllGood, NoneMisled, Told
  <2>. QED
    BY <1>1, <2>1, SignalledGood, Zenon
<1>. QED
  BY <1>1, <1>2, Zenon DEF AllGood

\* The level that copyImage has defined.
LEMMA CopiedLevel ==
    ASSUME NEW y, IsTexture(y), Exact(y), NEW l \in Levels, NEW whole, NEW size,
           NEW z, z = ensureSubImageInitialized(y, l, whole),
           NEW x, x = setImageDesc(Allocate(z, l, TRUE), l, Image(size, "Initialized"))
    PROVE  IsTexture(x) /\ Exact(x)
<1>1. IsTexture(z) /\ \A k \in Levels \ {l} : ExactAt(z, k)
  BY EnsureSubImageEffect
<1>2. "Initialized" = DetermineInitState(TRUE)
  BY DEF DetermineInitState
<1>3. Reimaged(x, z, l, DetermineInitState(TRUE))
  BY <1>1, <1>2, NewImageEffect, Zenon
<1>. QED
  BY <1>3, Zenon DEF Reimaged

LEMMA CopyImageKeeps ==
    ASSUME IInv, "misleading" \notin client.operations, NEW c \in Contexts, NEW l \in Levels,
           NEW size, copyImage(c, l, size)
    PROVE  IInv'
<1>. DEFINE t == bound[c]
            f == checkStatus(texture, framebuffer[c])
            r == ensureAttachmentInitialized(texture, f)
            xs == r.xs
            whole == size = texture[t].mImageDescs[l].size
            z == ensureSubImageInitialized(xs[t], l, whole)
            s == "Initialized"
            x == setImageDesc(Allocate(z, l, TRUE), l, Image(size, s))
            ys == Changed(xs, t, x)
            fs == [framebuffer EXCEPT ![c] = r.f]
            gs == signalDirty(fs, t, s)
<1>1. /\ t # null /\ Complete(texture, framebuffer[c]) /\ Permitted(t, x, s)
      /\ Become(ys, named, bound, gs)
  BY Zenon DEF copyImage, Changed
<1>2. Told(gs, fs, t, s)
  BY Zenon DEF signalDirty, Told, Signalled
<1>3. fs = Changed(framebuffer, c, r.f)
  BY Zenon DEF Changed
<1>4. s = "Initialized" /\ s \in InitStates
  BY DEF InitStates
<1>5. /\ f = checkStatus(texture, framebuffer[c]) /\ r = ensureAttachmentInitialized(texture, f)
      /\ xs = r.xs /\ ys = Changed(xs, t, x)
      /\ z = ensureSubImageInitialized(xs[t], l, whole)
      /\ x = setImageDesc(Allocate(z, l, TRUE), l, Image(size, "Initialized"))
  BY Zenon
<1>. HIDE DEF f, r, xs, whole, z, s, x, ys, fs, gs
<1>6. /\ t \in Textures /\ client \in Clients /\ named \subseteq Textures
      /\ bound \in [Contexts -> Textures \cup {null}]
  BY <1>1, BoundTexture DEF IInv
<1>. HIDE DEF t
<1>7. \A d \in Contexts : ReadOK(xs, fs[d], framebuffer[d])
  BY <1>1, <1>3, <1>5, ReadGood, Zenon
<1>8. AllGood(xs, fs)
  BY <1>6, <1>7 DEF ReadOK, AllGood
<1>9. IsTexture(x) /\ Exact(x)
  <2>1. IsTexture(xs[t]) /\ Exact(xs[t])
    BY <1>6, <1>8 DEF AllGood, TexturesOK
  <2>. QED
    BY <1>5, <2>1, CopiedLevel, Zenon
<1>10. NoneMisled(fs, t, x, s)
  <2>1. \A d \in Contexts : ~Misled(framebuffer[d], t, x, s)
    BY <1>1, NotMisled, Zenon
  <2>. QED
    BY <1>7, <2>1, Zenon DEF ReadOK, Misled, NoneMisled
<1>11. AllGood(ys, gs)
  BY <1>2, <1>4, <1>5, <1>6, <1>8, <1>9, <1>10, ToldGood, Zenon
<1>. QED
  BY <1>1, <1>6, <1>11, BecomeKeeps, Zenon DEF AllGood

-------------------------------------------------------------------------------
(* The theorems.                                                           *)

\* Operations that are known to break the properties.
Breaking == {"misleading", "clearDisabled", "baseLevel"}

LEMMA ClientLevels ==
    ASSUME client \in Clients
    PROVE  0..client.level \subseteq Levels /\ 1 .. client.level + 1 \subseteq 1 .. MaxLevel + 1
<1>1. client.level \in 0..MaxLevel
  BY ClientsAssumption DEF Levels
<1>. QED
  BY <1>1, MaxLevelAssumption DEF Levels

LEMMA InitIInv ==
    ASSUME Init
    PROVE  IInv
<1>1. TexturesOK(texture)
  BY NewTextureOK DEF Init, TexturesOK
<1>2. Good(texture, NewFramebuffer)
  <2>1. NewFramebuffer \in FramebufferRecords
    BY LevelsFromZero DEF NewFramebuffer, FramebufferRecords, Statuses
  <2>2. /\ NewFramebuffer.mResource = null /\ NewFramebuffer.mCachedStatus = "invalid"
        /\ NewFramebuffer.mResourceNeedsInit = FALSE
    BY DEF NewFramebuffer
  <2>. QED
    BY <2>1, <2>2 DEF Good, Wired, Known, Fresh, isAttached
<1>. QED
  BY <1>1, <1>2 DEF Init, IInv


LEMMA NextIInv ==
    ASSUME IInv, client.operations \cap Breaking = {}, [Next]_vars
    PROVE  IInv'
<1>1. /\ "misleading" \notin client.operations /\ "clearDisabled" \notin client.operations
      /\ "baseLevel" \notin client.operations
  BY DEF Breaking
<1>2. 0..client.level \subseteq Levels /\ 1 .. client.level + 1 \subseteq 1 .. MaxLevel + 1
  BY ClientLevels DEF IInv
<1>3. CASE UNCHANGED vars
  BY <1>3 DEF IInv, vars
<1>4. CASE Next
  <2>1. PICK c \in Contexts :
        \/ \E t \in Textures \cup {null} : glBindTexture(c, t)
        \/ \E level \in 0..client.level, size \in ClientSizes, pixels \in BOOLEAN :
               glTexImage2D(c, level, size, pixels)
        \/ \E level \in 0..client.level, whole \in BOOLEAN : glTexSubImage2D(c, level, whole)
        \/ \E level \in 0..client.level, size \in ClientSizes : copyImage(c, level, size)
        \/ \E levels \in 1 .. client.level + 1, size \in ClientSizes : setStorage(c, levels, size)
        \/ generateMipmap(c)
        \/ \E level \in 0..client.level : setBaseLevel(c, level)
        \/ \E t \in Textures : deleteTexture(c, t)
        \/ \E t \in named \cup {null}, level \in 0..client.level : framebufferTexture2D(c, t, level)
        \/ \E b \in BOOLEAN : drawBuffers(c, b)
        \/ checkFramebufferStatus(c)
        \/ draw(c)
        \/ \E whole \in BOOLEAN : clear(c, whole) \/ clearBuffer(c, whole)
        \/ readPixels(c)
    BY <1>4, Zenon DEF Next
  <2>2. CASE \E t \in Textures \cup {null} : glBindTexture(c, t)
    BY <2>2, BindTextureKeeps
  <2>3. CASE \E level \in 0..client.level, size \in ClientSizes, pixels \in BOOLEAN :
                 glTexImage2D(c, level, size, pixels)
    BY <1>1, <1>2, <2>3, TexImage2DKeeps
  <2>4. CASE \E level \in 0..client.level, whole \in BOOLEAN : glTexSubImage2D(c, level, whole)
    BY <1>2, <2>4, TexSubImage2DKeeps
  <2>5. CASE \E level \in 0..client.level, size \in ClientSizes : copyImage(c, level, size)
    BY <1>1, <1>2, <2>5, CopyImageKeeps
  <2>6. CASE \E levels \in 1 .. client.level + 1, size \in ClientSizes : setStorage(c, levels, size)
    BY <1>1, <1>2, <2>6, SetStorageKeeps
  <2>7. CASE generateMipmap(c)
    BY <1>1, <2>7, GenerateMipmapKeeps
  <2>8. CASE \E level \in 0..client.level : setBaseLevel(c, level)
    BY <1>1, <1>2, <2>8, SetBaseLevelKeeps
  <2>9. CASE \E t \in Textures : deleteTexture(c, t)
    BY <2>9, DeleteTextureKeeps
  <2>10. CASE \E t \in named \cup {null}, level \in 0..client.level : framebufferTexture2D(c, t, level)
    BY <1>2, <2>10, FramebufferTexture2DKeeps
  <2>11. CASE \E b \in BOOLEAN : drawBuffers(c, b)
    BY <2>11, DrawBuffersKeeps
  <2>12. CASE checkFramebufferStatus(c)
    BY <2>12, CheckFramebufferStatusKeeps
  <2>13. CASE draw(c)
    BY <2>13, DrawKeeps
  <2>14. CASE \E whole \in BOOLEAN : clear(c, whole) \/ clearBuffer(c, whole)
    <3>1. CASE clear(c, TRUE) \/ clearBuffer(c, TRUE)
      BY <1>1, <3>1, WholeClearKeeps, Zenon
    <3>2. CASE clear(c, FALSE) \/ clearBuffer(c, FALSE)
      BY <3>2, PartialClearKeeps, Zenon
    <3>. QED
      BY <2>14, <3>1, <3>2, Zenon
  <2>15. CASE readPixels(c)
    BY <2>15, ReadPixelsKeeps
  <2>. QED
    BY <2>1, <2>2, <2>3, <2>4, <2>5, <2>6, <2>7, <2>8, <2>9, <2>10, <2>11, <2>12, <2>13,
       <2>14, <2>15, Zenon
<1>. QED
  BY <1>3, <1>4

\* The client does without the breaking operations throughout.
LEMMA SpecIInv ==
    ASSUME \A c \in Clients : c.operations \cap Breaking = {}
    PROVE  Spec => []IInv
<1>1. Init => IInv
  BY InitIInv
<1>2. IInv /\ [Next]_vars => IInv'
  BY NextIInv DEF IInv
<1>. QED
  BY <1>1, <1>2, PTL DEF Spec

\* For every client that neither misleads an attachment (see MisleadsAttachment),
\* nor clears through a disabled draw buffer with glClearBuffer, nor changes the
\* base level of a texture that is attached, the status that a framebuffer has
\* cached is the one that Framebuffer::checkStatusImpl would compute now,
\* whatever the contexts that share the texture did to it since.
THEOREM StatusFreshTheorem ==
    ASSUME \A c \in Clients : c.operations \cap Breaking = {}
    PROVE  Spec => []StatusFresh
<1>1. IInv => StatusFresh
  BY DEF IInv, Good, Fresh, StatusFresh
<1>. QED
  BY <1>1, SpecIInv, PTL

\* For the same clients mResourceNeedsInit is set in every framebuffer that has
\* an attachment that may need to be cleared, and in none that has no attachment.
THEOREM NeedsInitKnownTheorem ==
    ASSUME \A c \in Clients : c.operations \cap Breaking = {}
    PROVE  Spec => []NeedsInitKnown
<1>1. IInv => NeedsInitKnown
  BY DEF IInv, Good, Known, NeedsInitKnown
<1>. QED
  BY <1>1, SpecIInv, PTL

\* For the same clients the init state of an image, whichever calls and contexts
\* have written to the image, says whether the memory behind it is undefined,
\* and no image mixes undefined memory with what was written.
THEOREM InitStateExactTheorem ==
    ASSUME \A c \in Clients : c.operations \cap Breaking = {}
    PROVE  Spec => []InitStateExact
<1>1. IInv => InitStateExact
  BY DEF IInv, TexturesOK, Exact, ExactAt, InitState, InitStateExact
<1>. QED
  BY <1>1, SpecIInv, PTL
===============================================================================
