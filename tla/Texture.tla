-------------------------------- MODULE Texture --------------------------------
(***************************************************************************)
(* The images of a two-dimensional gl::Texture (src/libANGLE/Texture.cpp): *)
(* TextureState and the parts of the texture's calls that touch only its   *)
(* own state.  An image is square; its size is its width.                  *)
(*                                                                         *)
(* A texture is a record: mImageDescs has the size and the init state of   *)
(* every level; contents, a history, says what the memory of the level     *)
(* holds.  "undefined": nothing has been written since it was allocated;   *)
(* "mixed": it has been written in part, over undefined memory; "defined". *)
(***************************************************************************)
EXTENDS Integers, FiniteSetsExt, Functions

CONSTANT MaxLevel       \* bound: the last level that has an image

ASSUME MaxLevelAssumption == MaxLevel \in Nat

Levels == 0..MaxLevel
Sizes == {2^k : k \in Levels}   \* with a chain of mipmaps within Levels

log2(n) == Max({k \in 0..n : 2^k <= n})

Image(size, initState) == [size |-> size, initState |-> initState]
NoImage == Image(0, "Initialized")

\* Robust resource initialization is enabled.
DetermineInitState(pixels) == IF pixels THEN "Initialized" ELSE "MayNeedInit"

NewTexture ==
    [mImageDescs |-> [l \in Levels |-> NoImage],
     contents |-> [l \in Levels |-> "defined"],
     mBaseLevel |-> 0,
     mImmutableLevels |-> 0]    \* 0 for mImmutableFormat = false

-------------------------------------------------------------------------------
\* TextureState.

getEffectiveBaseLevel(x) ==
    IF x.mImmutableLevels > 0 THEN Min({x.mBaseLevel, x.mImmutableLevels - 1})
    ELSE x.mBaseLevel

BaseImage(x) == x.mImageDescs[getEffectiveBaseLevel(x)]

\* Of a texture with a base image; mMaxLevel is the default, beyond Levels.
getMipmapMaxLevel(x) ==
    LET last == getEffectiveBaseLevel(x) + log2(BaseImage(x).size)
    IN  IF x.mImmutableLevels > 0 THEN Min({last, x.mImmutableLevels - 1}) ELSE last

\* The size of a level, given the size of the one relative levels before.
Minified(size, relative) == Max({1, size \div 2^relative})

computeLevelCompleteness(x, level) ==
    \/ x.mImmutableLevels > 0
    \/ /\ level \in Levels
       /\ BaseImage(x).size # 0
       /\ x.mImageDescs[level].size
            = Minified(BaseImage(x).size, level - getEffectiveBaseLevel(x))

computeMipmapCompleteness(x) ==
    /\ BaseImage(x).size # 0
    /\ \A level \in getEffectiveBaseLevel(x) .. getMipmapMaxLevel(x) :
          computeLevelCompleteness(x, level)

setImageDesc(x, level, image) == [x EXCEPT !.mImageDescs[level] = image]

\* The levels from..to, the first of the given size; what the others were.
setImageDescChain(x, from, to, size, initState) ==
    [x EXCEPT !.mImageDescs =
        [l \in Levels |-> IF l \in from..to THEN Image(Minified(size, l - from), initState)
                          ELSE @[l]]]

-------------------------------------------------------------------------------
\* The memory of the levels.

\* New memory for a level, with the pixels given to it or with none.
Allocate(x, level, pixels) ==
    [x EXCEPT !.contents[level] = IF pixels THEN "defined" ELSE "undefined"]

\* Commands write to all of the level or to a part of it.
WriteTo(x, level, whole) ==
    [x EXCEPT !.contents[level] =
        IF whole \/ @ = "defined" THEN "defined" ELSE "mixed"]

\* TextureImpl::initializeContents: the whole level is cleared.
initializeContents(x, level) == [x EXCEPT !.contents[level] = "defined"]

setInitState(x, level, initState) == [x EXCEPT !.mImageDescs[level].initState = initState]

\* The level is cleared, if it may need it, before a part of it is written.
ensureSubImageInitialized(x, level, whole) ==
    IF x.mImageDescs[level].initState = "Initialized" THEN x
    ELSE setInitState(IF whole THEN x ELSE initializeContents(x, level),
                      level, "Initialized")
===============================================================================
