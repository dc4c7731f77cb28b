------------------------------ MODULE ResourceMap ------------------------------
(***************************************************************************)
(* gl::ResourceMap (src/libANGLE/ResourceMap.h): from object names to      *)
(* object pointers.  Small names index a flat vector that grows by         *)
(* doubling, large ones are keys of a hash map.                            *)
(*                                                                         *)
(* A map is [size, value]: the size of the flat vector, and for every name *)
(* what the vector or the hash map holds for it.  InvalidPointer is the    *)
(* vector's marker for a free slot and stands for an absent key as well;   *)
(* nullptr is a name that is reserved and has no object yet.               *)
(***************************************************************************)
EXTENDS Integers, FiniteSetsExt

CONSTANTS
    MaxName,                    \* the greatest name modelled
    nullptr, InvalidPointer,
    kInitialFlatResourcesSize,  \* 0x20 in the code
    kFlatResourcesLimit         \* 0x4000 in the code

\* The sizes of the vector: the initial one, doubled up to the limit.
FlatSizes ==
    {kInitialFlatResourcesSize * 2^k : k \in 0..kFlatResourcesLimit} \cap 1..kFlatResourcesLimit

\* Doubling the initial size meets the limit exactly: a name below the size of
\* the vector is below the limit, so assign and query agree where it is kept.
ASSUME FlatSizesAssumption ==
    /\ MaxName \in Nat \ {0}
    /\ kInitialFlatResourcesSize \in Nat \ {0} /\ kFlatResourcesLimit \in Nat
    /\ {kInitialFlatResourcesSize, kFlatResourcesLimit} \subseteq FlatSizes

ASSUME PointersAssumption == nullptr # InvalidPointer

Names == 0..MaxName

EmptyMap ==
    [size  |-> kInitialFlatResourcesSize,
     value |-> [h \in Names |-> InvalidPointer]]

query(map, handle) ==
    IF map.value[handle] = InvalidPointer THEN nullptr ELSE map.value[handle]

contains(map, handle) == map.value[handle] # InvalidPointer

erase(map, handle) == [map EXCEPT !.value[handle] = InvalidPointer]

\* The vector's size after doubling it until handle is inside.
GrownSize(handle) == Min({size \in FlatSizes : size > handle})

\* Mutant: growing the vector overwrites the part that was there.
assignOverwrites(map, handle, resource) ==
    LET size == IF handle < kFlatResourcesLimit /\ handle >= map.size
                THEN GrownSize(handle)
                ELSE map.size
    IN  [size  |-> size,
         value |-> [h \in Names |->
                       IF h = handle THEN resource
                       ELSE IF map.size < size /\ h < size THEN nullptr
                       ELSE map.value[h]]]

\* assign grows the vector if it must, and resize fills the new part with
\* nullptr (not with InvalidPointer).
assign(map, handle, resource) ==
    LET size == IF handle < kFlatResourcesLimit /\ handle >= map.size
                THEN GrownSize(handle)
                ELSE map.size
    IN  [size  |-> size,
         value |-> [h \in Names |->
                       IF h = handle THEN resource
                       ELSE IF map.size <= h /\ h < size THEN nullptr
                       ELSE map.value[h]]]

\* The objects the iterator visits.
resources(map) == {map.value[h] : h \in Names} \ {nullptr, InvalidPointer}
===============================================================================
