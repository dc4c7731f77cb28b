-------------------------------- MODULE Buffer --------------------------------
(***************************************************************************)
(* A gl::Buffer that is drawn from with glDrawElements                     *)
(* (src/libANGLE/Buffer.cpp, IndexRangeCache.cpp).  Drawing needs the      *)
(* least and the greatest index in the range drawn; the buffer caches      *)
(* them, and everything that writes to it has to drop what it changed.     *)
(*                                                                         *)
(* Offsets and sizes count indices of one type.  A buffer is a record:     *)
(* contents, what the driver holds; mIndexRangeCache, from ranges to their *)
(* least and greatest index; mMapped; and writable, the part that the      *)
(* client may write through the pointer that it got from mapping.          *)
(***************************************************************************)
EXTENDS Integers, FiniteSetsExt, Functions

CONSTANTS
    BufferSize,
    Indices             \* the values that are stored

ASSUME BufferAssumption == BufferSize \in Nat \ {0} /\ Indices \subseteq Nat

Offsets == 0 .. BufferSize - 1
Contents == [Offsets -> Indices]

\* IndexRangeKey, for one type and without primitive restart.
Keys == {k \in [offset : Offsets, count : 1 .. BufferSize] : k.offset + k.count <= BufferSize}

Part(offset, size) == offset .. offset + size - 1

ComputeIndexRange(contents, key) ==
    LET drawn == {contents[i] : i \in Part(key.offset, key.count)}
    IN  [start |-> Min(drawn), end |-> Max(drawn)]

NewBuffer(data) ==
    [contents |-> data, mIndexRangeCache |-> << >>, mMapped |-> FALSE, writable |-> {}]

-------------------------------------------------------------------------------

\* The driver writes data to a part of the buffer.
Write(b, part, data) ==
    [b EXCEPT !.contents = [i \in Offsets |-> IF i \in part THEN data[i] ELSE @[i]]]

clear(b) == [b EXCEPT !.mIndexRangeCache = << >>]

\* Mutant: ranges that are written in part stay.
invalidateRangeInside(b, offset, size) ==
    [b EXCEPT !.mIndexRangeCache =
        Restrict(@, {k \in DOMAIN @ : offset > k.offset \/ offset + size < k.offset + k.count})]

\* Ranges that only touch the part are dropped too.
invalidateRange(b, offset, size) ==
    [b EXCEPT !.mIndexRangeCache =
        Restrict(@, {k \in DOMAIN @ : offset + size < k.offset \/ offset > k.offset + k.count})]

\* New storage.  A mapped buffer stays mapped, and the client's pointer may
\* still reach it.
bufferData(b, data) == clear(Write(b, Offsets, data))

\* copyBufferSubData as well.
bufferSubData(b, offset, size, data) ==
    invalidateRange(Write(b, Part(offset, size), data), offset, size)

map(b) == [clear(b) EXCEPT !.mMapped = TRUE, !.writable = Offsets]

mapRange(b, offset, length, write) ==
    LET mapped == [b EXCEPT !.mMapped = TRUE,
                            !.writable = IF write THEN Part(offset, length) ELSE {}]
    IN  IF write THEN invalidateRange(mapped, offset, length) ELSE mapped

unmap(b) == [b EXCEPT !.mMapped = FALSE, !.writable = {}]

onTransformFeedback(b) == clear(b)

onPixelUnpack(b) == clear(b)

\* The buffer once the range of a key has been asked for.
getIndexRange(b, key) ==
    IF key \in DOMAIN b.mIndexRangeCache THEN b
    ELSE [b EXCEPT !.mIndexRangeCache =
             [k \in DOMAIN @ \cup {key} |-> IF k = key THEN ComputeIndexRange(b.contents, key) ELSE @[k]]]
===============================================================================
