---------------------------- MODULE ResourceManager ----------------------------
(***************************************************************************)
(* Buffer objects in a share group: the BufferManager that the contexts of *)
(* the group share (src/libANGLE/ResourceManager.h/.cpp), composed of the  *)
(* name allocator and the resource map, the reference counts of the        *)
(* buffers (RefCountObject.h) and the bindings of each context             *)
(* (State.cpp, VertexArray.cpp).                                           *)
(*                                                                         *)
(* A buffer is freed when its last reference goes, whichever context holds *)
(* it: a name may be deleted, and generated again for a second buffer,     *)
(* while another context still has the first one bound.                    *)
(***************************************************************************)
EXTENDS ResourceMap, HandleAllocator

CONSTANTS
    Contexts,
    Buffers,        \* addresses a Buffer can be allocated at
    Targets,        \* the BufferBindings modelled
    OnlyGenerated   \* whether clients bind and delete only names they generated

ASSUME TargetsAssumption == Targets \subseteq {"Array", "ElementArray", "Uniform"}

\* The map and the allocator have the same names, those of a GLuint.
ASSUME SameNamesAssumption == MaxName = MaxHandle

ASSUME GroupAssumption ==
    IsFiniteSet(Contexts) /\ Buffers \cap {nullptr, InvalidPointer} = {}

VARIABLES
    mObjectMap,
    mManagerRefs,   \* ResourceManagerBase::mRefCount; 0 when there is no manager
    mRefCount,      \* per Buffer; 0 when nothing is allocated there
    mId,            \* per Buffer; 0 when nothing is allocated there
    contexts,       \* the contexts of the group
    bound,          \* per context and slot, the buffer the slot refers to
    mVertexArray    \* per context, the current vertex array

bufferVars == <<mRefCount, mId>>
contextVars == <<mManagerRefs, contexts>>
vars == <<allocatorVars, mObjectMap, bufferVars, contextVars, bound, mVertexArray>>

-------------------------------------------------------------------------------
\* The binding points of a context.  Each vertex array has an element array
\* buffer and (here) one vertex binding; Uniform0 is an indexed binding.

VertexArrays == {0, 1}  \* 0 is the default one

Generic(t) == <<t, 0>>
Indexed    == <<"mUniformBuffers", 0>>
Element(v) == <<"mElementArrayBuffer", v>>
Attrib(v)  == <<"mVertexBindings", v>>

Slots ==
    {Generic(t) : t \in Targets}
    \cup (IF "Uniform" \in Targets THEN {Indexed} ELSE {})
    \cup (IF "ElementArray" \in Targets THEN {Element(v) : v \in VertexArrays} ELSE {})
    \cup (IF "Array" \in Targets THEN {Attrib(v) : v \in VertexArrays} ELSE {})

VertexArraySlots(v) == Slots \cap {Element(v), Attrib(v)}

Unbound == [s \in Slots |-> nullptr]

Init ==
    /\ AllocatorInit
    /\ mObjectMap = EmptyMap
    /\ mManagerRefs = 0
    /\ mRefCount = [b \in Buffers |-> 0]
    /\ mId = [b \in Buffers |-> 0]
    /\ contexts = {}
    /\ bound = [c \in Contexts |-> Unbound]
    /\ mVertexArray = [c \in Contexts |-> 0]

-------------------------------------------------------------------------------
\* Reference counting.

\* The number of slots of S that refer to buffer b.
References(slots, S, b) == Cardinality({s \in S : slots[s] = b})

\* The counts when the slots in S are given references to buffer.
addRefs(refs, S, buffer) ==
    [b \in Buffers |-> refs[b] + IF b = buffer THEN Cardinality(S) ELSE 0]

\* The counts when the references that the slots in S of context c have are released.
releaseRefs(refs, c, S) == [b \in Buffers |-> refs[b] - References(bound[c], S, b)]

\* BindingPointer::set on every slot in S of context c, when the counts and
\* names are refs and ids.  The new buffer gets its references first; then the
\* old ones are released, and a buffer whose count that brings to 0 is freed.
SetSlots(c, S, buffer, refs, ids) ==
    LET released == releaseRefs(addRefs(refs, S, buffer), c, S)
    IN  /\ bound' = [bound EXCEPT ![c] =
                         [s \in Slots |-> IF s \in S THEN buffer ELSE @[s]]]
        /\ mRefCount' = released
        /\ mId' = [b \in Buffers |-> IF released[b] = 0 THEN 0 ELSE ids[b]]

-------------------------------------------------------------------------------
\* The manager.

\* Mutants: a new buffer without the manager's reference; without its name.
AllocateNewObjectNoAddRef(buffer, handle) ==
    [refs |-> mRefCount, ids |-> [mId EXCEPT ![buffer] = handle]]
AllocateNewObjectNoName(buffer, handle) ==
    [refs |-> [mRefCount EXCEPT ![buffer] = 1], ids |-> mId]

\* The counts and names once a new buffer has the manager's reference.
AllocateNewObject(buffer, handle) ==
    [refs |-> [mRefCount EXCEPT ![buffer] = 1],
     ids  |-> [mId EXCEPT ![buffer] = handle]]

AllocateEmptyObject ==
    \E h \in Handles :
        /\ allocate(h)
        /\ mObjectMap' = assign(mObjectMap, h, nullptr)

\* checkObjectAllocation for a name without an object: the name is reserved
\* unless the map has it, and gets the new buffer.
NameNewObject(handle, buffer) ==
    /\ IF contains(mObjectMap, handle)
       THEN UNCHANGED allocatorVars
       ELSE reserve(handle)
    /\ mObjectMap' = assign(mObjectMap, handle, buffer)

\* Mutants: the name is not given back; it is given back even if the map does
\* not have it.
deleteObjectKeepsName(handle) ==
    mObjectMap' = erase(mObjectMap, handle) /\ UNCHANGED allocatorVars
deleteObjectAlwaysReleases(handle) ==
    mObjectMap' = erase(mObjectMap, handle) /\ release(handle)

\* deleteObject, but for the reference it releases.
deleteObject(handle) ==
    /\ mObjectMap' = erase(mObjectMap, handle)
    /\ IF contains(mObjectMap, handle)
       THEN release(handle)
       ELSE UNCHANGED allocatorVars

\* Mutant: reset does not reset the name allocator.
resetKeepsNames == mObjectMap' = EmptyMap /\ UNCHANGED allocatorVars

\* reset, but for the references it releases.
reset == mObjectMap' = EmptyMap /\ resetAllocator

-------------------------------------------------------------------------------
\* The operations of a context c.

\* Mutant: a context that shares the manager does not add a reference.
CreateContextNoAddRef(c) ==
    /\ c \notin contexts
    /\ contexts' = contexts \cup {c}
    /\ mManagerRefs' = 1
    /\ UNCHANGED <<allocatorVars, mObjectMap, bufferVars, bound, mVertexArray>>

\* A context joins the group: the first one creates the manager, the others
\* add a reference to it.
CreateContext(c) ==
    /\ c \notin contexts
    /\ contexts' = contexts \cup {c}
    /\ mManagerRefs' = mManagerRefs + 1
    /\ UNCHANGED <<allocatorVars, mObjectMap, bufferVars, bound, mVertexArray>>

\* genBuffers: a name, without an object.
createBuffer(c) ==
    /\ AllocateEmptyObject
    /\ UNCHANGED <<bufferVars, contextVars, bound, mVertexArray>>

\* What bindBuffer and bindBufferRange share: checkObjectAllocation finds the
\* buffer of the name or creates it, then the slots are set to it.
BindSlots(c, S, handle) ==
    /\ \/ /\ handle = 0 \/ query(mObjectMap, handle) # nullptr
          /\ SetSlots(c, S, query(mObjectMap, handle), mRefCount, mId)
          /\ UNCHANGED <<allocatorVars, mObjectMap>>
       \/ /\ handle # 0 /\ query(mObjectMap, handle) = nullptr
          /\ \E buffer \in {b \in Buffers : mRefCount[b] = 0} :
                 LET new == AllocateNewObject(buffer, handle)
                 IN  /\ NameNewObject(handle, buffer)
                     /\ SetSlots(c, S, buffer, new.refs, new.ids)
    /\ UNCHANGED <<contextVars, mVertexArray>>

\* ElementArray is kept in mBoundBuffers and in the current vertex array.
bindBuffer(c, target, handle) ==
    LET container == IF target = "ElementArray" THEN {Element(mVertexArray[c])} ELSE {}
    IN  BindSlots(c, {Generic(target)} \cup container, handle)

bindBufferRange(c, handle) ==
    /\ "Uniform" \in Targets
    /\ BindSlots(c, {Generic("Uniform"), Indexed}, handle)

\* The vertex binding takes the buffer that is bound, which need not have a
\* name any more.
vertexAttribPointer(c) ==
    /\ "Array" \in Targets
    /\ SetSlots(c, {Attrib(mVertexArray[c])}, bound[c][Generic("Array")], mRefCount, mId)
    /\ UNCHANGED <<allocatorVars, mObjectMap, contextVars, mVertexArray>>

bindVertexArray(c, v) ==
    /\ mVertexArray' = [mVertexArray EXCEPT ![c] = v]
    /\ UNCHANGED <<allocatorVars, mObjectMap, bufferVars, contextVars, bound>>

\* Deleting the other vertex array makes the default one current if it was,
\* and releases its buffers.  (Binding it again starts with none.)
deleteVertexArray(c) ==
    /\ mVertexArray' = [mVertexArray EXCEPT ![c] = 0]
    /\ SetSlots(c, VertexArraySlots(1), nullptr, mRefCount, mId)
    /\ UNCHANGED <<allocatorVars, mObjectMap, contextVars>>

\* State::detachBuffer: the generic bindings and the slots of the current
\* vertex array whose buffer has the name.
DetachedSlots(c, handle) ==
    {s \in {Generic(t) : t \in Targets} \cup VertexArraySlots(mVertexArray[c]) :
        bound[c][s] # nullptr /\ mId[bound[c][s]] = handle}

\* The name's buffer is detached from c, the name goes back to the allocator
\* and the manager's reference is released.  The other contexts, the indexed
\* bindings and the vertex arrays that are not current keep the buffer.
deleteBuffer(c, handle) ==
    LET buffer == query(mObjectMap, handle)
    IN  /\ \/ buffer = nullptr /\ UNCHANGED <<bound, bufferVars>>
           \/ /\ buffer # nullptr
              /\ SetSlots(c, DetachedSlots(c, handle), nullptr,
                          [mRefCount EXCEPT ![buffer] = @ - 1], mId)
        /\ deleteObject(handle)
        /\ UNCHANGED <<contextVars, mVertexArray>>

\* Mutant: a context goes without destroying its vertex arrays.
ContextSlotsNoVertexArrays == Slots \ UNION {VertexArraySlots(v) : v \in VertexArrays}

\* What onDestroy sets to null: the vertex arrays' slots and State::reset's.
ContextSlots == Slots

\* The context's bindings go, then its reference to the manager.  The last one
\* resets the manager, which releases every buffer that has a name.
onDestroy(c) ==
    LET last  == mManagerRefs = 1
        named == IF last THEN resources(mObjectMap) ELSE {}
    IN  /\ SetSlots(c, ContextSlots, nullptr,
                    [b \in Buffers |-> mRefCount[b] - (IF b \in named THEN 1 ELSE 0)],
                    mId)
        /\ IF last THEN reset ELSE UNCHANGED <<allocatorVars, mObjectMap>>
        /\ mManagerRefs' = mManagerRefs - 1
        /\ contexts' = contexts \ {c}
        /\ mVertexArray' = [mVertexArray EXCEPT ![c] = 0]

-------------------------------------------------------------------------------
\* The names a client may pass to bind and delete.
ClientNames == IF OnlyGenerated THEN inUse ELSE Handles

Next ==
    \/ \E c \in Contexts : CreateContext(c)
    \/ \E c \in contexts :
           \/ createBuffer(c)
           \/ \E t \in Targets, h \in ClientNames \cup {0} : bindBuffer(c, t, h)
           \/ \E h \in ClientNames \cup {0} : bindBufferRange(c, h)
           \/ vertexAttribPointer(c)
           \/ \E v \in VertexArrays : bindVertexArray(c, v)
           \/ deleteVertexArray(c)
           \/ \E h \in ClientNames : deleteBuffer(c, h)
           \/ onDestroy(c)

Spec == Init /\ [][Next]_vars

-------------------------------------------------------------------------------
Pointers == Buffers \cup {nullptr}

\* The manager's references and the buffers' counts never go below 0.
TypeOK ==
    /\ AllocatorTypeOK
    /\ mObjectMap \in [size  : 1..kFlatResourcesLimit,
                       value : [Names -> Pointers \cup {InvalidPointer}]]
    /\ mManagerRefs = Cardinality(contexts)
    /\ mRefCount \in [Buffers -> Nat]
    /\ mId \in [Buffers -> Names]
    /\ contexts \subseteq Contexts
    /\ bound \in [Contexts -> [Slots -> Pointers]]
    /\ mVertexArray \in [Contexts -> VertexArrays]

\* The references a buffer really has: one for its name and one per slot.
CountedReferences(b) ==
    (IF b \in resources(mObjectMap) THEN 1 ELSE 0)
    + Cardinality({cs \in Contexts \X Slots : bound[cs[1]][cs[2]] = b})

\* A buffer's count is the number of names and bindings that refer to it: no
\* binding of any context is left with a freed buffer, and no buffer outlives
\* its last reference, in whatever order contexts bind, delete and go away.
RefCountExact == \A b \in Buffers : mRefCount[b] = CountedReferences(b)

\* What ResourceMap.h says of contains: "Returns true if the handle was
\* reserved."  isHandleGenerated, checkObjectAllocation and deleteObject take
\* it for that.
ContainsOnlyReserved ==
    \A h \in Handles : contains(mObjectMap, h) => h \in inUse

\* The map and the allocator agree on which names are in use, after any
\* sequence of generated, chosen, deleted and regenerated names.
MapMatchesAllocator ==
    ContainsOnlyReserved /\ \A h \in inUse : contains(mObjectMap, h)

\* A name denotes one buffer and a buffer answers to the name it was created
\* under, also while an older buffer of the same name is still bound somewhere.
NameDenotesOne ==
    \A h \in Handles : LET b == query(mObjectMap, h) IN b # nullptr => mId[b] = h

\* The last context leaves nothing behind: every buffer is freed, every name free.
NothingOutlivesGroup ==
    contexts = {} => /\ \A b \in Buffers : mRefCount[b] = 0
                     /\ inUse = {}

\* The managers keep to the discipline the name allocator relies on: they
\* release only names in use and reserve only names that are not.
AllocatorDiscipline == AllocatorSpec
===============================================================================
