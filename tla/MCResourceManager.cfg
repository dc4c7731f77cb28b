\* Two contexts.  Name 1 is in the flat vector and 2 in the hash map: no name
\* makes the vector grow.
CONSTANTS
    MaxName = 2
    MaxHandle = 2
    nullptr = nullptr
    InvalidPointer = InvalidPointer
    kInitialFlatResourcesSize = 2
    kFlatResourcesLimit = 2
    Contexts = {c1, c2}
    Buffers = {b1, b2}
    Targets = {"Array"}
    OnlyGenerated = FALSE
SYMMETRY Symmetric
SPECIFICATION Spec
INVARIANTS
    TypeOK
    NothingOutlivesGroup
    NameDenotesOne
    MapMatchesAllocator
    RefCountExact
PROPERTY
    AllocatorDiscipline
