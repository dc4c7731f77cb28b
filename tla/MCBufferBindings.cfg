\* One context with two vertex arrays.  Name 2 makes the flat vector grow from
\* 2 to 4, past name 3.
CONSTANTS
    MaxName = 3
    MaxHandle = 3
    nullptr = nullptr
    InvalidPointer = InvalidPointer
    kInitialFlatResourcesSize = 2
    kFlatResourcesLimit = 4
    Contexts = {c1}
    Buffers = {b1, b2}
    Targets = {"ElementArray", "Uniform"}
    OnlyGenerated = TRUE
SYMMETRY Symmetric
SPECIFICATION Spec
INVARIANTS
    NothingOutlivesGroup
    RefCountExact
