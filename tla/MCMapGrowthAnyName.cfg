\* The flat vector grows, for clients that also use names they did not generate.
CONSTANTS
    MaxName = 3
    MaxHandle = 3
    nullptr = nullptr
    InvalidPointer = InvalidPointer
    kInitialFlatResourcesSize = 2
    kFlatResourcesLimit = 4
    Contexts = {c1, c2}
    Buffers = {b1, b2}
    Targets = {"Uniform"}
    OnlyGenerated = FALSE
SYMMETRY Symmetric
SPECIFICATION Spec
INVARIANTS
    ContainsOnlyReserved
