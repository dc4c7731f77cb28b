SPECIFICATION Spec
CONSTANTS
    Names = {n1, n2, n3}
    BufferSize = 3
    Indices = {0, 1}
    Contexts = {c1, c2}
    Feedbacks = {1}
    nullptr = nullptr
    Clients <- MCClients
SYMMETRY Symmetric
INVARIANTS
    ReferencesCounted
    ExecutableInstalled
    FeedbackProgramKept
    CachedRangesExact
