SPECIFICATION Spec
CONSTANTS
    MaxLevel = 1
    Contexts = {c1, c2}
    Textures = {t1}
    null = null
    Clients <- MCClients
SYMMETRY Symmetric
INVARIANTS
    StatusFresh
    NeedsInitKnown
    InitStateExact
