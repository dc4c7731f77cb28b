\* Two threads and contexts; one of the two surfaces is a pbuffer with a
\* texture format.
CONSTANTS
    Threads = {t1, t2}
    Contexts = {c1, c2}
    Surfaces = {s1, s2}
    Texturable = {s1}
    Textures = {x1}
    UserFramebuffer = UserFramebuffer
    null = null
    ImplMayFail = FALSE
SYMMETRY Symmetric
SPECIFICATION Spec
INVARIANTS
    TypeOK
    CurrentCountExact
    DeletedWhenUnused
    DefaultFramebufferLive
    CurrentContextUsable
    ShareGroupExact
    BoundSurfaceHoldsTexture
    NothingAfterTerminate
