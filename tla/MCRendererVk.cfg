SPECIFICATION Spec
SYMMETRY Symmetric
CONSTANTS
    null = null
    f1 = f1
    x1 = x1
    f0 = f0
    s1 = s1
    s2 = s2
    Buffers = {b1, b2}
    Textures <- MCTextures
    Surfaces <- MCSurfaces
    Framebuffers <- MCFramebuffers
    attachment <- MCAttachment
    NumHandles = 7
    Clients <- MCClients
CHECK_DEADLOCK FALSE
INVARIANTS
    NoDestroyInUse
    SerialRecorded
    RenderPassOpen
    HandleHeldOnce
    PendingCommandsKept
    CommandsMatchFences
