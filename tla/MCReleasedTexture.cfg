\* Two pbuffers bound to one texture, one after the other.
CONSTANTS
    Threads = {t1}
    Contexts = {c1}
    Surfaces = {s1, s2}
    Texturable = {s1, s2}
    Textures = {}
    UserFramebuffer = UserFramebuffer
    null = null
    ImplMayFail = FALSE
SYMMETRY Symmetric
SPECIFICATION Spec
PROPERTY ReleasedTextureIsBound
