--------------------------- MODULE MCResourceManager ---------------------------
EXTENDS ResourceManager, TLC

Symmetric == Permutations(Contexts) \cup Permutations(Buffers)
===============================================================================
