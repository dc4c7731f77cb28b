----------------------------- MODULE MCRendererVk ------------------------------
(***************************************************************************)
(* Instances of RendererVk for TLC: a window surface with its default      *)
(* framebuffer, a second window surface, a framebuffer with one texture    *)
(* attached to it, and two buffers, used by one of several clients.        *)
(***************************************************************************)
EXTENDS RendererVk, TLC

CONSTANTS f0, f1, x1, s1, s2

MCFramebuffers == {f0, f1}
MCTextures == {x1}
MCSurfaces == {s1, s2}
MCAttachment == [f \in {f0, f1} |-> IF f = f0 THEN s1 ELSE x1]

Surface == {"createWindowSurface", "swap"}

\* Clients of the operations that store serials: one that draws to the texture,
\* and one that draws to the window from two buffers and destroys the window.
\* Then one that draws from two buffers in other ways, one that samples textures
\* and redefines them, and one that clears and has two windows.
MCClients ==
    {[operations |-> Surface \cup {"data", "texImage", "delete", "draw", "readPixels"},
      handles |-> 6, serials |-> 5],
     [operations |-> TrackedOperations \ {"texImage"}, handles |-> 6, serials |-> 5],
     [operations |-> Surface \cup
         {"data", "delete", "draw", "drawElements", "drawStale"}, handles |-> 6, serials |-> 4],
     [operations |-> Surface \cup
         {"data", "texImage", "draw", "drawTextured", "redefineAttached"}, handles |-> 6, serials |-> 4],
     [operations |-> Surface \cup
         {"data", "texImage", "draw", "clear", "delete", "createWindowSurfaceInPass",
          "destroyWindowSurfaceInUse"}, handles |-> 5, serials |-> 4]}

Symmetric == Permutations(Buffers)
===============================================================================
