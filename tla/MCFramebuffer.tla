----------------------------- MODULE MCFramebuffer -----------------------------
(***************************************************************************)
(* Two contexts that share one texture, used by one of two clients.        *)
(***************************************************************************)
EXTENDS Framebuffer, TLC

\* A client of two levels, and one of a single level that changes its draw
\* buffers.
MCClients ==
    {[operations |-> {}, level |-> 1], [operations |-> {"drawBuffers"}, level |-> 0]}

Symmetric == Permutations(Contexts)
===============================================================================
