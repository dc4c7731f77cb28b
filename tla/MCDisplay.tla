------------------------------- MODULE MCDisplay -------------------------------
(***************************************************************************)
(* Display for TLC.  Surfaces are interchangeable only with surfaces of    *)
(* the same kind.                                                          *)
(***************************************************************************)
EXTENDS Display, TLC

Symmetric ==
    Permutations(Threads) \cup Permutations(Contexts)
    \cup Permutations(Texturable) \cup Permutations(Surfaces \ Texturable)
===============================================================================
