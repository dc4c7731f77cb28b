--------------------------- MODULE MCHandleAllocator ---------------------------
(***************************************************************************)
(* HandleAllocator with a small greatest name.                             *)
(***************************************************************************)
EXTENDS HandleAllocator
===============================================================================
