----------------------------- MODULE MCPathManager -----------------------------
(***************************************************************************)
(* PathManager with a narrow GLuint.                                       *)
(***************************************************************************)
EXTENDS PathManager
===============================================================================
