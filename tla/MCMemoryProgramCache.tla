------------------------ MODULE MCMemoryProgramCache ------------------------
(* Three clients: one that binds locations, one that changes the source, and   *)
(* one that meets binaries of several sizes and several limits.                *)
EXTENDS MemoryProgramCache

MCClients == {
    [sources |-> {"a"}, attributes |-> {1}, uniforms |-> {1}, sizes |-> {1}, limits |-> {1}],
    [sources |-> {"a", "b", "bad"}, attributes |-> {}, uniforms |-> {}, sizes |-> {1}, limits |-> {1}],
    [sources |-> {"a"}, attributes |-> {1}, uniforms |-> {}, sizes |-> {1, 2}, limits |-> {1, 3}]}
=============================================================================
