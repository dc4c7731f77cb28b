------------------------------ MODULE HandlePool ------------------------------
(***************************************************************************)
(* What a GL name allocator promises, without saying how free names are    *)
(* stored: the set of names in use, a step that hands out any unused name, *)
(* one that claims a name the caller chose, one that gives a name back and *)
(* one that gives all of them back.                                        *)
(***************************************************************************)
CONSTANT Handles

VARIABLES
    inUse,  \* the names that have a holder
    taken   \* the name the last Take handed out: giving a name to a second
            \* holder changes it, and is no step of the pool

vars == <<inUse, taken>>

Init == inUse = {} /\ taken = 0

Take == \E h \in Handles \ inUse : inUse' = inUse \cup {h} /\ taken' = h

Give == \E h \in inUse : inUse' = inUse \ {h} /\ UNCHANGED taken

Clear == inUse' = {} /\ UNCHANGED taken

Next == Take \/ Give \/ Clear

Spec == Init /\ [][Next]_vars
===============================================================================
