---------------------------- MODULE FiniteCounting ----------------------------
(***************************************************************************)
(* What the proofs of this project use about finite sets and numbers, as   *)
(* one formula.  A module of proofs supposes it, and derives it from the   *)
(* library at its end: the library's many theorems are then no part of the *)
(* context of the other proofs.                                            *)
(***************************************************************************)
EXTENDS Integers, FiniteSets

Counting ==
    /\ IsFiniteSet({})
    /\ \A S : IsFiniteSet(S) => Cardinality(S) \in Nat /\ (Cardinality(S) = 0 <=> S = {})
    /\ \A S, x : IsFiniteSet(S) =>
           /\ IsFiniteSet(S \cup {x})
           /\ Cardinality(S \cup {x}) = IF x \in S THEN Cardinality(S) ELSE Cardinality(S) + 1
    /\ \A S, x : IsFiniteSet(S) =>
           /\ IsFiniteSet(S \ {x})
           /\ Cardinality(S \ {x}) = IF x \in S THEN Cardinality(S) - 1 ELSE Cardinality(S)
    /\ \A S : \A T \in SUBSET S : IsFiniteSet(S) =>
           /\ IsFiniteSet(T)
           /\ Cardinality(T) <= Cardinality(S)
           /\ Cardinality(S) = Cardinality(T) => S = T
    /\ \A S, T : IsFiniteSet(S) =>
           /\ IsFiniteSet(S \ T)
           /\ Cardinality(S \ T) = Cardinality(S) - Cardinality(S \cap T)
    /\ \A S, T : IsFiniteSet(S) /\ IsFiniteSet(T) => IsFiniteSet(S \X T)
    /\ \A a, b \in Int :
           /\ IsFiniteSet(a .. b)
           /\ Cardinality(a .. b) = IF a > b THEN 0 ELSE b - a + 1
    /\ \A T \in SUBSET Nat : T # {} => \E n \in T : \A m \in T : n <= m
===============================================================================
