---------------------------- MODULE Subsequences ----------------------------
(***************************************************************************)
(* What is left of an array when a loop has taken elements out of it and   *)
(* moved the others up.                                                    *)
(***************************************************************************)
EXTENDS Integers, Sequences, FiniteSets

\* The elements of s at the places of the set I, in their order.
Subsequence(s, I) ==
    [n \in 1 .. Cardinality(I) |-> s[CHOOSE i \in I : Cardinality(I \cap 1 .. i) = n]]
=============================================================================
