---------------------------- MODULE ArrayFilter ----------------------------
(* The filter method of arrays, by the positions of what it keeps.         *)
EXTENDS Integers, Sequences, FiniteSets

\* The elements of s at the positions kept, in the order of s.
InOrder(s, kept) ==
  [i \in 1 .. Cardinality(kept) |->
     s[CHOOSE k \in kept : Cardinality({j \in kept : j < k}) = i - 1]]
============================================================================
