------------------------------- MODULE MCHeap -------------------------------
(* GSHeap with sets of model values.                                       *)
EXTENDS GSHeap, TLC

Symmetric == Permutations(Plain) \cup Permutations(Slots)
=============================================================================
