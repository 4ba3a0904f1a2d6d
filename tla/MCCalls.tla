------------------------------ MODULE MCCalls -------------------------------
(* GSCalls with sets of model values.                                      *)
EXTENDS GSCalls, TLC

Symmetric == Permutations(VMs) \cup Permutations(Gens)
=============================================================================
