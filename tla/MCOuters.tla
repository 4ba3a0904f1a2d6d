------------------------------ MODULE MCOuters ------------------------------
(* GSOuters with sets of model values.                                     *)
EXTENDS GSOuters, TLC

Symmetric ==
    Permutations(VMs) \cup Permutations(Vars) \cup Permutations(Outers)
    \cup Permutations(Closures) \cup Permutations(Gens)
=============================================================================
