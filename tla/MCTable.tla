------------------------------ MODULE MCTable -------------------------------
(* GSTable with hashes that collide at 4 nodes, at 8 nodes, at both.       *)
EXTENDS GSTable, TLC

CONSTANTS k1, k2, k3, k4, k5

\* Mod 4: three keys at 3, two at 0; mod 8: k1 and k2 still together.
HashOf == [k \in {k1, k2, k3, k4, k5} |->
             CASE k = k1 -> 3 [] k = k2 -> 11 [] k = k3 -> 7
               [] k = k4 -> 0 [] k = k5 -> 4]
KeyHash == [k \in Keys |-> HashOf[k]]

Symmetric == Permutations(Vals)
=============================================================================
