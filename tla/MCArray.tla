------------------------------ MODULE MCArray ------------------------------
\* Instances of GSArray.
EXTENDS GSArray, TLC

int(n) == [type |-> "int", rank |-> n]

MCValues == {int(1), [type |-> "string", rank |-> 1]}

\* Short arrays to change, and longer ones to sort: every order of four, one
\* with equal elements, and one that cannot be ordered.
Literal(vals, n) == [vals |-> vals, ops |-> n]

MCLiterals ==
  {Literal(<<>>, 2), Literal(<<int(1)>>, 2), Literal(<<int(2), int(1)>>, 2),
   Literal(<<int(2), Null, int(1)>>, 2),
   Literal(<<int(2), int(1), int(3), int(1), int(2)>>, 1)}
  \cup {Literal([i \in 1..4 |-> int(p[i])], 1) : p \in Permutations(1..4)}
=============================================================================
