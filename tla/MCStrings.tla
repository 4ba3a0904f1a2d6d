----------------------------- MODULE MCStrings ------------------------------
(* GSStrings with a few texts of two characters.                          *)
EXTENDS GSStrings, TLC

MCTexts == {<<1>>, <<2, 1>>, <<1, 2, 1>>}
Symmetric == Permutations(Objs)
=============================================================================
