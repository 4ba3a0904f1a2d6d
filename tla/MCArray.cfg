\* Arrays of up to five, loops within loops, three kinds of comparison.
SPECIFICATION Spec
CONSTANTS
  Values <- MCValues
  Literals <- MCLiterals
  Compares = {"objcmp", "func", "honest"}
  MaxLen = 4
  MaxNest = 2
  Small = 1
INVARIANTS InBounds 
PROPERTY LoopsEnd
CHECK_DEADLOCK FALSE
