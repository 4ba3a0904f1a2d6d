\* One search with each pattern.
SPECIFICATION Spec
CONSTANTS
  Patterns <- MCPatterns
  RawPatterns <- MCRaw
  Texts <- MCTexts
  MaxRep = 5
  MaxSearches = 1
INVARIANTS MatchSound SearchComplete NodesFit
CHECK_DEADLOCK FALSE
