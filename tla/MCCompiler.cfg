SPECIFICATION Spec
CONSTANTS
    Languages <- MCLanguages
    MaxFns = 2
    MaxInc = 2
    Features = {}
INVARIANTS
    TargetsAreTemps
    StatementBalanced
    CallArgsContiguous
    TrapCountsLexical
    FoldsSound
CHECK_DEADLOCK FALSE
