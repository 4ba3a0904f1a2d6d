SPECIFICATION Spec
CONSTANTS
    Objs = {o, p, q}
    None = none
    Texts <- MCTexts
    MaxLen = 3
    MaxCount = 2
    SampledFrom = 2
    InitSlots = 1
SYMMETRY Symmetric
INVARIANTS Interned NodesPartitioned
PROPERTY ImplementsHostRefs
