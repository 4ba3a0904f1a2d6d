SPECIFICATION Spec
CONSTANTS
    k1 = k1
    k2 = k2
    k3 = k3
    k4 = k4
    k5 = k5
    Keys = {k1, k2, k3, k4, k5}
    Vals = {v, w}
    Null = null
    MINPOWER2 = 4
    Hash <- KeyHash
SYMMETRY Symmetric
INVARIANTS NodesSound KeysFindable ForeachVisitsAll
PROPERTY RefinesDict
