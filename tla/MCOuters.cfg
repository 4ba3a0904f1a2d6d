SPECIFICATION Spec
CONSTANTS
    VMs = {main}
    Vars = {u, v, w, x}
    Outers = {o, p, q}
    Closures = {c, d}
    Gens = {g}
    None = none
    FrameSize = 3
    MaxFrames = 2
    MaxBlocks = 2
    MaxCaptures = 1
    InitialSize = 4
    MIN_STACK_OVERHEAD = 1
SYMMETRY Symmetric
INVARIANTS ClosuresReachVariables OpenOutersSorted
