SPECIFICATION Spec
CONSTANTS
    VMs = {main}
    Gens = {g}
    None = none
    MAX_NATIVE_CALLS = 3
    InitialCalls = 8
    NotifyAll = FALSE
    MaxFrames = 3
    MaxTraps = 1
    Features = {"foreach"}
SYMMETRY Symmetric
INVARIANT TrapsZeroAtReturn
