SPECIFICATION Spec
CONSTANTS
    VMs = {main, thread}
    Gens = {g}
    None = none
    MAX_NATIVE_CALLS = 2
    InitialCalls = 1
    NotifyAll = FALSE
    MaxFrames = 2
    MaxTraps = 0
    Features = {"foreach", "apiresume", "apitailcall", "stackfull", "moves"}
SYMMETRY Symmetric
INVARIANTS NativeCallsExact 
CHECK_DEADLOCK FALSE
