SPECIFICATION Spec
CONSTANTS
    VMs = {main}
    Gens = {g, h}
    None = none
    MAX_NATIVE_CALLS = 3
    InitialCalls = 2
    NotifyAll = FALSE
    MaxFrames = 3
    MaxTraps = 2
    Features = {}
SYMMETRY Symmetric
INVARIANTS FramesSound SuspendedQuiet
PROPERTIES CallRestoresStack HandlerHearsUncaught
