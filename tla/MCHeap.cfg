SPECIFICATION Spec
CONSTANTS
    Objects = {a, t, p}
    Threads = {t}
    Outers = {p}
    Weaks = {w}
    Fields = {f1}
    Delegate = delegate
    Value = f1
    Open = open
    Slots = {s1, s2, s3}
    Locals = {l}
    GcT = gct
    GcN = gcn
    Null = null
SYMMETRY Symmetric
INVARIANTS TypeOK RefCountExact NoDanglingRef WeakRefsMutual ChainLinked SweepSparesReachable SweepSparesMarked
CHECK_DEADLOCK FALSE
