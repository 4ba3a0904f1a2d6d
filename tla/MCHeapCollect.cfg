SPECIFICATION FairSpec
CONSTANTS
    Objects = {a, b, c}
    Threads = {}
    Outers = {}
    Weaks = {}
    Fields = {f1, delegate}
    Delegate = delegate
    Value = value
    Open = open
    Slots = {s1, s2}
    Locals = {}
    GcT = gct
    GcN = gcn
    Null = null
INVARIANTS DelegatesAcyclic TeardownFreesAll
PROPERTY CollectFreesGarbage CollectionEnds
CHECK_DEADLOCK FALSE
