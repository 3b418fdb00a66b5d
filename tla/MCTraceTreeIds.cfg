SPECIFICATION Spec
CHECK_DEADLOCK FALSE
CONSTANTS
    Procs = {p1, p2}
    a = a
    b = b
    c = c
    Kinds <- MCKinds
    MaxGroups = 2
    MaxSamples = 3
    MaxTraces = 2
    MaxSpans = 3
    MaxRecords = 1
    MaxStored = 4
INVARIANTS
    HierarchyRebuilt
