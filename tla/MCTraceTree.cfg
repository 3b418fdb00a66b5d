SPECIFICATION Spec
CHECK_DEADLOCK FALSE
SYMMETRY Symmetry
CONSTANTS
    Procs = {p1, p2}
    a = a
    b = b
    c = c
    Kinds <- MCKinds
    MaxGroups = 2
    MaxSamples = 2
    MaxTraces = 2
    MaxSpans = 3
    MaxRecords = 2
    MaxStored = 3
INVARIANTS
    TypeOK
    OneDecisionPerTrace
    HierarchyFromDistinctIds
    WalkedAsLinked
    AggregatedAsDefined
