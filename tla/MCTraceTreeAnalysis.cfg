SPECIFICATION Spec
CHECK_DEADLOCK FALSE
CONSTANTS
    Procs = {p1}
    a = a
    b = b
    c = c
    Kinds <- MCAnalysisKinds
    MaxGroups = 2
    MaxSamples = 5
    MaxTraces = 1
    MaxSpans = 4
    MaxRecords = 2
    MaxStored = 5
INVARIANTS
    AnalysisAsDocumented
