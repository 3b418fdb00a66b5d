\* Another thread reads the statistics: violated.
CONSTANTS
    Capacity = 3
    MaxSpans = 3
    MaxStarts = 1
    StatsBy = "other"
    WireLen <- MCWireLen
SPECIFICATION Spec
INVARIANT
    SnapshotConsistent
CHECK_DEADLOCK FALSE
