\* Two chains, three traces, caps that bite, a clock of two ticks a second:
\* the borrow of the nanoseconds, a scan with a stale clock, and a final
\* flush (timeout 0) all occur.
CONSTANTS
    a = a
    b = b
    c = c
    Traces = {a, b, c}
    SpanInputs <- MCSpanInputs
    NumBuckets = 2
    Hash <- MCHash
    MaxTraces = 2
    MaxSpansPerTrace = 2
    Timeouts = {0, 1}
    BatchSizes = {1, 2}
    TicksPerSec = 2
    MaxTicks = 3
    MaxInserts = 3
    MemoryFails = TRUE
SPECIFICATION MapSpec
INVARIANTS
    MapWellFormed
    SpansConserved
    SplitOnlyByInactivity
PROPERTIES
    ScanExhaustive
    ImplementsSessions
CHECK_DEADLOCK FALSE
