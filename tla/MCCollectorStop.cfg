\* The same collector, and what collector.h:305 says of collector_stop: after a
\* start that failed once the receiver had run, it is not so.
SPECIFICATION Spec
CHECK_DEADLOCK FALSE
CONSTANTS
    a = a
    b = b
    Traces = {a, b}
    SpanInputs <- MCSpanInputs
    NumBuckets = 1
    Hash <- MCHash
    MaxTraces = 2
    MaxSpansPerTrace = 2
    Timeouts = {0, 1}
    BatchSizes = {2}
    TicksPerSec = 1
    MaxTicks = 1
    MaxInserts = 2
    MemoryFails = TRUE
    TimeoutSec = 1
    FlushCount = 2
    MaxPacketsPerSec = 1
    BadPackets = {"invalid", "unauthorized"}
    MaxPackets = 2
    MaxStarts = 2
    MaxStatsStarts = 1
    ThingsFail = TRUE
INVARIANTS
    StopDrains
