\* Two traces of one chain, two packets against a limit of one a second, a
\* restart, a timeout of one second on a clock of one tick a second; memory,
\* threads, sockets and writes all fail.  Scheduling is fair and time passes.
SPECIFICATION FairSpec
CHECK_DEADLOCK FALSE
CONSTANTS
    a = a
    b = b
    Traces = {a, b}
    SpanInputs <- MCSpanInputs
    NumBuckets = 1
    Hash <- MCHash
    MaxTraces = 2
    MaxSpansPerTrace = 2
    Timeouts = {0, 1}
    BatchSizes = {2}
    TicksPerSec = 1
    MaxTicks = 1
    MaxInserts = 2
    MemoryFails = TRUE
    TimeoutSec = 1
    FlushCount = 2
    MaxPacketsPerSec = 1
    BadPackets = {"invalid", "unauthorized"}
    MaxPackets = 2
    MaxStarts = 2
    MaxStatsStarts = 1
    ThingsFail = TRUE
INVARIANTS
    PacketsAccounted
    TracesAccounted
    StopPersistsAll
    OneFlusher
    RateLimitExact
    StatsBehindByOne
PROPERTIES
    ImplementsMap
    StopReturns
    InactiveWritten
