\* Two usable slots, four spans, one restart: spans submitted before the
\* start, between stop and restart, refused, and drained on stop.  The
\* submitting thread reads the statistics once.
SPECIFICATION FairSpec
CHECK_DEADLOCK FALSE
CONSTANTS
    Capacity = 3
    MaxSpans = 4
    MaxStarts = 2
    StatsBy = "app"
    WireLen <- MCWireLen
INVARIANTS
    TypeOK
    NoSlotRace
    DeliveredIntact
    DrainedOnExit
    SpansAccounted
    SunkInOrder
PROPERTIES
    ImplementsRing
    ImplementsChannel
    StopReturns
    AcceptedReachesSink
