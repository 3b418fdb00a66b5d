SPECIFICATION Spec
CHECK_DEADLOCK FALSE
CONSTANTS
    TidCells = 2
    NumCells = 1
    LenCells = 1
    SpanCells = 2
    BufCells = 6
    MaxSpans = 3
    MaxSpansRead = 2
    MaxRecords = 2
    MaxOpens = 3
    MaxPowerCuts = 2
    WritesFail = TRUE
    ReadsFail = TRUE
    LuckyNumbers = TRUE
    Garbage = Garbage
INVARIANTS
    TypeOK
    SoundPrefixLoaded
    NothingSkipped
    FlushedIsReadable
