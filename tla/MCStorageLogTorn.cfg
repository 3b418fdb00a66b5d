SPECIFICATION Spec
CHECK_DEADLOCK FALSE
CONSTANTS
    TidCells = 2
    NumCells = 1
    LenCells = 1
    SpanCells = 2
    BufCells = 6
    MaxSpans = 2
    MaxSpansRead = 2
    MaxRecords = 2
    MaxOpens = 2
    MaxPowerCuts = 0
    WritesFail = FALSE
    ReadsFail = FALSE
    LuckyNumbers = FALSE
    Garbage = Garbage
INVARIANTS
    NoHalfRecordLoaded
