\* Every length of every string, every size of a datagram.
SPECIFICATION Spec
CHECK_DEADLOCK FALSE
CONSTANTS
    HeaderSize = 1
    NameMax = 3
    KeyMax = 2
    ValueMax = 3
    MaxAnnotations = 2
    SlotSize = 9
    WireMax = 11
    PacketMax = 16
    LengthModulus = 5
    ClockModulus = 8
    Micro = 3
    Clock <- MCClock
    ForeignDurations <- MCDurations
INVARIANTS
    TypeOK
    WithinBuffers
    ArrivesAsSent
