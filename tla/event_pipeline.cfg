CONSTANTS
    NChannels = 2
    MaxEvents = 9
    MaxPending = 6
    MaxLost = 1
    MaxManual = 2
SPECIFICATION FairSpec
CHECK_DEADLOCK FALSE
INVARIANTS
    TypeOK
    BacklogExact
    NoOverrun
PROPERTIES
    ImplementsStream
    Drained
