CONSTANTS
    Registers = {r1, r2}
    Values = {v1, v2}
    v1 = v1
    PowerUp = v1
    NoRegister = NoRegister
    BAD_VALUE = BAD_VALUE
    Garbage = Garbage
    QSize = 3
    Tries = 5
    MaxReads = 2
    MaxWrites = 1
    MaxLost = 5
    MaxTrouble = 3
SPECIFICATION FairSpec
CHECK_DEADLOCK FALSE
INVARIANTS
    TypeOK
    UnreadForCause
    GivesUpForCause
PROPERTIES
    ImplementsPort
    EveryReadReturns
