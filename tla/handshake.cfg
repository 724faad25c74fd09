CONSTANTS
    b1 = b1
    b2 = b2
    t1 = t1
    t2 = t2
    evr = evr
    NoSetting = NoSetting
    NoTrigger = NoTrigger
    NoBoard = NoBoard
    Evrs = {evr}
    EvrOf <- OneEvr
    Boards = {b1, b2}
    Triggers = {t1}
    TrigOf <- SharedTrigger
    Settings = {s1, s2}
    Scenarios <- PoliteOrOverlapping
SPECIFICATION FairSpec
CHECK_DEADLOCK FALSE
INVARIANTS
    TypeOK
    LatestApplied
    NoLostWakeup
    Watched
    UseCountExact
    TriggerLent
    FinishedIsApplied
PROPERTIES
    ImplementsMailbox
    WaitConfigCompletes
