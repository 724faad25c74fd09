CONSTANTS
    b1 = b1
    b2 = b2
    t1 = t1
    t2 = t2
    evr = evr
    NoSetting = NoSetting
    NoTrigger = NoTrigger
    NoBoard = NoBoard
    Evrs = {evr}
    EvrOf <- OneEvr
    Boards = {b1, b2}
    Triggers = {t1}
    TrigOf <- SharedTrigger
    Settings = {s1}
    Scenarios <- PoliteOnce
SPECIFICATION Spec
CHECK_DEADLOCK FALSE
INVARIANT
    TriggerRestored
