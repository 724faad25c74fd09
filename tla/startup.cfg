CONSTANTS
    Names = {b1, b2}
    Ttys = {t1, t2}
    Commands = {"ipimbAdd", "ipimbTprAdd"}
    NoBoard = NoBoard
SPECIFICATION FairSpec
CHECK_DEADLOCK FALSE
INVARIANTS
    TypeOK
    ListedIsComplete
    OrderlyBoot
    LostForCause
PROPERTY
    ReadersRun
