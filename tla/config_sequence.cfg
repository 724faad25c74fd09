CONSTANTS
    Records <- SettingRecords
    MaxConfigs = 2
    MaxTrouble = 2
SPECIFICATION Spec
CHECK_DEADLOCK FALSE
INVARIANTS
    TypeOK
    OkMeansProgrammed
    RejectedForCause
