CONSTANTS
    Records <- SettingRecords
    MaxConfigs = 1
    MaxTrouble = 0
SPECIFICATION Spec
CHECK_DEADLOCK FALSE
INVARIANT
    DelayAsShown
