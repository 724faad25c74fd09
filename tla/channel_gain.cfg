CONSTANTS
    SEL_MAX = 2
    NFields = 4
    NaN = NaN
    Broken = Broken
    Infinity = 99
    Limits <- MCLimits
    Gains = {0, 1, 2}
    Calibrations <- MCCalibrations
    Constants <- MCConstants
    DefaultVal = 0
    MaxPuts = 4
SPECIFICATION Spec
INVARIANTS
    CalibratedForGain
    OfOneGain
PROPERTY
    SurvivesRestart
