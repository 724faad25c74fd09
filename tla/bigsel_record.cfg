CONSTANTS
    SEL_MAX = 3
    NFields = 4
    NaN = NaN
    Broken = Broken
    Infinity = 99
    Limits <- MCLimits
    Values = {1, 2, 3, 4}
    Indices = {0, 1, 2, 3}
SPECIFICATION Spec
INVARIANTS
    TypeOK
    OnlyTheTruthIsValid
    ClientIsCurrent
PROPERTY
    NoFlapping
