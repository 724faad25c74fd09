CONSTANTS
    Frames <- MCFrames
    Noise <- MCNoise
    MaxRun = 4
    ReadSizes = {5, 48}
SPECIFICATION Spec
CHECK_DEADLOCK FALSE
INVARIANTS
    TypeOK
    FoundAgain
    CrcIsPolynomial
PROPERTY
    ImplementsFrameLine
