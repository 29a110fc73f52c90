CONSTANTS
    SampleWindow = 200
    Samples <- MCSamples
    MaxMarks = 6
    Coefficients <- MCCoefficients
    MaxOrder = 3
    Points <- MCPoints
    kPi = 6
    MaxTurns = 3
SPECIFICATION Spec
INVARIANTS
    TargetIsNearest
    WindowHoldsTarget
    PolynomialsAreRight
PROPERTIES
    WindowIsExact
    UnrollsWithoutJumps
CHECK_DEADLOCK FALSE
