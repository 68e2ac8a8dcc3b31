SPECIFICATION Spec
CONSTANTS
    w1 = w1
    None = None
    Levels = 2
    StartingPrice = 100
    Distance = 10
    CrossEnabled = FALSE
    Walk <- MCOneWalk
    Quote <- MCOneSided
    MaxOrders = 3
    MaxRepeats = 1
    MaxMishaps = 1
INVARIANT ReplacedAtMostOnce
CHECK_DEADLOCK FALSE
