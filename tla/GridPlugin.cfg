SPECIFICATION FairSpec
CONSTANTS
    w1 = w1
    None = None
    Levels = 2
    StartingPrice = 100
    Distance = 10
    CrossEnabled = TRUE
    Walk <- MCNoWalk
    Quote <- MCNoQuotes
    MaxOrders = 4
    MaxRepeats = 1
    MaxMishaps = 1
INVARIANTS
    TypeOK
    EnabledGridIsComplete
    LiveIsTracked
    LevelsAlternate
    SubmissionsDoNotOverlap
PROPERTY ClosedIsReplaced
CHECK_DEADLOCK FALSE
