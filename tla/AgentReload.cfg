SPECIFICATION FairSpec
CONSTANTS
    t1 = t1
    t2 = t2
    Settings <- MCSettings
    MaxWrites = 3
    MaxLost = 1
    MaxStarts = 1
    MaxFailures = 1
INVARIANTS
    TypeOK
    SettledRunsItsConfiguration
    NothingEscapes
PROPERTIES
    EventuallyAdjusted
    IsMirror
CHECK_DEADLOCK FALSE
