SPECIFICATION FairSpec
CONSTANTS
    l1 = l1
    l2 = l2
    Level <- MCOneLevel
    TrimSize = 2
    MaxBooks = 4
    MaxMs = 4
    MaxGathererFaults = 1
    MaxMagicboxStarts = 1
INVARIANTS
    TypeOK
    CaughtUpIsCurrent
    SpoiltOnlyBeforeSnapshot
    StreamsDescribeTheBook
PROPERTY EventuallyCurrent
CHECK_DEADLOCK FALSE
