SPECIFICATION Spec
CONSTANTS
    l1 = l1
    l2 = l2
    Level <- MCLevel
    TrimSize = 2
    MaxBooks = 4
    MaxMs = 4
    MaxGathererFaults = 1
    MaxMagicboxStarts = 1
INVARIANT RestartLoadsEntireState
CHECK_DEADLOCK FALSE
