SPECIFICATION FairSpec
CONSTANTS
    o1 = o1
    o2 = o2
    h1 = h1
    h2 = h2
    r1 = r1
    c1 = c1
    None = None
    Order <- MCOneOrder
    Slot <- MCOneSlot
    Creates <- MCCreates
    Cancels <- MCCancels
    Retries = 1
    MaxExecutorCrashes = 0
    MaxGathererCrashes = 0
    MaxMagicboxCrashes = 0
    MaxRedisFailures = 0
PROPERTY EventuallyFinal
CHECK_DEADLOCK FALSE
