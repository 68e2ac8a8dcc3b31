SPECIFICATION FairSpec
CONSTANTS
    o1 = o1
    o2 = o2
    h1 = h1
    h2 = h2
    r1 = r1
    c1 = c1
    None = None
    Order <- MCOrder
    Slot <- MCOneSlot
    Creates <- MCCreates
    Cancels <- MCNoCancels
    Retries = 2
    MaxExecutorCrashes = 1
    MaxGathererCrashes = 0
    MaxMagicboxCrashes = 0
    MaxRedisFailures = 0
PROPERTY EventuallyListed
CHECK_DEADLOCK FALSE
