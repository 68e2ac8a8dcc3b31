SPECIFICATION Spec
CONSTANTS
    o1 = o1
    o2 = o2
    h1 = h1
    h2 = h2
    r1 = r1
    c1 = c1
    None = None
    Order <- MCOneOrder
    Slot <- MCSlot
    Creates <- MCCreates
    Cancels <- MCCancels
    Retries = 2
    MaxExecutorCrashes = 1
    MaxGathererCrashes = 1
    MaxMagicboxCrashes = 1
    MaxRedisFailures = 1
SYMMETRY SlotSymmetry
INVARIANTS
    TypeOK
    RecordedIsAnnounced
    AttributedUnlessRetried
CHECK_DEADLOCK FALSE
