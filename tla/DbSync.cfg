SPECIFICATION FairSpec
CONSTANTS
    w1 = w1
    w2 = w2
    w3 = w3
    Worker <- MCWorker
    Listed <- MCListed
    Sizes = {0, 2}
    MaxRows = 2
    TrimSize = 2
    MaxMessages = 3
    MaxReaders = 2
    MaxFaults = 1
    MaxCopies = 3
INVARIANTS
    TypeOK
    CopiesExplained
    NothingSkipped
PROPERTIES
    EventuallyStored
    IsDelivery
CHECK_DEADLOCK FALSE
