SPECIFICATION FairSpec
CONSTANTS
    MaxOrders = 4
    MaxWaiting = 1
    MaxFaults = 2
    MaxRestarts = 1
INVARIANTS
    TypeOK
    OpenIsAttended
    AtMostOneAttended
PROPERTY TickEnds
CHECK_DEADLOCK FALSE
