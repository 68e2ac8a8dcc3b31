SPECIFICATION FairSpec
CONSTANTS
    a = a
    b = b
    v = v
    w = w
    Token = {a, b}
    Value = {v, w}
    Holdings <- MCHoldings
    Opening <- MCOpening
    NSymbols = 2
    Quit = 0
    MaxChanges = 2
    MaxErrors = 3
    MaxFaults = 1
    MaxWrites = 1
INVARIANTS
    TypeOK
    KnownIsPublished
PROPERTY StreamFollowsAccount
CHECK_DEADLOCK FALSE
