SPECIFICATION Spec
CONSTANTS
    x1 = x1
    k1 = k1
    p1 = p1
    r1 = r1
    r2 = r2
    g1 = g1
    None = None
    Exchange <- MCExchange
    Credential <- MCCredential
    Plan <- MCPlan
    Request <- MCRequest
    Page <- MCPage
    Workplan <- MCWorkplan
    Pairs = 2
    MaxFetches = 1
    MaxChanges = 3
    MaxDeaths = 1
SYMMETRY Symmetry
INVARIANTS
    TypeOK
    LoneSaveAgrees
PROPERTY StatusFollowsRequests
CHECK_DEADLOCK FALSE
