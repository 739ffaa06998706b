SPECIFICATION GatewaySpec
CONSTANTS
    Bearers = {u1, u2}
    Audiences = {a1}
    Calls = {q1, q2}
    Interval = 2
    QueryTimeout = 1
    MinRemaining = 1
    CacheTTL = 2
    MaxClock = 3
    Users = {u1, u2}
    Types = {x1, x2, x3}
    Requests = {q1, q2}
    PodsPerUser = 1
    MaxPods = 1
    TotalPods = 2
    Subjects = {s1}
    Adapters = {a1, a2}
    Reqs = {q1, q2}
    Ids = {1}
    MaxInc = 2
    Clients = {u1, u2}
    RTypes = {t1}
    RCalls = {q1, q2}
    MaxUps = 2
    MaxConfig = 2
    SAdapters = {b1, b2}
    This = b1
    SNames = {n1, n2}
    SReqs = {p1}
    MaxGen = 2
SYMMETRY Symmetry
CHECK_DEADLOCK FALSE
INVARIANTS
    GatewayTypeOK  OvershootMemory   
     ChildSecrets
