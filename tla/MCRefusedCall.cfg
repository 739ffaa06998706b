SPECIFICATION RouterSpec
CONSTANTS
    Clients = {u1}
    RTypes = {t1}
    RCalls = {c1}
    MaxUps = 1
    MaxConfig = 1
CHECK_DEADLOCK FALSE
INVARIANTS EveryCallAudited
