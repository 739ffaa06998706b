SPECIFICATION SystemSpec
CONSTANTS
    Keys = {k1}
    Tokens = {t1, t2}
    IPs = {a}
    None = None
    MaxUid = 1
    PKI = FALSE
    Replicas = {g1}
    Requests = {q1, q2}
    Scenarios = {{}}
ACTION_CONSTRAINT PromptInformers
CHECK_DEADLOCK FALSE
INVARIANTS RouteTokenIsPodToken
