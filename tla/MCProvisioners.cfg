SPECIFICATION ProvisionersSpec
CONSTANTS
    Keys = {k1}
    Tokens = {t1}
    IPs = {a}
    None = None
    MaxUid = 1
    PKI = FALSE
    LocalKeys = {k1, k2}
    NoKey = NoKey
    FromPort = 1
    ToPort = 4
    Addrs = {1}
    MaxAttempts = 3
ACTION_CONSTRAINTS FirstKeyFirst DockerStarts PromptPods
\* The starts of the local backend are bounded.
CHECK_DEADLOCK FALSE
INVARIANTS LocalTypeOK PortsDisjoint EntryHasItsWrapper
PROPERTIES TerminationCompletes 
