SPECIFICATION WrapperSpec
CONSTANTS
    Calls = {c1, c2}
    ChildTokens = {t1}
    Secrets = {s1}
    None = None
    TokenMode = "env"
    MaxRestarts = 1
    MaxGeneration = 3
    MaxCrashes = 1
    HttpCalls = {h1, h2}
    MaxProcs = 2
\* The generations and processes of a behaviour are bounded.
CHECK_DEADLOCK FALSE
INVARIANTS WrapperTypeOK HeldSessionKept RotationKept ListsOfOwnSession OneServer 
PROPERTIES DeadChildDropped 
