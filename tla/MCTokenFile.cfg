SPECIFICATION Spec
CONSTANTS
    Calls = {c1, c2}
    ChildTokens = {t1, t2}
    Secrets = {}
    None = None
    TokenMode = "file"
    MaxRestarts = 1
    MaxGeneration = 3
    MaxCrashes = 2
CHECK_DEADLOCK FALSE
PROPERTIES FileRewrittenPerRequest
