SPECIFICATION SystemSpec
CONSTANTS
    Keys = {k1, k2}
    Tokens = {t1, t2}
    IPs = {a}
    None = None
    MaxUid = 2
    PKI = FALSE
    Replicas = {g1}
    Requests = {q1}
    Scenarios = {{"podLost", "release"},
                 {"abandon", "ensureError", "release", "gatewayCrash", "storeLoss"},
                 {"abort", "reap", "kubelet", "podLost"}}
SYMMETRY Symmetry
ACTION_CONSTRAINTS PromptInformers SmallWhenFaulty
INVARIANTS SystemTypeOK ServedByOwnPod
PROPERTIES Spec
CHECK_DEADLOCK FALSE
