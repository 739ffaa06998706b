SPECIFICATION Spec
CONSTANTS
    Keys = {k1}
    Tokens = {t1}
    IPs = {a}
    None = None
    MaxUid = 2
    PKI = FALSE
INVARIANTS TypeOK NoLeakedPod IsolationBeforePod 
PROPERTIES TerminationIrrevocable
