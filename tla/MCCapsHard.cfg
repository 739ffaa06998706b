SPECIFICATION Spec
CONSTANTS
    Users = {u1}
    Types = {x1, x2}
    Requests = {q1, q2}
    PodsPerUser = 1
    MaxPods = 2
    TotalPods = 2
CHECK_DEADLOCK FALSE
INVARIANTS CapsHard
