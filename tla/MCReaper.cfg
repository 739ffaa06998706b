SPECIFICATION FairSpec
CONSTANTS
  Requests = {q1}
  IdleTimeout = 1
  MaxAge = 6
  HardGrace = 1
  TTL = 7
  Interval = 1
  MaxTime = 8
  MaxBlips = 1
  MaxUnready = 1
  MaxLost = 1
  Pruning = TRUE
\* The Session ends, and the clock is bounded.
CHECK_DEADLOCK FALSE
INVARIANTS TypeOK 
PROPERTIES HardStop
