SPECIFICATION HistorySpec
CONSTANTS
  Requests = {q1, q2}
  IdleTimeout = 1
  MaxAge = 6
  HardGrace = 1
  TTL = 3
  Interval = 1
  MaxTime = 8
  MaxBlips = 1
  MaxUnready = 1
  MaxLost = 1
  Pruning = FALSE
SYMMETRY Symmetry
INVARIANTS CrashedCountExpires
\* The Session ends, and the clock is bounded.
CHECK_DEADLOCK FALSE
