CONSTANTS
  None = None
  Calls = {c1, c2}
  Latest = {u}
  Pinned = {p, q}
  Rate = 1
  Burst = 2
  MaxConcurrent = 1
  Deadline = 2
  AttemptTimeout = 1
  MaxBackoff = 2
  MaxAttempts = 2
  BackoffBase = 1
  Capacity = 1
  Ages = {2}
  Delays = {1, 3}
  MaxTime = 3
  Processes = {controller, gateway}
  Clients = {k1, k2, k3}
  Fields = {rate, burst}
  Values = {1, 2}
  Bits = 2
  Wraps = FALSE
SYMMETRY Symmetry
\* Also true of this instance: TypeOK PausesAreKept TransfersAreBounded
\* AnswersAreFresh.
SPECIFICATION MCSpec
INVARIANTS TokensArePaced CallsMeetTheirDeadline PoolStaysWithinCeiling
CHECK_DEADLOCK FALSE
