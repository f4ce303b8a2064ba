\* The clock and the fences are bounded, so runs end.
CONSTANTS
  Workflows = {w1, w2}
  Gateways = {g1, g2}
  Duration = 2
  MaxFence = 5
  MaxTime = 4
\* Also true of this instance: TypeOK.
SPECIFICATION Spec
SYMMETRY Symmetry
INVARIANTS Inv
PROPERTIES ImplementsFencedLease
CHECK_DEADLOCK FALSE
