CONSTANTS
  Workflows = {w1, w2}
  Gateways = {g1, g2}
  MaxGeneration = 2
  MaxSends = 2
  UnverifiedLimit = 2
  MaxFaults = 1
  Tuple <- MCTuple
\* Also true of this instance: TypeOK.
SPECIFICATION MCSpec
SYMMETRY Symmetry
INVARIANTS AtMostOneBenchmark LedgerIsTrue OneRequestUnderWay BoundToOwnWrite
PROPERTIES KeepsPromise
