CONSTANTS
  Workflows = {w1}
  Gateways = {g1}
  MaxGeneration = 1
  MaxSends = 1
  UnverifiedLimit = 1
  MaxFaults = 0
  Tuple <- MCTuple
SPECIFICATION MCFairSpec
PROPERTY BoundWriteSettles
