CONSTANTS
  Controllers = {c1}
  Reads = {"benchmarks"}
  Varying = {}
  ActiveIds <- MCActiveIds
  Budget = 2
  Attempts = 1
  MaxHeight = 2
  MaxFaults = 1
SPECIFICATION MCSpec
INVARIANT KnownFromEarlierRun
CHECK_DEADLOCK FALSE
