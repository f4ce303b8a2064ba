CONSTANTS
  Controllers = {c1, c2}
  Reads = {"challenges", "benchmarks"}
  Varying = {"benchmarks"}
  ActiveIds <- MCActiveIds
  Budget = 1
  Attempts = 2
  MaxHeight = 3
  MaxFaults = 3
\* Also true of this instance: TypeOK, and as a property
\* BlockedNeverDecides.
SPECIFICATION MCSpec
SYMMETRY Symmetry
INVARIANTS SnapshotsAreWhole GapRecordIsExact AnchorsAscend DecidesOncePerBlock
CHECK_DEADLOCK FALSE
