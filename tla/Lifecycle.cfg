CONSTANTS
  Workflows = {w1, w2}
  Controllers = {c1, c2}
  UnverifiedLimit = 1
  WindowLength = 2
  MaxHeight = 6
  MaxFaults = 1
  U32Max = 9
  Heights <- MCHeights
  Guards <- MCGuards
\* Also true of this instance: TypeOK, and as a property
\* HistoryIsKept.
SPECIFICATION MCSpec
SYMMETRY Symmetry
INVARIANTS WithinLimit IntervalsAreTrue MissedIsReported Evidenced
PROPERTIES ExpiryHeedsEvidence ProvedNeverExpires
CHECK_DEADLOCK FALSE
