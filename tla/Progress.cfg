CONSTANTS
  None = None
  Torn = Torn
  Garbled = Garbled
  Workflows = {w1}
  Gateways = {g1, g2}
  MaxGeneration = 1
  MaxSends = 1
  UnverifiedLimit = 1
  MaxFaults = 1
  Tuple <- MCTuple
  Controllers = {c1}
  WindowLength = 3
  MaxHeight = 4
  U32Max = 9
  IngestionHeight = 2
  Budget = 1
  AssemblyAttempts = 2
  Artifacts = {a1}
  Bodies = {good}
  WellFormed = {good}
  MaxAttempts = 2
  Handlers = {h1}
  Size = 2
  u1 = u1
  p1 = p1
  x = x
SPECIFICATION Progress
PROPERTIES LostAnswerSettled ConfirmedIsBound UnfinishedWorkEnds LatestBecomesUsable
PROPERTIES LostCommitmentSettled 
CHECK_DEADLOCK FALSE
