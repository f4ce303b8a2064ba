CONSTANTS
  None = None
  Err = Err
  Challenges = {1, 2}
  Algorithms = {1, 2}
  Metas = {1, 2}
  Precommits = {1, 2}
  Inputs <- MCInputs
  Bits = 6
  CountBits = 4
\* Also true of this instance: DrawCoversCandidates SettingsAreSourced.
SPECIFICATION Spec
INVARIANTS ChosenIsLowest BundlesAreAligned
CHECK_DEADLOCK FALSE
