CONSTANTS
  Workflows = {w1}
  Gateways = {g1, g2}
  Artifacts = {a1}
  Bodies = {good, bad}
  WellFormed = {good}
  MaxAttempts = 2
  Served = {"cpu"}
  Types = {"cpu", "gpu"}
  MaxBlock = 2
  MaxChanges = 2
  Tasks = {t1, t2}
  Causes = {authentication, compatibility}
  Gap = 2
  MaxTime = 7
  MaxGrants = 3
  None = None
\* Also true of this instance: TypeOK FirstCauseStays SlotsArePaced, and as a property
\* StubNeverPromoted.
SPECIFICATION Spec
SYMMETRY Symmetry
INVARIANTS CommitmentsAreTrue  InFlightCounts
CHECK_DEADLOCK FALSE
