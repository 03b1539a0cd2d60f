SPECIFICATION SettledSpec
CONSTANTS
  Images = {a, b}
  NoImage = none
  Canonical <- AsSpelt
  MaxRevs = 3
  HistoryLimit = 2
  Annotated = TRUE
  MaxEdits = 1
  MaxSwitches = 1
  MaxDeletes = 0
  MaxFaults = 0
  MaxRestarts = 1
  MaxStatus = 1
  SecretLate = 0
INVARIANTS
  RolloutComplete
  HistoryBounded
  GenerationsObserved
  MarkerConsumed
VIEW View
CONSTRAINT TwoEvents
\* at rest the operator has nothing to do until the user acts
CHECK_DEADLOCK FALSE
