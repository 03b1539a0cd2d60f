SPECIFICATION FreshFairSpec
CONSTANTS
  Images = {a, b}
  NoImage = none
  Canonical <- AsSpelt
  MaxRevs = 2
  HistoryLimit = 1
  Annotated = FALSE
  MaxEdits = 0
  MaxSwitches = 0
  MaxDeletes = 1
  MaxFaults = 1
  MaxRestarts = 0
  MaxStatus = 0
  SecretLate = 1
PROPERTIES
  LifecycleSpec
  TeardownCompletes
\* at rest the operator has nothing to do until the user acts
CHECK_DEADLOCK FALSE
