SPECIFICATION SettledSpec
CONSTANTS
  Images = {a, b}
  NoImage = none
  Canonical <- AsSpelt
  MaxRevs = 3
  HistoryLimit = 2
  Annotated = TRUE
  MaxEdits = 0
  MaxSwitches = 1
  MaxDeletes = 0
  MaxFaults = 0
  MaxRestarts = 0
  MaxStatus = 0
  SecretLate = 0
INVARIANTS
  RollbackSticks
VIEW View
CONSTRAINT InformerLag
\* at rest the operator has nothing to do until the user acts
CHECK_DEADLOCK FALSE
