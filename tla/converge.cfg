SPECIFICATION UpsetSpec
CONSTANTS
  Images = {a, b}
  NoImage = none
  Canonical <- AsSpelt
  MaxRevs = 3
  HistoryLimit = 1
  Annotated = TRUE
  MaxEdits = 1
  MaxSwitches = 0
  MaxDeletes = 0
  MaxFaults = 1
  MaxRestarts = 1
  MaxStatus = 0
  SecretLate = 0
  MaxModuleEdits = 1
PROPERTIES
  AllConverge
\* at rest the operator has nothing to do until the user acts
CHECK_DEADLOCK FALSE
