SPECIFICATION FreshSpec
CONSTANTS
  Images = {a, b}
  NoImage = none
  Canonical <- AsSpelt
  MaxRevs = 2
  HistoryLimit = 1
  Annotated = TRUE
  MaxEdits = 0
  MaxSwitches = 0
  MaxDeletes = 0
  MaxFaults = 1
  MaxRestarts = 0
  MaxStatus = 0
  SecretLate = 0
INVARIANTS
  ModuleMade
VIEW View
CONSTRAINT InformerLag
\* at rest the operator has nothing to do until the user acts
CHECK_DEADLOCK FALSE
