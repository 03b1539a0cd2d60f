SPECIFICATION SettledSpec
CONSTANTS
  Images = {a, b, c}
  NoImage = none
  Canonical <- Respelt
  MaxRevs = 3
  HistoryLimit = 2
  Annotated = TRUE
  MaxEdits = 1
  MaxSwitches = 0
  MaxDeletes = 0
  MaxFaults = 0
  MaxRestarts = 0
  MaxStatus = 0
  SecretLate = 0
INVARIANTS
  RevisionsDiffer
VIEW View
CONSTRAINT InformerLag
\* at rest the operator has nothing to do until the user acts
CHECK_DEADLOCK FALSE
