SPECIFICATION EitherSpec
CONSTANTS
  Images = {a, b}
  NoImage = none
  Canonical <- AsSpelt
  MaxRevs = 2
  HistoryLimit = 1
  Annotated = TRUE
  MaxEdits = 0
  MaxSwitches = 0
  MaxDeletes = 1
  MaxFaults = 0
  MaxRestarts = 0
  MaxStatus = 0
  SecretLate = 0
  MaxModuleEdits = 1
INVARIANTS
  RevisionsForgotten
PROPERTIES
  LifecycleSpec
VIEW ModuleView
CONSTRAINT ModuleLag
\* at rest the operator has nothing to do until the user acts
CHECK_DEADLOCK FALSE
