SPECIFICATION ClaimedSpec
CONSTANTS
  Images = {a, b}
  NoImage = none
  Canonical <- AsSpelt
  MaxRevs = 3
  HistoryLimit = 1
  Annotated = TRUE
  MaxEdits = 1
  MaxSwitches = 0
  MaxDeletes = 0
  MaxFaults = 0
  MaxRestarts = 1
  MaxStatus = 0
  SecretLate = 0
  MaxModuleEdits = 2
INVARIANTS
  ThreeTypeOK
  ModuleEditsArrive
  CurrentExists
PROPERTIES
  NoEditLostToModule
VIEW ModuleView
CONSTRAINTS ModuleLag FewIds FewEdits
\* at rest the operator has nothing to do until the user acts
CHECK_DEADLOCK FALSE
