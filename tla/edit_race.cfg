SPECIFICATION FreshSpec
CONSTANTS
  Images = {a, b}
  NoImage = none
  Canonical <- AsSpelt
  MaxRevs = 2
  HistoryLimit = 2
  Annotated = TRUE
  MaxEdits = 1
  MaxSwitches = 0
  MaxDeletes = 0
  MaxFaults = 0
  MaxRestarts = 0
  MaxStatus = 0
  SecretLate = 0
INVARIANTS
  TypeOK
  PhaseFollowsSpec
  GenerationsObserved
  OriginsCleared
  MarkerConsumed
PROPERTIES
  NoUserEditLost
VIEW View
CONSTRAINT FewBehind
\* at rest the operator has nothing to do until the user acts
CHECK_DEADLOCK FALSE
