SPECIFICATION Spec
CONSTANTS
  Callers = {app, revision}
  Keys = {k1, k2}
  NoKey = nokey
  SameName = TRUE
  MaxUpsets = 3
INVARIANTS
  TypeOK
  CalmCallsAnswered
PROPERTIES
  CallsKeepPromise
