SPECIFICATION Spec
CONSTANTS
  Items = 2
  Callers = {c1, c2}
  Patient = {c1}
  Script <- EngineScript
  MaxEdits = 1
  TrayBuffer = 1
  None = None
VIEW NotOutdated
INVARIANTS
  TypeOK
  AccountedFor
  TrayIsCurrent
PROPERTIES
  RestartAppliesConfig
CHECK_DEADLOCK FALSE
