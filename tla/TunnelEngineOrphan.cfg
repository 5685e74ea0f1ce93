SPECIFICATION Spec
CONSTANTS
  Items = 1
  Callers = {c1}
  Patient = {c1}
  Script <- OrphanScript
  MaxEdits = 0
  TrayBuffer = 1
  None = None
INVARIANTS
  StoppedTunnelLetsGo
CHECK_DEADLOCK FALSE
