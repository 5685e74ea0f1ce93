SPECIFICATION FairSpec
CONSTANTS
  Items = 2
  Callers = {c1, c2}
  Patient = {c1}
  Script <- CallsScript
  MaxEdits = 0
  TrayBuffer = 1
  None = None
VIEW NotShown
PROPERTIES
  CallsReturn
CHECK_DEADLOCK FALSE
