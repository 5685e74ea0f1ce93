SPECIFICATION Spec
CONSTANTS
  MaxStarts = 2
  MaxOverlaps = 1
  Mappings = 1
  MaxRestartsPerHour = 3
  AutoRestart = {TRUE}
  KeepAlive = {FALSE}
PROPERTY HostKeyErrorHeld
CHECK_DEADLOCK FALSE
