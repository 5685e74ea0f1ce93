SPECIFICATION FairSpec
CONSTANTS
  MaxStarts = 2
  MaxOverlaps = 0
  Mappings = 2
  MaxRestartsPerHour = 2
  AutoRestart = {TRUE, FALSE}
  KeepAlive = {TRUE, FALSE}
INVARIANTS
  TypeOK
  NothingLeaks
  StopReturnsClean
  RunningIsBacked
  MismatchOnlyWhenDown
  ErrorIsExplained
PROPERTIES
  HostKeyErrorHeldAlone
  RetryIsAllowed
  StopReturns
  StopSettles
  TransientStatesEnd
CHECK_DEADLOCK FALSE
