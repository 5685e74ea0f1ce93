SPECIFICATION Spec
CONSTANTS
  Tunnel = {t1}
  Cap = 1
  Retention = 1
  MaxMoved = 2
  MaxTime = 3
INVARIANTS
  TypeOK
  NoByteIsCountedTwice
  NothingIsLost
  QueryIsExact
CHECK_DEADLOCK FALSE
