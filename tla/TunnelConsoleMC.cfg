SPECIFICATION Spec
CONSTANTS
  Key = {k1, k2}
  NoKey = NoKey
  NoStatus = NoStatus
  RecentCap = 1
  BufSize = 1
  MaxBuffer = 2
  Bounds <- ConsoleBounds
INVARIANTS
  TypeOK
  TrustedWasShown
  SocketInOrder
  LogEndsWithBuffer
  ToldIsRead
PROPERTIES
  UpIsFollowed
  DashboardSettles
CHECK_DEADLOCK FALSE
