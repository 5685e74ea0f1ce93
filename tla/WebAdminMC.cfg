SPECIFICATION Spec
CONSTANTS
  Conn = {c1, c2}
  Tunnel = {t1, t2}
  Secret = {s1}
  Token = {k1, k2}
  Mask = Mask
  Empty = Empty
  Absent = Absent
  Idle = Idle
  New = New
  NoForm = NoForm
  NoToken = NoToken
  Ttl = 1
  MaxTime = 3
  Bounds <- AdminBounds
INVARIANTS
  TypeOK
  NoDanglingChain
  MemoryIsFile
  MaskIsNeverStored
  EndedIsOut
CHECK_DEADLOCK FALSE
