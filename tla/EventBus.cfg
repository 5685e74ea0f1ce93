SPECIFICATION Spec
CONSTANTS
  Reader = {r1, r2}
  RecentCap = 2
  BufSize = 1
  MaxEvents = 6
INVARIANTS
  TypeOK
  PrefillNeverBlocks
  NothingVanishes
  BufferHonoured
PROPERTY FeedSpec
CHECK_DEADLOCK FALSE
