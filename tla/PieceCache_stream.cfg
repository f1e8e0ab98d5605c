SPECIFICATION LiveSpec
CONSTANTS
  Cache = {c1}
  LastPiece = 1
  NumBlocks = 1
  Obj = {o1, o2, o3}
  Worker = {w1}
  Reader = {r1}
  None = None
  Capacities = {1, 2}
  DiskCaches = {}
  Back = 0
  Ahead = 0
  Edge = 0
  Ops = {"write", "hash", "badhash", "reader", "resize"}
  MaxDrift = 2
CHECK_DEADLOCK FALSE
INVARIANTS TypeOK SleeperIsFetched
PROPERTIES AvailableIsServed
