SPECIFICATION LiveSpec
CONSTANTS
  Cache = {c1}
  LastPiece = 0
  NumBlocks = 2
  Obj = {o1, o2, o3}
  Worker = {w1}
  Reader = {r1}
  None = None
  Capacities = {1}
  DiskCaches = {c1}
  Back = 0
  Ahead = 0
  Edge = 0
  Ops = {"write", "hash", "read", "drop", "close", "reader", "closereader"}
  MaxDrift = 3
CHECK_DEADLOCK FALSE
INVARIANTS DiskPieceKept NoResurrection
PROPERTIES CallsReturn
