SPECIFICATION Spec
CONSTANTS
  Cache = {c1, c2}
  LastPiece = 0
  NumBlocks = 2
  Obj = {o1, o2, o3, o4, o5}
  Worker = {w1, w2}
  Reader = {r1}
  None = None
  Capacities = {1}
  DiskCaches = {}
  Back = 0
  Ahead = 0
  Edge = 0
  Ops = {"write", "hash", "badhash", "reader"}
  MaxDrift = 4
VIEW View
SYMMETRY WorkerSymmetry
CHECK_DEADLOCK FALSE
INVARIANTS FilledExact GlobalFilledExact ServedBytesReceived NoLostWakeup
PROPERTIES EvictionSparesReaders StrandedOnlyByFailedHash
