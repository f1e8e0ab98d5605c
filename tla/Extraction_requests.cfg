SPECIFICATION LiveSpec
CONSTANTS
  Job = {r1, r2}
  Class = {"window", "heavy"}
  limits <- OneEach
  NoJob = NoJob
  Tracks = 1
  Scenarios <- Mixes
  Thumb = {p1, p2}
  MaxThumbs = 1
  MaxDrops = 1
  None = None
INVARIANTS ThumbListMatchesMap OneBatchPerFile LeaverHurtsNobody SlowIsNotUnseekable WaitersHaveReason
PROPERTIES ClassesAreSemaphores EveryRequestReturns
