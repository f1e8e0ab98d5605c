SPECIFICATION LiveSpec
CONSTANTS
  Source <- Files
  Target = 9
  Worker = {w1, w2}
  Limit = 1
  MaxAttempts = 3
  None = None
CHECK_DEADLOCK FALSE
INVARIANTS GridIsGreedy SamplesAbut SegmentsTile
PROPERTIES ProductionReturns
