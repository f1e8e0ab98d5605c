SPECIFICATION LiveSpec
CONSTANTS
  Req = {q1, q2}
  Caller = {c1, c2}
  d1 = d1
  d2 = d2
  Hardware = {d1, d2}
  Inventories <- Machines
  deviceRank <- NoOrder
  score <- Scores
  perDeviceConcurrency = 1
  cpuConcurrency = 1
  None = None
INVARIANTS TokensAreHeld PipelineIsSafe
PROPERTIES ToursEnd
