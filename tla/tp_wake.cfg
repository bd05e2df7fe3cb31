SPECIFICATION Spec
CONSTANTS
  Workers = {w1}
  Producers = {p1, p2}
  Destroyers = {d1}
  Jobs = {j1, j2, j3}
  QueueMax = 1
  NoJob = NoJob
  Overlap = TRUE
  CreateMayFail = FALSE
INVARIANT
  WokenProducerSafe
