\* Clients as in main_test.c: destroy is called once, after the other calls.
SPECIFICATION FairSpec
CONSTANTS
  Workers = {w1, w2}
  Producers = {p1, p2}
  Destroyers = {d1}
  Jobs = {j1, j2, j3}
  QueueMax = 1
  NoJob = NoJob
  Overlap = FALSE
  CreateMayFail = FALSE
INVARIANT
  NoUndefinedBehaviour
PROPERTIES
  AcceptedRuns
  DestroyReturns
