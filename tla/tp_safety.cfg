\* Two workers, two producers, two destroyers; every kind of call may overlap.
SPECIFICATION Spec
CONSTANTS
  Workers = {w1, w2}
  Producers = {p1, p2}
  Destroyers = {d1, d2}
  Jobs = {j1, j2, j3, j4}
  QueueMax = 2
  NoJob = NoJob
  Overlap = TRUE
  CreateMayFail = TRUE
SYMMETRY Interchangeable
INVARIANTS
  NoLostWakeup
  NoDeadlock
  JobsConserved
  DestroyDrains
PROPERTY
  ImplementsJobService
