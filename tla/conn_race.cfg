\* Nothing fails; threads close connections.
SPECIFICATION Spec
CONSTANTS
  Fds = {f1, f2, f3}
  Workers = {w1}
  In_MaxEpoll = 5
  MaxBatch = 1
  MaxIdle = 2
  AfterRace = TRUE
  Faults = {"worker_close"}
  None = None
SYMMETRY Interchangeable
INVARIANTS
  ExclusiveUnlessClosedTwice
