\* Everything may fail and threads may close connections; the array has two more
\* elements than connections.
SPECIFICATION Spec
CONSTANTS
  Fds = {f1, f2}
  Workers = {w1}
  In_MaxEpoll = 4
  MaxBatch = 2
  MaxIdle = 2
  AfterRace = FALSE
  Faults = {"accept", "epoll_ctl", "malloc", "worker_close", "threads"}
  None = None
SYMMETRY Interchangeable
INVARIANTS
  ExclusiveUnlessSpoiled
  AccountedUnlessSpoiled
  NoOverrun
