\* accept and epoll_ctl may fail.
SPECIFICATION Spec
CONSTANTS
  Fds = {f1, f2}
  Workers = {w1}
  In_MaxEpoll = 4
  MaxBatch = 2
  MaxIdle = 4
  AfterRace = FALSE
  Faults = {"accept", "epoll_ctl"}
  None = None
INVARIANTS
  SlotsExclusive
