\* Pools of 2, then 3 threads, growing when fewer than 2 are left; sockets,
\* memory and threads may run out.  Fairness for the main thread and the others.
SPECIFICATION FairSpec
CONSTANTS
  Events = {e1, e2, e3}
  BASESIZE = 2
  ELEMSIZE = 3
  WARNSIZE = 2
  MayFail = TRUE
  NoEvent = NoEvent
INVARIANTS
  EveryThreadAddressed
  EventsConserved
PROPERTIES
  EveryEventHandled
  StopEnds
