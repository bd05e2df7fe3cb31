\* Two threads that report times or count, five calls between them; all calls
\* of the string functions on short arguments, with a byte of two bits; three
\* signals from the keyboard; three ways to wait for a child; four
\* threads that wait for a broadcast, with spurious wake-ups.  The parts end.
SPECIFICATION HelpersSpec
CONSTANTS
  Threads = {t1, t2}
  TIMELIST_LEN = 3
  Times = {1, 2, 3}
  MaxCalls = 5
  BYTE = 4
  Symbols = {0, 1, 2}
  MaxArray = 4
  MaxNeedle = 2
  MaxString = 5
  MaxSent = 3
  Waiters = {w1, w2, w3, w4}
  MainThread = MainThread
  None = None
CHECK_DEADLOCK FALSE
INVARIANTS
  TopIsWorst
  BytesAgree
  SearchFindsFirst
  TrimThenTest
  KilledUnprepared
  FreedAfterUse
  NobodySleepsOn
PROPERTIES
  SignalEnds
  ReportsTheChild
  EveryoneLeaves
