\* Up to four lines and a quit; among up to three lines fgets may fail.
\* The programs end, or their threads wait for each other after a failure.
SPECIFICATION FairSpec
CONSTANTS
  TurnInputs <- Any
  PollInputs <- Failing
CHECK_DEADLOCK FALSE
INVARIANTS
  NoTornRead
  EveryLinePrinted
  DeadlockByFailureOnly
PROPERTIES
  LinesInOrder
  QuitEnds
