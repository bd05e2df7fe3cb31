\* The program is run three times, one after the other; any process may be killed.
SPECIFICATION FairSpec
CONSTANTS
  Runs = 3
CHECK_DEADLOCK FALSE
INVARIANTS
  ParentChildExclusive
  UndoBalances
PROPERTY
  EveryoneEnters
