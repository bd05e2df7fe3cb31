\* Up to four lines of every kind, typed at any speed or each after the one before it was
\* shown.  A datagram arrives up to twice.
SPECIFICATION FairSpec
CONSTANTS
  Inputs <- Typing
  MaxCopies = 2
CHECK_DEADLOCK FALSE
INVARIANTS
  AllRead
  WriterSurvives
  
PROPERTIES
  
  GoneEnds
