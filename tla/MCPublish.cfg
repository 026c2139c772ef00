SPECIFICATION FairSpec
CONSTANTS
  Publishers = {p1, p2}
  MaxAttempts = 2
INVARIANTS
  TypeOK
  OkIsWritten
  CountsExact
  
PROPERTIES
  QuietAfterDrain
  PublishReturns
\* Every publisher may be done.
CHECK_DEADLOCK FALSE
