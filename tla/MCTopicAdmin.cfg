SPECIFICATION FairSpec
CONSTANTS
  Callers = {p1, p2}
  MaxCalls = 2
  Refusals <- OtherErrors
INVARIANTS
  TypeOK
  OkIsTrue
  CountsExact
PROPERTIES
  QuietAfterDrain
  CallReturns
\* Callers may have made all their calls.
CHECK_DEADLOCK FALSE
