SPECIFICATION Spec
CONSTANTS
  Callers = {p1}
  MaxCalls = 1
  Refusals <- NotExist
INVARIANTS
  OkIsTrue
CHECK_DEADLOCK FALSE
