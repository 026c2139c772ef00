SPECIFICATION Spec
CONSTANTS
  Publishers = {p1}
  MaxAttempts = 2
INVARIANTS
  EveryFailureCounted
CHECK_DEADLOCK FALSE
