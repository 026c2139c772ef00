SPECIFICATION Spec
CONSTANTS
  Publishers = {p1}
  MaxAttempts = 2
INVARIANTS
  RetryIsSafe
CHECK_DEADLOCK FALSE
