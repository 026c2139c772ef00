SPECIFICATION ConsumerSpec
CONSTANTS
  MaxEnd = 1
  MaxLow = 0
  Capacity = 1
  MaxFaults = 1
INVARIANTS
  ClosedRecvIsNone
CHECK_DEADLOCK FALSE
