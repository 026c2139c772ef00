SPECIFICATION FairSpec
CONSTANTS
  MaxEnd = 2
  MaxLow = 0
  Capacity = 1
  MaxFaults = 1
  Partition = tp
  Starts <- FromLatest
INVARIANTS
  UncommittedRedelivered
