SPECIFICATION FairSpec
CONSTANTS
  MaxEnd = 3
  MaxLow = 1
  Capacity = 1
  MaxFaults = 3
  Partition = tp
  Starts <- FromBeginningOrOne
INVARIANTS
  TypeOK
  NothingSkipped
  UncommittedRedelivered
PROPERTIES
  AckIsFinal
  EveryRecordProcessed
