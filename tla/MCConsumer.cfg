SPECIFICATION ConsumerFairSpec
CONSTANTS
  MaxEnd = 4
  MaxLow = 1
  Capacity = 2
  MaxFaults = 2
INVARIANTS
  ConsumerTypeOK
  StreamExact
  EndIsHonest
PROPERTIES
  TaskEnds
  RecvReturns
\* A closed pool without a session accepts nothing more: the consumer may stop.
CHECK_DEADLOCK FALSE
