SPECIFICATION FairSpec
CONSTANTS
  Calls = {c1, c2}
  Keys = {k1, k2}
  MaxNext = 2
INVARIANTS
  TypeOK
  
  
  OneClosure
PROPERTIES
  
  CallReturns
