SPECIFICATION StatFairSpec
CONSTANTS
  NULL = NULL
  Worker = {w1, w2}
  tcNbOfRequestPerSecond = 1
  MaxSent = 3
  MaxDone = 3
INVARIANTS
  RateBound
  
PROPERTIES
  WaiterWoken
