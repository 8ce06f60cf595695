SPECIFICATION FairSpec
CONSTANTS
  NULL = NULL
  Ctx = {c1}
  tcWThreadNb = 1
  TableSize = 2
  MallocFails = FALSE
  HasMatedPair = TRUE
  MaxCtrlC = 1
  MaxCtrlZ = 1
  MaxDeaths = 0
PROPERTIES
  EndingIsFinal
  
CHECK_DEADLOCK FALSE
