SPECIFICATION Spec
CONSTANTS
  NULL = NULL
  Ctx = {c1, c2}
  tcWThreadNb = 2
  TableSize = 2
  MallocFails = FALSE
  HasMatedPair = FALSE
  MaxCtrlC = 0
  MaxCtrlZ = 0
  MaxDeaths = 1
SYMMETRY Symmetric
INVARIANTS
  ExitAfterWorkers
  NoSessionLeft
CHECK_DEADLOCK FALSE
