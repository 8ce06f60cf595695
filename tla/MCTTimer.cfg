SPECIFICATION FairSpec
CONSTANTS
  NULL = NULL
  Awake = Awake
  Lost = Lost
  Ctx = {c1, c2, c3}
  Worker = {w1, w2}
  TableSize = 3
  MallocFails = TRUE
INVARIANTS
  OneHome
  OnSchedule
PROPERTIES
  ImplementsTSleep
  EventuallyDue
CHECK_DEADLOCK FALSE
