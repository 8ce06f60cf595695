SPECIFICATION FairSpec
CONSTANTS
  tcWThreadNb = 2
  NbServer = 2
  Confs <- MCConfs
  MaxOutages = 1
  MaxRefused = 1
  NULL = NULL
INVARIANTS
  InTurn
  HomeRebind
PROPERTIES
  RebindEnds
  TrafficBack
\* an error return of simpleBindRequest keeps bindMutex: the workers may all stop
CHECK_DEADLOCK FALSE
