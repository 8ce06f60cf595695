SPECIFICATION FairSpec
CONSTANTS
  Section = {"s1", "s2", "s3"}
  Sound = {"s1", "s2"}
  Trafics <- MCTrafics
  Places = 2
  Worker = {w1, w2}
  User <- MCUser
  Actions <- MCActions
  Settings <- MCSettings
  MaxSleep = 1
  MallocFails = TRUE
  MaxScenarios = 2
  MaxCtrlC = 1
  NULL = NULL
  Awake = Awake
  Lost = Lost
INVARIANTS
  Shares
  UserHasHome
  AllAccounted
  
PROPERTIES
  UserReleased
CHECK_DEADLOCK FALSE
