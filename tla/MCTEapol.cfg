SPECIFICATION FairSpec
CONSTANTS
  NULL = NULL
  Ids = {0, 1}
  Ticking = TRUE
  MaxRounds = 3
  StartDelay = 1
  startPeriod = 1
  maxStart = 1
  heldPeriod = 1
  authPeriod = 1
  ClientTimeout = 2
INVARIANTS
  HandledOnce
  AnswersThisRequest
  SuccessEarned
PROPERTIES
  
  AuthenticationEnds
