SPECIFICATION FairSpec
CONSTANTS
  tcRadiusRetries = 2
  tcRadiusFastReauth = 1
  BlockSize = 3
  Blocks = 2
  MaxRounds = 2
INVARIANTS
  OneDialogue
  
PROPERTIES
  CallReturns
