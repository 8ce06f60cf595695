SPECIFICATION RadiusFairSpec
CONSTANTS
  IdMod = 4
  tcRadiusRetries = 2
  quietOnError = FALSE
  MaxPackets = 3
INVARIANTS
  AccessAnswered
  
  NoLateAccess

  
CHECK_DEADLOCK FALSE
