SPECIFICATION FairSpec
CONSTANTS
  NULL = NULL
  s1 = s1
  s2 = s2
  Sce = {s1, s2}
  Worker = {w1, w2}
  UserNb = 3
  Policies = {0, 2}
  Exclusion <- ExclusionOne
  PopulMin <- LastMin
  PopulNb <- LastNb
  NbNas = 3
  MaxAge = 1
INVARIANTS
  Exclusive
  ReleaseTimeRecorded
PROPERTIES
  WalkEnds
  Reserves
