SPECIFICATION Spec
CONSTANTS
  NULL = NULL
  s1 = s1
  s2 = s2
  Sce = {s1, s2}
  Worker = {w1, w2}
  UserNb = 4
  Policies = {1, 3}
  Exclusion <- ExclusionOne
  PopulMin <- LastMin
  PopulNb <- LastNb
  NbNas = 2
  MaxAge = 1
SYMMETRY Symmetric
INVARIANTS
  SequentialEnd
