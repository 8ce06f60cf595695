SPECIFICATION Spec
CONSTANTS
  NULL = NULL
  Awake = Awake
  Lost = Lost
  Ctx = {c1, c2}
  tcWThreadNb = 2
  tcLdapBindNb = 1
  tcLdapTimeout = 1
  MaxMsg = 2
  MaxSearches = 3
  MaxRestarts = 1
SYMMETRY Symmetric
INVARIANTS
  NoDangling
  
  AnswerFound
