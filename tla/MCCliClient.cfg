CONSTANTS
  Tasks = {k1, k2}
  Procs = {p1, p2}
  p1 = p1
  p2 = p2
  Kinds <- KindsOf
  RateLimit = 1
  Window = 2
  MaxTokens = 2
  MaxKey = 2
  Retries = 2
  None = None
SPECIFICATION Spec
SYMMETRY Symmetry
INVARIANTS
  TypeOK
  RateBound
  WritesCounted
PROPERTIES
  LiveKeyAccepted
