SPECIFICATION SessionsSpec
CONSTANTS
  Reqs = {r1, r2, r3}
  Logins = {s1, s2}
  NoLogin = NoLogin
  Lifespan = 1
  ErasureTTL = 5
  NullableNames = TRUE
  MaxActive = 2
  MaxTokens = 2
  MaxTime = 1
INVARIANTS
  SessionsTypeOK
  LogoutIsFinal
PROPERTIES
  ErasureIsFinal
SYMMETRY Symmetry
CHECK_DEADLOCK FALSE
