SPECIFICATION Spec
CONSTANTS
  Threads = {t1}
  Uris = {u1, u2}
  Kids = {"k1", "k2"}
  Keys <- MCKeys
  Algs <- MCAlgs
  AlgsOf <- MCAlgsOf
  SigKeys <- MCSigKeys
  UsableKeys <- MCUsableKeys
  Documents <- TenantDocs
  Jwts <- TenantTokens
  MaxKeysPerKid = 2
  MaxEntries = 2
  BudgetWindowS = 1
  ClockResetS = 2
  MaxMinRefreshS = 4
  StartupMinRefreshS = 2
  MinRefreshChoices = {2}
  MaxRetries = 0
  ClockDeltas = {2}
  MaxClockSteps = 3
  MaxPublishes = 1
  MaxRows = 4
CHECK_DEADLOCK FALSE
SYMMETRY UriSymmetry
INVARIANTS
  AcceptedKeyWasListed
PROPERTIES
  EvictionCorroborated
  UsableKidNotMissed
