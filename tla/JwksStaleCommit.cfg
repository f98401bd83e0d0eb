SPECIFICATION Spec
CONSTANTS
  Threads = {t1, t2}
  Uris = {"u1"}
  Kids = {"k1", "k2"}
  Keys <- MCKeys
  Algs <- MCAlgs
  AlgsOf <- MCAlgsOf
  SigKeys <- MCSigKeys
  UsableKeys <- MCUsableKeys
  Documents <- PlainDocs
  Jwts <- StaleTokens
  MaxKeysPerKid = 2
  MaxEntries = 2
  BudgetWindowS = 1
  ClockResetS = 2
  MaxMinRefreshS = 4
  StartupMinRefreshS = 2
  MinRefreshChoices = {2}
  MaxRetries = 0
  ClockDeltas = {2}
  MaxClockSteps = 2
  MaxPublishes = 1
  MaxRows = 3
CHECK_DEADLOCK FALSE
SYMMETRY ThreadSymmetry
PROPERTIES
  CommitKeepsNewerKeys
