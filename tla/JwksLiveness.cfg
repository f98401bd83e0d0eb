SPECIFICATION FairSpec
CONSTANTS
  Threads = {t1, t2}
  Uris = {"u1"}
  Kids = {"k1", "k2"}
  Keys <- MCKeys
  Algs <- MCAlgs
  AlgsOf <- MCAlgsOf
  SigKeys <- MCSigKeys
  UsableKeys <- MCUsableKeys
  Documents <- PlainDocs
  Jwts <- RotationTokens
  MaxKeysPerKid = 2
  MaxEntries = 2
  BudgetWindowS = 1
  ClockResetS = 2
  MaxMinRefreshS = 4
  StartupMinRefreshS = 2
  MinRefreshChoices = {2, 3}
  MaxRetries = 1
  ClockDeltas = {2}
  MaxClockSteps = 1
  MaxPublishes = 0
  MaxRows = 3
CHECK_DEADLOCK FALSE
PROPERTIES
  EveryRowDecided
