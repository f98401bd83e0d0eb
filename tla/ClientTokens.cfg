SPECIFICATION FairSpec
CONSTANTS
  Connections = {c1, c2}
  ClientSecrets <- MCSecrets
  ExpiresIn = {0, 1}
  DeviceLifetimes = {0, 1}
  DeviceIntervals = {0, 2}
  DefaultIntervalS = 1
  DefaultLifetimeS = 2
  SlowDownStepS = 1
  RenewSkewS = 0
  MaxIsoS = 2
  MaxRetries = 1
  Latencies = {0}
  MaxClock = 2
  MaxCalls = 3
CHECK_DEADLOCK FALSE
INVARIANTS
  TypeOK
  SpentOnlyIfLost
PROPERTIES
  RefreshTokenKept
  LogoutHolds
  CachedUnexpired
  EveryCallEnds
