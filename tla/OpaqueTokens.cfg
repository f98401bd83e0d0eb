SPECIFICATION Spec
CONSTANTS
  Threads = {t1, t2}
  Tokens = {"long", "short", ""}
  EmptyToken = ""
  Claims <- MCClaims
  Configs <- MCConfigs
  MaxDecisions = 1
  DecisionTtlS = 2
  ClockSkewS = 1
  MaxRetries = 1
  ClockDeltas = {1}
  MaxClockSteps = 3
  MaxRows = 3
CHECK_DEADLOCK FALSE
SYMMETRY ThreadSymmetry
INVARIANTS
  TypeOK
  DecisionsConsistent
  RevocationInv
  RevocationTakesEffect
  ExpiryRespected
