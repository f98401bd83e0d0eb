SPECIFICATION Spec
CONSTANTS
  Threads = {t1, t2}
  Sids = {"s1"}
  Principals <- RenewalPrincipals
  Queries <- TwoQueries
  Sources <- PlainSources
  LowerCase <- MCLowerCase
  Capacity = 2
  MaxSessions = 1
  ClockSkewS = 1
  ClockDeltas = {1}
  MaxClockSteps = 2
  MaxRows = 4
CHECK_DEADLOCK FALSE
PROPERTIES
  DropsOnlyExpired
