SPECIFICATION Spec
CONSTANTS
  Threads = {t1, t2}
  Sids = {"s1"}
  Principals <- Analysts
  Queries <- AllQueries
  Sources <- StarSources
  LowerCase <- MCLowerCase
  Capacity = 2
  MaxSessions = 1
  ClockSkewS = 0
  ClockDeltas = {1}
  MaxClockSteps = 1
  MaxRows = 2
CHECK_DEADLOCK FALSE
PROPERTIES
  StarNeedsStarRule
