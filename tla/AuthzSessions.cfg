SPECIFICATION Spec
CONSTANTS
  Threads = {t1, t2}
  Sids = {s1, s2, s3}
  Principals <- SessionPrincipals
  Queries <- TwoQueries
  Sources <- PlainSources
  LowerCase <- MCLowerCase
  Capacity = 1
  MaxSessions = 2
  ClockSkewS = 1
  ClockDeltas = {1}
  MaxClockSteps = 2
  MaxRows = 3
CHECK_DEADLOCK FALSE
SYMMETRY ThreadAndSessionSymmetry
INVARIANTS
  TypeOK
PROPERTIES
  AllowIsCurrent
  EvictsFirstToExpire
