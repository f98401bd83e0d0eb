SPECIFICATION Spec
CONSTANTS
  Callers = {t1, t2}
  Lexemes <- MCLexemes
  DigitRuns <- MCDigitRuns
  DottedDigits <- MCDottedDigits
  Unacceptable <- MCUnacceptable
  MaxSkewS = 3
  LogKeys = {"k1", "k2", "k3"}
  LogWindowS = 2
  LogCap = 2
  LogLow = 1
  Tokens <- MCTokens
  MaxDecisions = 2
  DecisionTtlS = 2
  Settings <- MCSettings
  Starts <- MCStarts
  Names <- MCNames
  Offered <- MCOffered
  Listeners <- MCListeners
  Jwt <- MCJwt
  KeysAt <- MCKeysAt
  ExpOf <- MCExpOf
  ProbeWindowS = 2
CHECK_DEADLOCK FALSE
SYMMETRY CallerSymmetry
INVARIANTS
  TrafficProtected
  VerdictIsTrue
PROPERTIES
  ConfigTakesEffect
  OneLinePerWindow
  ProbeIsRecent
