CONSTANTS
  LowerCase <- MCLowerCase
  MaxDepth = 12
  Queries <- MCQueries
  Sources <- MCSources
  Principals <- MCPrincipals
SPECIFICATION Spec
CHECK_DEADLOCK FALSE
INVARIANTS
  NamesWhatItReaches
  DoesWhatItSays
  OpaqueIsUnsafe
  AllowedInEveryPart
