SPECIFICATION DriverSpec
CONSTANTS
  Saves <- MCSaves
  RUINT_MAX = 7
  MaxEdits = 0
  MaxArguments = 0
  MaxTokens = 4
  MAX_LOG_TOKENS = 3
INVARIANTS
  EmptyMeansEmpty
CHECK_DEADLOCK FALSE
