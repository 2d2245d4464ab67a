SPECIFICATION DriverSpec
CONSTANTS
  Saves <- MCSaves
  RUINT_MAX = 7
  MaxEdits = 1
  MaxArguments = 2
  MaxTokens = 4
  MAX_LOG_TOKENS = 3
INVARIANTS
  TypeOK
  EverythingReleased
  StagesReadWhatIsHeld
  FailureNamesItsStage
  ExitCodeTellsSuccess
  VersionTouchesNothing
PROPERTIES
  LogIsKeptUntilParsed
  Ends
  ImplementsPipeline
CHECK_DEADLOCK FALSE
