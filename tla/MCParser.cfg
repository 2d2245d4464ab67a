SPECIFICATION Spec
CONSTANT Files <- MCFiles
INVARIANTS
  TypeOK
  OwnedOnce
  ErrorNamesStop
  DepthBounded
  PrecedenceRespected
  ReportShowsOneLine
PROPERTIES
  Terminates
  ImplementsParse
CHECK_DEADLOCK FALSE
