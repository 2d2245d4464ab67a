SPECIFICATION Spec
CONSTANTS
  Texts <- MCTexts
  RUINT_MAX = 11
  MaxIdentifierLength = 6
  MaxNumberLength = 3
  MaxHexLength = 4
  MaxBinaryLength = 5
INVARIANTS
  TypeOK
  ReadsInBounds
  LongTextsStoreInBounds
  SpansOrdered
  NothingDropped
  LexemesMatchTypes
  LongestMatch
  FailurePointsAtStart
  ErrorLineShown
  LinesCounted
PROPERTIES
  HandlersConsume
  Terminates
  ImplementsTokenStream
CHECK_DEADLOCK FALSE
