SPECIFICATION Spec
CONSTANTS
  Texts <- MCTexts
  RUINT_MAX = 11
  MaxIdentifierLength = 6
  MaxNumberLength = 3
  MaxHexLength = 4
  MaxBinaryLength = 5
INVARIANT SeparatorsMakeTerminators
CHECK_DEADLOCK FALSE
