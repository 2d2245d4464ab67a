SPECIFICATION Spec
CONSTANTS
  Texts <- ShortTexts
  RUINT_MAX = 11
  MaxIdentifierLength = 6
  MaxNumberLength = 3
  MaxHexLength = 4
  MaxBinaryLength = 5
INVARIANT StoresInBounds
CHECK_DEADLOCK FALSE
