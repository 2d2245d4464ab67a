SPECIFICATION Spec
CONSTANTS
  e1 = e1
  e2 = e2
  junk = junk
  Elem <- MCElem
  Junk <- junk
  InitialSizes <- MCInitialSizes
  MaxCount = 6
INVARIANTS
  TypeOK
  StoresInBounds
  GrowthIsAmortised
PROPERTY ImplementsLog
CHECK_DEADLOCK FALSE
