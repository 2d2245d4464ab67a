SPECIFICATION FileReadSpec
CONSTANTS
  Saves <- MCSaves
  RUINT_MAX = 6
  MaxEdits = 1
INVARIANTS
  WholeFile
CHECK_DEADLOCK FALSE
