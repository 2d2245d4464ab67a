SPECIFICATION FileReadSpec
CONSTANTS
  Saves <- MCSaves
  RUINT_MAX = 6
  MaxEdits = 2
INVARIANTS
  FileTypeOK
  LoadedIsText
  ReaderReleases
  QuietReadIsWhole
PROPERTIES
  ReaderReturns
CHECK_DEADLOCK FALSE
