SPECIFICATION Spec
CONSTANTS
  MaxPrompts = 2
  MaxText = 1
  MaxTime = 4
  MaxExports = 2
  MaxConvs = 2
  MaxMessages = 6
  MaxCrashes = 1
  UserMeanwhile = FALSE
INVARIANTS
  NothingTwice
  DeletedStays
  TreesHold
PROPERTIES
  ImportsWell
CHECK_DEADLOCK FALSE
