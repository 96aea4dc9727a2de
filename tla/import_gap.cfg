SPECIFICATION Spec
CONSTANTS
  MaxPrompts = 2
  MaxText = 1
  MaxTime = 2
  MaxExports = 1
  MaxConvs = 1
  MaxMessages = 4
  MaxCrashes = 0
  UserMeanwhile = FALSE
PROPERTIES
  DeletesOneTurn
CHECK_DEADLOCK FALSE
