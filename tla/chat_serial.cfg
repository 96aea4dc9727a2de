SPECIFICATION Spec
CONSTANTS
  k1 = k1
  k2 = k2
  c1 = c1
  c2 = c2
  Convs <- OneChat
  Clients <- OneTab
  MaxMessages = 6
  MaxMade = 6
  MaxRestarts = 0
INVARIANTS
  TreeHolds
PROPERTIES
  RewritesWell
CHECK_DEADLOCK FALSE
