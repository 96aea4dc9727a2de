SPECIFICATION FairSpec
CONSTANTS
  i1 = i1
  i2 = i2
  NoItem = NoItem
  c1 = c1
  c2 = c2
  Items <- TwoItems
  Clients <- OneTab
  MaxPolls = 3
  MaxPollErrors = 2
  MaxRetries = 2
  MaxRestarts = 1
  OtherErrors = FALSE
  DeleteWhileBusy = FALSE
INVARIANTS
  OneThreadEach
PROPERTIES
  Lifecycle
CHECK_DEADLOCK FALSE
