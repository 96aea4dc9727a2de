SPECIFICATION Spec
CONSTANTS
  i1 = i1
  i2 = i2
  NoItem = NoItem
  c1 = c1
  c2 = c2
  Items <- TwoItems
  Clients <- TwoTabs
  MaxPolls = 2
  MaxPollErrors = 2
  MaxRetries = 1
  MaxRestarts = 1
  OtherErrors = TRUE
  DeleteWhileBusy = TRUE
SYMMETRY Symmetry
INVARIANTS
  NeverOvercharged
CHECK_DEADLOCK FALSE
