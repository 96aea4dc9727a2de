SPECIFICATION FairSpec
CONSTANTS
  MaxToolRounds = 4
  MaxCalls = 2
INVARIANTS
  EveryResultRead
  StopTakesHold
PROPERTIES
  NoSecondHelping
  EndsTitled
CHECK_DEADLOCK FALSE
