SPECIFICATION FairSpec
CONSTANTS
  k1 = k1
  k2 = k2
  c1 = c1
  c2 = c2
  Convs <- TwoChats
  Clients <- OneTab
  MaxMessages = 3
  MaxMade = 4
  MaxRestarts = 1
INVARIANTS
  NoAbandonedReply
  ThreadOwnsItsReply
PROPERTIES
  ReplyEnds
CHECK_DEADLOCK FALSE
