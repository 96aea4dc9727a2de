SPECIFICATION Spec
CONSTANTS
  c1 = c1
  c2 = c2
  s1 = s1
  p1 = p1
  p2 = p2
  t1 = t1
  t2 = t2
  Chats <- TwoChats
  Spaces <- OneSpace
  NoChat = NoChat
  NoSpace = NoSpace
  Defaults = Defaults
  MaxId = 2
  Pictures <- TwoPictures
  MAX_IMAGES = 1
  Threads <- OneThread
  Serial = TRUE
  MaxEdits = 7
SYMMETRY Symmetry
INVARIANTS
  TypeOK
  ListsHold
  ImagesThere
  ImageLimit
PROPERTIES
  NothingUnasked
  BranchHasCopies
CHECK_DEADLOCK FALSE
