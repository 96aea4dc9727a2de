SPECIFICATION Spec
CONSTANTS
  c1 = c1
  c2 = c2
  u1 = u1
  g1 = g1
  t1 = t1
  t2 = t2
  Chats <- TwoChats
  Shelf = Shelf
  Uploads <- OneUpload
  Made <- OnePicture
  Black <- OnePicture
  CopyOf <- Copies
  NoFile = NoFile
  NoRow = NoRow
  NoList = NoList
  MaxRow = 2
  LIST_TTL = 1
  ORPHAN_GRACE = 2
  MaxTime = 2
  Handlers <- OneHandler
  Lister = Lister
  Serial = TRUE
  Reattach = FALSE
  MaxEdits = 5
SYMMETRY Symmetry
INVARIANTS
  TypeOK
  FilesThere
  StaleAtMostTTL
  NothingMissed
  OrphansUnused
CHECK_DEADLOCK FALSE
