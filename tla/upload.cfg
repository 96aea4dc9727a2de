SPECIFICATION FairSpec
CONSTANTS
  Size = 5
  ChunkSize = 2
  Tries = 3
  MaxCrashes = 1
  Overlap = FALSE
INVARIANTS
  WholeFile
  DoneIsThere
PROPERTIES
  UploadEnds
CHECK_DEADLOCK FALSE
