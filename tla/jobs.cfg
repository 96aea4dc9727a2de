SPECIFICATION FairJobsSpec
CONSTANTS
  v1 = v1
  Jobs <- OneJob
  MAX_POLL_ERRORS = 2
  MaxPolls = 4
  MaxRestarts = 2
INVARIANTS
  JobsTypeOK
  DoneIsWhole
  HandedOverIsKept
  TimedOutUnseen
PROPERTIES
  Lifecycle
CHECK_DEADLOCK FALSE
