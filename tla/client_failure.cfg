CONSTANTS
  N = 2
  PreWarm = 1
  Restoring = TRUE
  Implemented = TRUE
  Faults <- AnswerFaults
SPECIFICATION FairSpec
PROPERTY FailureReported
CHECK_DEADLOCK FALSE
