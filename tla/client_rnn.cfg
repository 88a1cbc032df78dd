CONSTANTS
  N = 3
  PreWarm = 1
  Restoring = FALSE
  Implemented = FALSE
  Faults <- NoFaults
SPECIFICATION FairSpec
PROPERTY FailureReported
