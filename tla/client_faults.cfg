CONSTANTS
  N = 3
  PreWarm = 1
  Restoring = TRUE
  Implemented = TRUE
  Faults <- AllFaults
SPECIFICATION FairSpec
INVARIANT IInv
INVARIANT TypeOK
INVARIANT PhaseIsolation
INVARIANT PrintedRight
INVARIANT FailTogether
PROPERTY Completes
PROPERTY RefinesLockStep
PROPERTY EndsOrStuck
CHECK_DEADLOCK FALSE
