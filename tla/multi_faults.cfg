CONSTANTS
  Many = 2
  Runs = 2
  DEVICES <- Both
  Quiet <- Either
  MaxInvocations = 2
  MaxBuilds = 2
  MaxFailed = 1
  Faults <- FaultKinds
SPECIFICATION FairSpec
INVARIANT TypeOK
INVARIANT IInv
INVARIANT NoneLeft
INVARIANT ResultsComplete
INVARIANT BlockDevicesCurrent
INVARIANT NeverMixed
INVARIANT EveryRunCold
PROPERTY Finishes
