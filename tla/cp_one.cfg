CONSTANTS
  Chunks = 6
  MaxTries = 6
  Faults <- FaultKinds
SPECIFICATION Spec
INVARIANT OkIsCopy
INVARIANT IInv
PROPERTY StaysFailed
