CONSTANTS
  NumUvms = 1
  Retries = 2
  MaxInvocations = 2
  Faults <- HardFaults
SPECIFICATION Spec
INVARIANT SnapshotsGood
