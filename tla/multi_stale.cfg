CONSTANTS
  Many = 1
  Runs = 1
  DEVICES <- Dcpm
  Quiet <- Loud
  MaxInvocations = 2
  MaxBuilds = 2
  MaxFailed = 1
  Faults <- NoFaults
SPECIFICATION Spec
INVARIANT SnapshotsHere
