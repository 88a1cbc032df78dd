CONSTANTS
  NumUvms = 2
  Retries = 2
  MaxInvocations = 2
  Faults <- SoftFaults
SPECIFICATION FairSpec
INVARIANT TypeOK
INVARIANT IInv
INVARIANT SnapshotsGood
INVARIANT Reaped
PROPERTY Terminates
PROPERTY RefinesSnapshotBuild
