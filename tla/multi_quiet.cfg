CONSTANTS
  Many = 2
  Runs = 1
  DEVICES <- Dcpm
  Quiet <- Silent
  MaxInvocations = 1
  MaxBuilds = 1
  MaxFailed = 1
  Faults <- NoFaults
SPECIFICATION FairSpec
PROPERTY QuietRuns
