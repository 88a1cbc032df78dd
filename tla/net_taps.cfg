CONSTANTS
  Ids <- TwoIds
  Parallel = FALSE
  MaxCommands = 3
  MaxFaults = 0
SPECIFICATION Spec
INVARIANT TapsChecked
