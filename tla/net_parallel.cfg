CONSTANTS
  Ids <- ThreeIds
  Parallel = TRUE
  MaxCommands = 4
  MaxFaults = 2
SPECIFICATION Spec
INVARIANT TypeOK
INVARIANT IInv
INVARIANT Undisturbed
INVARIANT CleansUp
PROPERTY StaysTorn
