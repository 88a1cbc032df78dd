CONSTANTS
  MaxTime = 5
  Faults <- AllFaults
SPECIFICATION FairSpec
INVARIANT IInv
INVARIANT GlobalRight
INVARIANT ServerWithin
PROPERTY EndsOrLost
