SPECIFICATION FairSpec
CONSTANTS
  Capacity = 3
  Faults <- AllFaults
INVARIANTS NeverIdle ScanFlagTrue
PROPERTY FindsPeer
CHECK_DEADLOCK FALSE
