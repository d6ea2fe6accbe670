SPECIFICATION FairSpec
CONSTANTS
  Sizes <- ThreeFiles
  Buffer = 2
  Mailbox = 8
  Pool = 4
  Attempts = 5
  Reconnects = 4
  Restarts = 2
  MaxFaults = 3
  Faults <- AllFaults
INVARIANTS InOrder TakenWhole PassedWhole Survives
PROPERTY TransferEnds
CHECK_DEADLOCK FALSE
