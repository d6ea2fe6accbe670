SPECIFICATION FairSpec
CONSTANTS
  Conns = {c1, c2}
  NoConn = NoConn
  Capacity = 2
  Attempts = 2
  MaxLinks = 2
  MaxFaults = 1
  Faults <- AllFaults
INVARIANTS FlagTrue OneWriterPerLine
PROPERTIES Visible OwnerFreed
CHECK_DEADLOCK FALSE
