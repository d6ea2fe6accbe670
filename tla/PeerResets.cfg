SPECIFICATION FairSpec
CONSTANTS
  Boards = {a, b}
  Senders = {a}
  Capacity = 3
  MaxRetries = 1
  MaxTexts = 3
  MaxFlight = 2
  MaxFaults = 2
  Faults <- Resets
  
PROPERTY EveryTextSettles
CHECK_DEADLOCK FALSE
