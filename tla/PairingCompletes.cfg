SPECIFICATION FairSpec
CONSTANTS
  Boards <- TwoBoards
  Nobody = 9
  MaxWindows = 1
  MaxFaults = 2
  MaxFlight = 2
  Acts <- NoActs
  Faults <- DropAndReset
PROPERTIES PairingCompletes 
CHECK_DEADLOCK FALSE
