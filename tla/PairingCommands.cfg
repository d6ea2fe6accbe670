SPECIFICATION Spec
CONSTANTS
  Boards <- TwoBoards
  Nobody = 9
  MaxWindows = 1
  MaxFaults = 1
  MaxFlight = 1
  Acts <- AllActs
  Faults <- AllFaults
INVARIANTS BothConfirmed   ReadyWithPeer
CHECK_DEADLOCK FALSE
