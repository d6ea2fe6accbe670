SPECIFICATION Spec
CONSTANTS
  Boards = {a, b}
  Senders = {a, b}
  Capacity = 4
  MaxRetries = 1
  MaxTexts = 2
  MaxFlight = 1
  MaxFaults = 1
  Faults <- NoReset
INVARIANT TimerHasText
PROPERTY Delivers
SYMMETRY BoardSymmetry
CHECK_DEADLOCK FALSE
