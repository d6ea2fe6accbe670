SPECIFICATION FairSpec
CONSTANTS
  Workers = {w1}
  NoWorker = NoWorker
  Faults <- SoundFaults
  States = {idle, waving, running}
  Home = idle
  Resident = {idle, running}
  NoState = NoState
  MaxTokens = 2
  LoadFails = TRUE
  MaxCalls = 4
INVARIANTS MemoryAlive CaptureAlone CardAccounted BanksTrue
PROPERTIES WantedShown HostStops
CHECK_DEADLOCK FALSE
