SPECIFICATION Spec
CONSTANTS
  Apps = {home, pet, clock, bad}
  Home = home
  NoApp = noapp
  Installed = {pet, clock, bad}
  Broken = {bad}
  Limit = 2
  Commands <- AllCommands
  Trouble <- AllTrouble
INVARIANTS TypeOK OneVm LoadedIsSelected
CHECK_DEADLOCK FALSE
