SPECIFICATION FairSpec
CONSTANTS
  Apps = {home, pet, clock, bad}
  Home = home
  NoApp = noapp
  Installed = {home, pet, clock, bad}
  Broken = {bad}
  Limit = 2
  Commands <- HostSelects
  Trouble <- StayOnPage
INVARIANT UiOutlivesScript
PROPERTIES ReloadEnds RequestTakenUp
CHECK_DEADLOCK FALSE
