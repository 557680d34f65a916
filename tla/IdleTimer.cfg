SPECIFICATION IdleSpec
CONSTANTS
  Timeouts = {2}
  NEVER = 100
  Raised = 3
  Period = 2
  Warning = 1
  UiTimeout = 3
  TickMod = 8
  MaxTime = 7
INVARIANTS LocksInTime
PROPERTIES RestartsOnlyWhenIdle
