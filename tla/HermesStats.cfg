SPECIFICATION MCSpec
CONSTANTS
  Settings <- AllSettings
  Week = 2
  MaxDay = 4
  MaxActions = 2
  Repaired = {"connectman", "sendman"}
  Watchdogs = {"w1"}
  Periods = {"weekly"}
  TTL <- MCTTL
  MaxTime = 3
  MaxLaunches = 2
  FaultSets <- AllFaultSets
  Wrappers = {w1, w2, w3}
  NoPid = NoPid
  Reused = {w1}
SYMMETRY WrapperSymmetry
CHECK_DEADLOCK FALSE
INVARIANTS
  InOneLedger
  LedgersAreTrue
  OneLaunchPerMarker
  OneBot
  LockIsFreed
PROPERTIES
  ReportedWeeksStay
