SPECIFICATION WindowFairSpec
CONSTANTS
  realtime = realtime
  Settings <- Schedules
  Negligible = 1
INVARIANTS WindowTypeOK CollectsInWindows
PROPERTY WindowEnds
CHECK_DEADLOCK FALSE
