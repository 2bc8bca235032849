SPECIFICATION WindowFairSpec
CONSTANTS
  realtime = realtime
  Settings <- DelayOnly
  Negligible = 0
PROPERTY DelayOnlyCollects
CHECK_DEADLOCK FALSE
