SPECIFICATION WindowSpec
CONSTANTS
  realtime = realtime
  Settings <- Documented
  Negligible = 0
INVARIANT PeriodsAsDocumented
CHECK_DEADLOCK FALSE
