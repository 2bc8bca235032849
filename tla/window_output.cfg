SPECIFICATION WindowSpec
CONSTANTS
  realtime = realtime
  Settings <- OneWindow
  Negligible = 0
INVARIANT OutputEnabled
CHECK_DEADLOCK FALSE
