SPECIFICATION Spec
CONSTANTS
  Forker = {t1}
  MaxForks = 1
  Settings <- Delay
  Negligible = 0
INVARIANTS CollectsInWindows
CHECK_DEADLOCK FALSE
