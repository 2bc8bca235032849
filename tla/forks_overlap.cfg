SPECIFICATION Spec
CONSTANTS
  Forker = {t1, t2}
  MaxForks = 2
  Settings <- NoWindow
  Negligible = 0
INVARIANTS RestoredAfterForks
CHECK_DEADLOCK FALSE
