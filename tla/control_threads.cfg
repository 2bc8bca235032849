SPECIFICATION Spec
CONSTANTS
  t1 = t1
  t2 = t2
  Thread = {t1, t2}
  First = t1
  InitEnabled = "on"
  Disciplined = {t1, t2}
  MaxDepth = 2
  MaxStops = 1
  MaxLooseStops = 0
  MaxCount = 3
INVARIANT OnlySubsequentThreads
CHECK_DEADLOCK FALSE
