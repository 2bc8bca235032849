SPECIFICATION Spec
CONSTANTS
  t1 = t1
  t2 = t2
  Settings <- DelayThenDuration
  Negligible = 0
  Thread = {t1}
  Name = {"f", "g"}
  Annotated = {}
  MaxDepth = 3
  EarlyCalls = FALSE
  MaxRegions = 3
INVARIANT NoRegionOutlivesItsCall
CHECK_DEADLOCK FALSE
