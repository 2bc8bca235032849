SPECIFICATION Spec
CONSTANTS
  t1 = t1
  t2 = t2
  Settings <- GoesOff
  Negligible = 0
  Thread = {t1}
  Name = {"f", "g"}
  Annotated = {"g"}
  MaxDepth = 3
  EarlyCalls = FALSE
  MaxRegions = 4
INVARIANT NoRegionOutlivesItsCall
CHECK_DEADLOCK FALSE
