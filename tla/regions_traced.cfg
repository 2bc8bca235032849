SPECIFICATION Spec
CONSTANTS
  t1 = t1
  t2 = t2
  Settings <- OnOrGoesOff
  Negligible = 0
  Thread = {t1}
  Name = {"f", "g"}
  Annotated = {}
  EarlyCalls = TRUE
  MaxDepth = 3
  MaxRegions = 4
INVARIANTS TypeOK WindowEndsRegions
PROPERTIES EndsOnlyItsOwnWhileOn RegionsTraced
CHECK_DEADLOCK FALSE
