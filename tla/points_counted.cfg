SPECIFICATION Spec
CONSTANTS
  t1 = t1
  t2 = t2
  Thread = {t1}
  Label = {"a", "b"}
  MaxOpen = 2
  MaxPoints = 2
  MaxExperiments = 2
INVARIANTS TypeOK PointsConserved
CHECK_DEADLOCK FALSE
