SPECIFICATION Spec
CONSTANTS
  t1 = t1
  t2 = t2
  Thread = {t1}
  Label = {"a", "b"}
  MaxOpen = 2
  MaxPoints = 2
  MaxExperiments = 1
INVARIANTS BundlesMatch ReportsExperiment
CHECK_DEADLOCK FALSE
