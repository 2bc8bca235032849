SPECIFICATION Spec
CONSTANTS
  t1 = t1
  t2 = t2
  t3 = t3
  Thread = {t1, t2}
  Initial = {t1, t2}
  NoThread = NoThread
  SampleDelay = {1}
  Overhead = {1}
  MaxOverruns = 4
  Calls = {}
  MaxCalls = 0
  MaxHits = 1
  MaxExperiments = 1
  MaxDelay = 4
INVARIANT PausesOnlyOthers
CHECK_DEADLOCK FALSE
