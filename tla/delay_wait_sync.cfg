SPECIFICATION Spec
CONSTANTS
  t1 = t1
  t2 = t2
  t3 = t3
  Thread = {t1, t2}
  Initial = {t1, t2}
  NoThread = NoThread
  SampleDelay = {1}
  Overhead = {}
  MaxOverruns = 0
  Calls = {"lock", "unlock"}
  MaxCalls = 3
  MaxHits = 1
  MaxExperiments = 1
  MaxDelay = 3
PROPERTY WaitNeverPutsAhead
CHECK_DEADLOCK FALSE
