SPECIFICATION Spec
CONSTANTS
  t1 = t1
  t2 = t2
  t3 = t3
  Thread = {t1, t2}
  Initial = {t1}
  NoThread = NoThread
  SampleDelay = {0, 1}
  Overhead = {}
  MaxOverruns = 0
  Calls = {"trylock", "unlock", "barrier", "create"}
  MaxCalls = 3
  MaxHits = 1
  MaxExperiments = 1
  MaxDelay = 1
INVARIANTS TypeOK QuietWithoutHit
CHECK_DEADLOCK FALSE
