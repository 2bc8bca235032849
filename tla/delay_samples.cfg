SPECIFICATION FairSpec
CONSTANTS
  t1 = t1
  t2 = t2
  t3 = t3
  Thread = {t1, t2}
  Initial = {t1, t2}
  NoThread = NoThread
  SampleDelay = {1}
  Overhead = {1}
  MaxOverruns = 1
  Calls = {}
  MaxCalls = 0
  MaxHits = 1
  MaxExperiments = 2
  MaxDelay = 8
INVARIANT QuietWithoutHit
PROPERTY DelaysConverge
CHECK_DEADLOCK FALSE
