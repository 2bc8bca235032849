SPECIFICATION FairSpec
CONSTANTS
  Thread = {t1, t2}
  NoThread = NoThread
INVARIANT TypeOK
INVARIANT EndedThreadsAreForgotten
INVARIANT MeasurementsStopped
PROPERTY ShutdownReturns
CHECK_DEADLOCK FALSE
