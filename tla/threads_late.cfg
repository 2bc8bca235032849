SPECIFICATION Spec
CONSTANTS
  Thread = {t1, t2}
  NoThread = NoThread
INVARIANT SignalsHandled
CHECK_DEADLOCK FALSE
