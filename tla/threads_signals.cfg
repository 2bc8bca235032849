SPECIFICATION Spec
CONSTANTS
  Thread = {t1, t2}
  NoThread = NoThread
INVARIANT AllDelivered
CHECK_DEADLOCK FALSE
