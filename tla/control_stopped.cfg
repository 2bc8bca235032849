SPECIFICATION Spec
CONSTANTS
  t1 = t1
  t2 = t2
  Thread = {t1, t2}
  First = t1
  InitEnabled = "on"
  Disciplined = {t2}
  MaxDepth = 2
  MaxStops = 2
  MaxLooseStops = 1
  MaxCount = 4
INVARIANTS TypeOK MeasurementsEnded StoppedStaysStopped
CHECK_DEADLOCK FALSE
