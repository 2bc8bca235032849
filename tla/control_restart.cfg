SPECIFICATION Spec
CONSTANTS
  t1 = t1
  t2 = t2
  Thread = {t1}
  First = t1
  InitEnabled = "on"
  Disciplined = {}
  MaxDepth = 3
  MaxStops = 0
  MaxLooseStops = 2
  MaxCount = 4
INVARIANTS FinalizesEnded StoppedStaysStopped
CHECK_DEADLOCK FALSE
