SPECIFICATION Spec
CONSTANTS
  Thread = {m, a}
  Main = m
  NoThread = NoThread
  OffsetCreates = FALSE
  MaxDepth = 2
  MaxLines = 3
INVARIANT EnabledAfterSetup
CHECK_DEADLOCK FALSE
