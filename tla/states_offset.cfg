SPECIFICATION Spec
CONSTANTS
  Thread = {m, a}
  Main = m
  NoThread = NoThread
  OffsetCreates = TRUE
  MaxDepth = 2
  MaxLines = 3
INVARIANT ScopesRestore
CHECK_DEADLOCK FALSE
