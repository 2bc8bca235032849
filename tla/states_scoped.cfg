SPECIFICATION Spec
CONSTANTS
  Thread = {m, a}
  Main = m
  NoThread = NoThread
  OffsetCreates = FALSE
  MaxDepth = 2
  MaxLines = 3
INVARIANT TypeOK
INVARIANT InternalWorkHidden
INVARIANT ScopesRestore
CHECK_DEADLOCK FALSE
