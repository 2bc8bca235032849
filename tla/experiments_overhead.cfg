SPECIFICATION Spec
CONSTANTS
  Address = {1}
  Slots = 2
  EndToEnd = TRUE
  Launched = FALSE
  HasDuration = TRUE
  MaxExperiments = 2
INVARIANT ActiveIsPerformed
CHECK_DEADLOCK FALSE
