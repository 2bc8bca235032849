SPECIFICATION FairSpec
CONSTANTS
  Address = {1}
  Slots = 2
  EndToEnd = FALSE
  Launched = FALSE
  HasDuration = TRUE
  MaxExperiments = 2
INVARIANT TypeOK
INVARIANT ActiveIsPerformed
INVARIANT SavesAll
PROPERTY ThreadEnds
PROPERTY FindsSelection
CHECK_DEADLOCK FALSE
