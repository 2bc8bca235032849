SPECIFICATION SamplerFairSpec
CONSTANTS
  HasDuration = TRUE
  MaxSamples = 4
INVARIANT SamplerTypeOK
INVARIANT ProcessesAll
PROPERTY ShutdownReturns
CHECK_DEADLOCK FALSE
