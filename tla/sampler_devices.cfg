SPECIFICATION SamplerSpec
CONSTANTS
  HasDuration = TRUE
  MaxSamples = 4
INVARIANT ReadsOpenDevices
CHECK_DEADLOCK FALSE
