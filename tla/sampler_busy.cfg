CONSTANTS
  SampleInterval = 16
  CollectionTime = 3
  SampleCount = {1, 2}
  MaxDisturbances = 1
SPECIFICATION SamplerFairSpec
PROPERTY BusyIsRetried
CHECK_DEADLOCK FALSE
