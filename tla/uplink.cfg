CONSTANTS
  N = 3
  Pulse <- MCPulse
  Interval <- MCEvery
  Cycle = 1
  Fits = 1
  PromptAck = TRUE
  MaxPulses = 2
  MaxLosses = 2
  MaxExtras = 2
  MaxReads = 0
SPECIFICATION MCSpec
INVARIANTS UplinkTypeOK PromptNoFragmentForgotten
PROPERTIES PromptPulsesReported SlowSamplesGoOut
