CONSTANTS
  N = 2
  Pulse <- MCOnePulse
  Interval <- MCSecond
  Cycle = 2
  Fits = 2
  PromptAck = TRUE
  MaxPulses = 1
  MaxLosses = 1
  MaxExtras = 0
  MaxReads = 0
SPECIFICATION SecondSpec
PROPERTY AckMeansSent
