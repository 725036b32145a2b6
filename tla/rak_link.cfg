CONSTANTS
  InitMsgs = 5
  ShortResets = 2
  MayConnect = TRUE
  MaxFailures = 2
  MaxCommands = 3
  InitSteps = 3
  MaxResend = 2
  FastResets = 2
  MaxPackets = 2
  MaxMisses = 4
  MaxConfigs = 2
SPECIFICATION MCSpec
INVARIANTS ModemsTypeOK
PROPERTIES IsLink ToldTheTruth SendsTheLatest ModemsConnect
CHECK_DEADLOCK FALSE
