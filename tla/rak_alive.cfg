CONSTANTS
  InitMsgs = 5
  ShortResets = 2
  MayConnect = TRUE
  MaxFailures = 0
  MaxCommands = 1
SPECIFICATION Spec
PROPERTY AckIsForThePacket
CHECK_DEADLOCK FALSE
