CONSTANTS
  regA = regA
  regB = regB
  regC = regC
  v1 = v1
  none = none
  crc_bytes = crc_bytes
  Reg <- MCTwoDev
  Unit <- MCUnit
  Value = {v1}
  NoValue = none
  CrcBytes = crc_bytes
  Slots = 1
  RespTimeout = 1
  TxGap = 0
  MaxRetransmits = 2
  Binary = TRUE
  MaxAsks = 2
  MaxFaults = 3
SPECIFICATION FairSpec
PROPERTY NobodyWaits
CHECK_DEADLOCK FALSE
