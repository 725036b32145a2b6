CONSTANTS
  regA = regA
  regB = regB
  regC = regC
  v1 = v1
  none = none
  crc_bytes = crc_bytes
  Reg <- MCTwoReg
  Unit <- MCUnit
  Value = {v1}
  NoValue = none
  CrcBytes = crc_bytes
  Slots = 2
  RespTimeout = 2
  TxGap = 0
  MaxRetransmits = 2
  Binary = FALSE
  MaxAsks = 3
  MaxFaults = 2
SPECIFICATION Spec
PROPERTY RightRegister
CHECK_DEADLOCK FALSE
