CONSTANTS
  regA = regA
  regB = regB
  regC = regC
  v1 = v1
  none = none
  crc_bytes = crc_bytes
  Reg <- MCTwoReg
  Unit <- MCUnit
  Value = {v1}
  NoValue = none
  CrcBytes = crc_bytes
  Slots = 2
  RespTimeout = 2
  TxGap = 0
  MaxRetransmits = 2
  Binary = FALSE
  MaxAsks = 3
  MaxFaults = 2
  factory = factory
  update = update
  even = even
  huge = huge
  Image <- MCImage
  Length <- MCLength
  Factory = factory
  PageLen = 2
  FwPages = 2
  ChunkLen = 3
  WordBits = 3
  PendingBits = 1
  Blocks = 4
  DevName = {"d1", "d2"}
  RegName = {"r1", "r2"}
  UnitId = {1, 2}
  RegAddr = {1, 2}
  MemSlots = 2
  MaxMemCommands = 4
  MaxMemReads = 2
  HalfByte = 2
  Number <- MCNumber
SPECIFICATION MCSpec
SYMMETRY MCSymmetry
INVARIANTS DeviceTypeOK ValueSurvives MemIsWhole ToldItsRegister BootsAsFlagged ReadyIsCopied
PROPERTIES ReadingsAreOwn SuccessMeansWritten
CHECK_DEADLOCK FALSE
