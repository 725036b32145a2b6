CONSTANTS
  letter = letter
  lf = lf
  cr = cr
  Byte = {letter, lf, cr}
  Terminator = {lf, cr}
  Size = 4
  MaxLen = 3
  LineLen = 4
  MaxStream = 5
  Threaded = FALSE
  Overread = FALSE
  OutSize = 4
  PacketSize = 2
  LongestLine = 3
  StartDelay = 1
  StopDelay = 1
  MaxLines = 3
  Asked = {32, 33, 34, 66, 2129, 2130, 2163, 4226, 30000, 40000}
  Drained = {0, 1, 40}
  HoldUp = 1
  HalfByte = 2
  NameLen = 2
  StrLen = 3
  EnumBytes = 1
  PayloadLen = 16
  Name = {101, 102}
  Value <- MCValue
  Sample <- MCSample
  Command = {"a", "b", "long"}
  TooLong = {"long"}
  MaxDrops = 2
  MaxMessages = 3
  MaxSettings = 3
  JsonSize = 16
  ItemSizes = {2, 3}
  MaxItems = 4
SPECIFICATION MCSpec
INVARIANTS SerialTypeOK CallInv LinesAreThoseSent OutIsWhole PayloadDecodes EspIsWhole
PROPERTIES Refines EveryLineIsHandled NothingHangs
CHECK_DEADLOCK FALSE
