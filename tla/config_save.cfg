CONSTANTS
  Blocks = 4
  DevName = {"d1", "d2"}
  RegName = {"r1", "r2"}
  UnitId = {1, 2}
  RegAddr = {1, 2}
  MemSlots = 2
  MaxMemCommands = 6
  MaxMemReads = 2
SPECIFICATION MemSpec
INVARIANT SavedIsInFlash
CHECK_DEADLOCK FALSE
