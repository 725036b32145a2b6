CONSTANTS
  factory = factory
  update = update
  even = even
  huge = huge
  Image <- MCImage
  Length <- MCLength
  Factory = factory
  PageLen = 2
  FwPages = 2
  ChunkLen = 3
  WordBits = 3
  PendingBits = 1
SPECIFICATION FwSpec
INVARIANT ReadyIsInstalled
