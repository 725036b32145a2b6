CONSTANTS
  Clamps = 2
  Ftmas = 2
  MaxCcCommands = 2
  IoCount = 5
  W1PulseIo = {1, 2}
  PinOf <- MCPinOf
  PullPin <- MCPullPin
  MaxIoCommands = 2
  MaxEdges = 2
  MaxIoRestarts = 1
  SampleInterval = 20
  CollectionTime = 3
  SampleCount = {1, 2}
  MaxDisturbances = 1
  HpmTimeout = 9
  MaxHpmBegins = 3
  MaxHpmNoise = 1
  Light = {0, 5, 16}
  Pace = {0, 5, 6}
  MaxVemlFaults = 2
  SaiMinNoBuf = 1
  SaiMaxNoBuf = 3
  MaxSaiCuts = 2
  MaxSaiSets = 2
  RawTemps = {1, 32768, 65535}
  MaxW1Faults = 1
SPECIFICATION MCSpec
INVARIANTS BoardTypeOK ClientsKeepApart LinesAreServed PulsesCountedOnce SamplesAreNew FaultStaysInInterval ValueIsGood LightIsTold LevelIsOfItsSample ProbeIsTold
PROPERTIES BegunIsCollected RestartKeepsPins SamplesEnd
CHECK_DEADLOCK FALSE
