CONSTANTS
  NChannels = 2
  NOutputs = 2
  NConditions = 3
  NMixes = 1
  Ports <- MCPorts
  GyroRate = 2000
  SpiGyro = FALSE
  BeeperMasks <- MCBeeperMasks
  MaxEdits = 1
  MixedPages = {"RXFAIL", "ADVANCED", "FEATURE"}
  MaxRequests = 1
SPECIFICATION Spec
INVARIANTS DumpRestores StoredBiasIsWhole
PROPERTIES SetTakesEffect RestartKeepsSaved CalibrationEnds
CHECK_DEADLOCK FALSE
