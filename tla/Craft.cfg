SPECIFICATION CraftSpec
CONSTANTS
  NAux = 1
  Conditions <- ArmOnly
  FsMode <- AutoHold
  FsValue <- NoFsValue
  RcValues <- LowHigh
  OverrideValues <- NoOverride
  Commands <- NoCommands
  SmoothThrust = FALSE
  MinRc = 885
  MaxRc = 2115
  MinCheck = 1050
  AirmodeThrust = 1400
  Stage1Timeout = 1
  Stage2Delay = 2
  OverrideTimeout = 1
  ClockMod = 4
  IgnoreFrames = 0
  RescueFrames = 0
  RescueDelay = 0
  GpsFeature = FALSE
  HasDevice = TRUE
  GyroPresent = TRUE
  AccelActive = FALSE
  BaroDev = FALSE
  MotorProtocol = TRUE
  MotorStop = TRUE
INVARIANTS
    AtMostOneLateWrite
PROPERTIES
    SilenceStopsMotors
