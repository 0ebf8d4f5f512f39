SPECIFICATION FlightAlone
CONSTANTS
  NAux = 1
  Conditions <- ArmThenFailsafe
  FsMode <- AutoHold
  FsValue <- NoFsValue
  RcValues <- MidBad
  OverrideValues <- TopOnly
  Commands <- NoCommands
  SmoothThrust = TRUE
  MinRc = 885
  MaxRc = 2115
  MinCheck = 1050
  AirmodeThrust = 1400
  Stage1Timeout = 1
  Stage2Delay = 1
  OverrideTimeout = 1
  ClockMod = 3
  IgnoreFrames = 0
  RescueFrames = 0
  RescueDelay = 0
  GpsFeature = FALSE
  HasDevice = TRUE
  GyroPresent = TRUE
  AccelActive = FALSE
  BaroDev = FALSE
  MotorProtocol = TRUE
  MotorStop = FALSE
INVARIANTS
    SilenceIsSafe
PROPERTIES
    ArmNeedsRelease
