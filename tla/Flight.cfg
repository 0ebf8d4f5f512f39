SPECIFICATION FlightAlone
CONSTANTS
  NAux = 1
  Conditions <- ArmAndAir
  FsMode <- AutoHold
  FsValue <- NoFsValue
  RcValues <- LowHigh
  OverrideValues <- NoOverride
  Commands <- AllCommands
  SmoothThrust = FALSE
  MinRc = 885
  MaxRc = 2115
  MinCheck = 1050
  AirmodeThrust = 1400
  Stage1Timeout = 1
  Stage2Delay = 1
  OverrideTimeout = 1
  ClockMod = 3
  IgnoreFrames = 2
  RescueFrames = 3
  RescueDelay = 1
  GpsFeature = FALSE
  HasDevice = TRUE
  GyroPresent = TRUE
  AccelActive = FALSE
  BaroDev = FALSE
  MotorProtocol = TRUE
  MotorStop = FALSE
INVARIANTS
    ReasonMatchesArming
    NothingStartsInFlight
PROPERTIES
    ArmsOnlyWhenSafe
    FailsafeEndsWithFrame
