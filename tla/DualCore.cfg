SPECIFICATION Spec
CONSTANTS
  ClockMod = 10
  GyroInterval = 2
  LoopDenom = 2
  AccelDenom = 2
  InputDenom = 2
  ActuatorInterval = 5
  IterMod = 2
  QueueSize = 2
PROPERTIES
    TimersHold
    NothingStarves
