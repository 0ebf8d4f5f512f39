SPECIFICATION PartsSpec
CONSTANTS
  ClockMod = 1
  Rates <- SomeRates
  IterMod = 16
  Thrusts <- SomeThrusts
  LowThrust <- LowStickThrust
  ILimit = 2
  HoldLow <- HoldMinimum
  HoldHigh = 2
  Demands <- SomeDemands
INVARIANTS
    EvenRatesStarveReceiver
    ControlIsMeant
    MotorsObey
PROPERTIES
    ReceiverIsRead
