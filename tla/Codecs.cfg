SPECIFICATION Spec
CONSTANTS
    Configs <- MCConfigs
    Samples <- MCSamples
    Reading <- MCReading
    Flags <- MCFlags
    Losses <- MCLosses
    SlowEvery = 2
    HomeEvery = 2
    Setups <- MCSetups
    Sysinfo <- MCSysinfo
    Units = {"SBUS", "IBUS", "CRSF", "MSP", "FRAGMENTS", "PPM"}
    SbusSize = 6
    IbusSize = 7
    CrsfMax = 8
    MspMax = 5
    Channels = 5
    SeqMask = 3
    Frames = 4
    Buffer = 2
    Chunk = 2
    MaxFaults <- OneFault
    EscUnits = {"TIMER", "TICKS", "FRAME", "REPLY"}
    Motors = {1, 2, 3}
    PulseInterval = 5000
    Commands = {0, 300, 304, 316, 4995}
    Throttles <- SomeThrottles
    Rates = {50, 480, 8000}
    Codes = {256, 785, 1819, 2972, 4030, 7, 255}
    Jitter = 20
INVARIANTS
    ReaderAgrees
    LinksAreSound
    PulsesAreCommanded
PROPERTIES
    ReaderKeepsUp
    HeaderArrives
