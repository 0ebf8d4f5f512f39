SPECIFICATION Spec
CONSTANTS
    Devices = {"VTX", "LED", "BUTTON", "BARO", "TELEMETRY", "BATTERY"}
    MaxChanges = 3
    Wrap = 32
    MaxLag = 3
    TempDelay = 4
    PressDelay = 6
    Interval = 8
    BiasSamples = 2
    Debounce = 2
    SingleClick = 4
    LongClick = 5
    Samples = 12
    CellFull = 4
    CellWarning = 3
    NoBattery = 2
    MaxEvents = 2
    MaxAlarms = 2
    c1 = c1
    c2 = c2
    h1 = h1
    h2 = h2
    Crafts = {c1, c2}
    Handsets = {h1, h2}
    Parties <- TwoMeet
    Nobody = nobody
    LastChannel = 2
    CraftChannel = 1
    FirstChannel = 2
    QueueMost = 2
    MaxRestarts = 2
INVARIANTS
    ReportsAreTrue
    OneMaster
PROPERTIES
    StateIsShown
    LinkComesUp
