SPECIFICATION Spec
CONSTANTS
    KeepAddress = 255
    Cells = {0, 1, 2}
    Blank = 99
    EscKinds = {"ATM", "ARM", "SK"}
    EscCount = 2
    Requests <- MCRequests
    MaxRequests = 3
    MaxFaults = 1
    FaultAt = {1, 5, 6}
    LongLen = 12
    SeqMod = 4
INVARIANTS
    OkMeansDone
PROPERTIES
    OnlyAskedIsChanged
    SessionEnds
CHECK_DEADLOCK FALSE
