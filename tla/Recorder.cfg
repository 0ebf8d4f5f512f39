SPECIFICATION Spec
CONSTANTS
  FlashSize = 5
  JournalItems = 2
  FlushSize = 2
  BufferSize = 3
  SectorSize = 4
  ScanStep = 2
  Data = {0, 1, 2, 3, 4}
  Blank = 0
  Garbage = 5
  Modes = {"NORMAL", "TEST", "ALWAYS"}
  PausePresent = TRUE
  BlankData = TRUE
  EraseAnytime = FALSE
  Recordings = 2
  LoopBytes = 1
INVARIANTS
    LogsAreReadable
    LogHoldsOneRecording
PROPERTIES
    LogsAreKept
    ShutdownEnds
