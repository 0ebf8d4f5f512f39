SPECIFICATION FairSpec
CONSTANTS
  Events = {"GYRO_READ", "ACCEL_READ", "DISARM"}
  NoEvent = "IDLE"
  Size = 3
INVARIANTS
    QueueInv
PROPERTIES
    ImplementsChannel
    EventsArrive
