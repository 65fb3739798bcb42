\* A session that is stopped over direct WiFi, on a disk with room.
SPECIFICATION Spec
CONSTANTS
    Managers = {"tcp"}
    Packets <- MCPackets
    MaxInputs = 3
    MaxSecond = 0
    DiskFills = FALSE
PROPERTY
    StopEndsSession
CHECK_DEADLOCK FALSE
