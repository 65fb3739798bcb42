\* Sessions of logging in two seconds, on a disk that fills up, while the link
\* changes, lines arrive and the user presses everything.
SPECIFICATION Spec
CONSTANTS
    Managers = {"serial", "tcp"}
    Packets <- MCPackets
    MaxInputs = 4
    MaxSecond = 1
    DiskFills = TRUE
INVARIANTS
    SessionTypeOK
    RecordIsComplete
    SummaryCoversRecord
    ControlsFollowLink
CHECK_DEADLOCK FALSE
