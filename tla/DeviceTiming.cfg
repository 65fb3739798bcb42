\* Timing: no sensor trouble, a clock that wraps many times, every pass as
\* short or as long as the bounds allow.
SPECIFICATION DeviceSpec
CONSTANTS
    CounterMod = 1
    LinkStates = {"ok"}
    Unstable = {}
    ClockMod = 11
    SeqMod = 2
    MinInterval = 1
    MaxInterval = 3
    DefaultInterval = 2
    HealthInterval = 3
    MaxLag = 2
    SetupLag = 2
    Lines <- TimingLines
INVARIANTS
    DeviceTypeOK
    NeverSilent
    HealthFresh
PROPERTIES
    NoEarlyPacket
    OnTime
