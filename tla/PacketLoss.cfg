\* Packets lost, damaged and cut short, the device and the statistics restarted,
\* a number that wraps.
SPECIFICATION Spec
CONSTANTS
    SeqMod = 9
    Base = 2
    MaxEmitted = 10
INVARIANTS
    StatsTypeOK
    LossIsReal
    LossIsComplete
    NothingIsHidden
