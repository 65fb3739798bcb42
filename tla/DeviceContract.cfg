\* Every command line on both channels under the loop's fairness, an IMU that comes,
\* goes and answers at times, the shortest timing that still separates passes.
SPECIFICATION FairDeviceSpec
CONSTANTS
    CounterMod = 1
    LinkStates = {"ok", "flaky", "gone"}
    Unstable = {"IMU"}
    ClockMod = 5
    SeqMod = 2
    MinInterval = 1
    MaxInterval = 2
    DefaultInterval = 1
    HealthInterval = 1
    MaxLag = 1
    SetupLag = 0
    Lines <- AllLines
PROPERTIES
    ImplementsContract
    RecoversWhenBack
    LossIsReported
