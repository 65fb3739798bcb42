\* Every link state on both sensors; the auxiliary device comes and goes.
SPECIFICATION SensorSpec
CONSTANTS
    CounterMod = 3
    LinkStates = {"ok", "flaky", "gone"}
    Unstable = {"BME", "IMU"}
INVARIANT SensorTypeOK
PROPERTIES
    LossCountedOnce
    InjectionKeepsPhysical
    ClearReportsTruth
    RecoveryCounted
