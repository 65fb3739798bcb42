\* An IMU that answers a wrong identity once and then its re-initialisation.
SPECIFICATION HealthyBootSpec
CONSTANTS
    CounterMod = 3
    LinkStates = {"ok", "flaky"}
    Unstable = {"IMU"}
PROPERTY RepairedLossRecorded
