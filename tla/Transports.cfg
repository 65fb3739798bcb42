\* Each manager in turn: two serial ports that come and go, a device and a broker
\* that do, a simulator with two rates, and a user who does anything at any moment.
SPECIFICATION TransportsFairSpec
CONSTANTS
    Ports = {"COM3", "COM4"}
    Exclusive = TRUE
    DemoRates = {1, 3}
    DemoRate = 1
INVARIANTS
    TransportsTypeOK
    ConnectedIsServed
    StoppedIsSilent
    EventsTellTruth
    LinesAreWhole
    DemoObeys
    DemoFlows
PROPERTIES
    LinkIsRestored
    ReadersStop
    CommandsArrive
    DemoCountsOn
