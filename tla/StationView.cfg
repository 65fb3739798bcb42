\* A serial port, a TCP connection or a broker, each of which breaks, and a device
\* that restarts while the user changes what the window shows. Ages do not matter here.
SPECIFICATION Spec
CONSTANTS
    Media = {"serial", "tcp", "mqtt"}
    Sensors = {"BME"}
    Rates = {1}
    DefaultRate = 1
    StaleTimeout = 1
    MaxAge = 0
    Requests = {"PAUSE", "RESUME", "INJECT_FAULT"}
    Unplugs = TRUE
INVARIANTS
    StationTypeOK
    ShowsTheDevice
PROPERTY PacketRemovesValues
