\* A stream that was paused is resumed.
SPECIFICATION Spec
CONSTANTS
    Media = {"serial"}
    Sensors = {"BME"}
    Rates = {1, 3}
    DefaultRate = 1
    StaleTimeout = 2
    MaxAge = 10
    Requests = {"PAUSE", "RESUME"}
    Unplugs = FALSE
INVARIANT NoFalseStale
