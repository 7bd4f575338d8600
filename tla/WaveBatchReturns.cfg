SPECIFICATION Spec
CONSTANTS
    Setups <- ShortOnly
    Failing = {b}
    WaveTimeout = 1
    JobTimeout = 4
    RequestTimeout = 2
    CancelTTL = 6
    Crashes = FALSE
    a = a
    b = b
    c = c
CHECK_DEADLOCK FALSE
PROPERTIES MissingMeansSilent
