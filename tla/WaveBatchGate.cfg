SPECIFICATION FairSpec
CONSTANTS
    Setups <- GateSetups
    Failing = {b}
    WaveTimeout = 1
    JobTimeout = 4
    RequestTimeout = 2
    CancelTTL = 6
    Crashes = TRUE
    a = a
    b = b
    c = c
CHECK_DEADLOCK FALSE
INVARIANTS TypeOK EachMinionOnce CompleteCoversRoster GateBoundsFailures CancelStopsWaves RevocationHolds
PROPERTIES BatchSettles
