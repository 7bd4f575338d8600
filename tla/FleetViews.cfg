SPECIFICATION FairSpec
CONSTANTS
    a = a
    b = b
    v = v
    w = w
    Minions = {a, b}
    NumPods = 2
    Sticky = 1
    Workers = {v, w}
    Setups <- AllSetups
    Panels = {keys_panel, caps_panel}
    CapsPanel = caps_panel
    POLL_STALE_AFTER = 1
    MaxLoads = 1
INVARIANTS TypeOK ViewsTellWhatWasRead
PROPERTIES RemoveIsHonest PollingStops
