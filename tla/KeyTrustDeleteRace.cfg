SPECIFICATION Spec
CONSTANTS
    N = 2
    Keys = {k1, k2}
    NoKey = NoKey
    Passes = {cron}
    Human = human
    Acts = {"accept", "reject", "delete"}
    MaxActs = 2
    MaxOutages = 1
    k1 = k1
    k2 = k2
    cron = cron
    button = button
    human = human
CHECK_DEADLOCK FALSE
INVARIANTS InventsNoTrust
