SPECIFICATION FairLoneSpec
CONSTANTS
    LaunchJids = {1}
    OutsideJids = {2}
    Minions = {m1}
    Spared = {}
    Syncers = {s1}
    HistoryLimit = 1
    MaxClock = 2
    Sls = {}
    Payloads <- OneReturn
    Target <- MCTarget
    NoRow = NoRow
    web = web
    m1 = m1
    s1 = s1
CHECK_DEADLOCK FALSE
INVARIANTS ReturnedNotUnreachable
PROPERTIES NewerVerdictKept EventuallyComplete
