SPECIFICATION Spec
CONSTANTS
    LaunchJids = {1, 2}
    OutsideJids = {}
    Minions = {m1}
    Spared = {}
    Syncers = {s1, s2}
    HistoryLimit = 1
    MaxClock = 2
    Sls = {}
    Payloads <- OneReturn
    Target <- MCTarget
    NoRow = NoRow
    web = web
    m1 = m1
    s1 = s1
    s2 = s2
CHECK_DEADLOCK FALSE
PROPERTIES NewerVerdictKept
