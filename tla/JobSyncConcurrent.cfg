SPECIFICATION Spec
CONSTANTS
    LaunchJids = {1}
    OutsideJids = {}
    Minions = {m1, m2}
    Spared = {m2}
    Syncers = {s1, s2}
    HistoryLimit = 2
    MaxClock = 2
    Sls <- WebOnly
    Payloads <- OneReturn
    Target <- MCTarget
    NoRow = NoRow
    web = web
    m1 = m1
    m2 = m2
    s1 = s1
    s2 = s2
CHECK_DEADLOCK FALSE
SYMMETRY SyncerSymmetry
INVARIANTS TypeOK VerdictBacked ChecksOnlyItsTarget
PROPERTIES StickyComplete
