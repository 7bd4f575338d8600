SPECIFICATION FairSpec
CONSTANTS
    Admins = {ada, bob}
    Pods = {p0, p1}
    Groups = {web}
    Mappings = {start}
    ApiLines = {port}
    HISTORY_LIMIT = 2
    RESTART_MAX_POLLS = 1
    RESTART_STALE = 2
    RESTART_NOTICE = 1
    Budgets <- WritersThenRollouts
CHECK_DEADLOCK FALSE
INVARIANTS TypeOK RestartApplies
PROPERTIES EditsCompose OverwrittenIsKept HealIsSound RestartSettles
