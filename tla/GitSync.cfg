SPECIFICATION FairSpec
CONSTANTS
    Remotes = {main, moved}
    Home = main
    Formulas = {apache}
    NoFormula = NoFormula
    MaxVersions <- Versions3
    MaxRequests <- Requests3
    OffOrigin = FALSE
    main = main
    moved = moved
    apache = apache
CHECK_DEADLOCK FALSE
INVARIANTS TypeOK EditReachesCommit
PROPERTIES UnpushedSurvive CleanKeepsFormulas SyncDelivers RefreshRetried
