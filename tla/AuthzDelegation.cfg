SPECIFICATION FireSpec
CONSTANTS
    Users = {ada, lee, uma}
    LocalGroups = {team}
    IdpGroups = {sso}
    NodeGroups = {rack}
    Minions = {web, db}
    Setups <- AllSituations
    Tokens = {ci, spare}
    SavedIds = {nightly}
    None = None
    ada = ada
    lee = lee
    uma = uma
    team = team
    sso = sso
    rack = rack
    web = web
    db = db
    ci = ci
    spare = spare
    nightly = nightly
CHECK_DEADLOCK FALSE
INVARIANTS FireTypeOK FiresStayAuthorised AdminRemains RoleFollowsGrants BackfillFollowsSettings
PROPERTIES DelegationIsSubset
