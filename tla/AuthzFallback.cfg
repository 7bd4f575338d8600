SPECIFICATION FireSpec
CONSTANTS
    Users = {ada, lee, uma}
    LocalGroups = {}
    IdpGroups = {sso}
    NodeGroups = {}
    Minions = {web, db}
    Setups <- FallbackOnly
    Tokens = {ci, spare}
    SavedIds = {nightly}
    None = None
    ada = ada
    lee = lee
    uma = uma
    team = team
    sso = sso
    rack = rack
    web = web
    db = db
    ci = ci
    spare = spare
    nightly = nightly
CHECK_DEADLOCK FALSE
PROPERTIES FallbackKeepsRole
