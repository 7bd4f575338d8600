------------------------------ MODULE MCAuthz -------------------------------
(* Small instances of Authz and JobFire.                                    *)
EXTENDS JobFire, TLC

CONSTANTS ada, lee, uma, team, sso, rack, web, db, ci, spare, nightly

Row(u, r, s) == [subject |-> u, role |-> r, scope |-> s, source |-> "manual"]

\* After the switch: two admins, or an admin and a lead of the web minions.
ScopedRoles == (ada :> "admin") @@ (lee :> "scoped") @@ (uma :> "none")
LeadGrants == {Row(ada, "admin", Fleet), Row(lee, "team_lead", Match({web}))}

\* Before it: the migration gave ada a grant; uma was promoted since.
LegacyRoles == (ada :> "admin") @@ (lee :> "none") @@ (uma :> "operator")
LegacyGrants == {[Row(ada, "admin", Fleet) EXCEPT !.source = "backfill"]}

\* An admin, a lead of the web minions and a user share the scoped mode.
Delegation ==
    [mode |-> "scoped", users |-> {ada, lee, uma}, role |-> ScopedRoles,
     grants |-> LeadGrants, fallbacks |-> {FALSE}, switches |-> FALSE,
     sso |-> {}, idp |-> {}, minions |-> {web, db}, matches |-> {{web}},
     teams |-> LocalGroups, racks |-> NodeGroups, posts |-> Kinds,
     userRoles |-> {"secrets_reader", "admin"},
     groupRoles |-> {"secrets_reader"}, crashes |-> FALSE, env |-> {}, writes |-> 3,
     service |-> {}, saved |-> [j \in SavedIds |-> None],
     pins |-> [t \in Tokens |-> None], running |-> {}, asks |-> {}, fires |-> 0]

\* Leads are made and unmade, of more than the web minions too.
Leads ==
    [Delegation EXCEPT !.matches = {{web, db}}, !.racks = {}, !.teams = {},
                       !.userRoles = {"team_lead"}]

\* The lead grants to an account that lives on the migration fallback.
Lapse ==
    [Delegation EXCEPT !.role = [ScopedRoles EXCEPT ![uma] = "viewer"],
                       !.grants = LeadGrants \cup {Row(team, "secrets_reader", Match({web}))},
                       !.fallbacks = {TRUE}, !.minions = {web}, !.racks = {},
                       !.posts = {"create", "drop", "members"},
                       !.userRoles = {"secrets_reader"}, !.writes = 2]

\* Admins edit the OIDC groups and switch modes, a user signs in, workers die.
Switch ==
    [Delegation EXCEPT !.mode = "legacy", !.users = {ada, uma}, !.role = LegacyRoles,
                       !.grants = LegacyGrants, !.fallbacks = BOOLEAN, !.switches = TRUE,
                       !.sso = {uma}, !.idp = {sso}, !.minions = {web},
                       !.racks = {}, !.teams = {}, !.userRoles = {"admin"},
                       !.groupRoles = {"operator"}, !.crashes = TRUE]

\* The same switch with a local group instead of one of the identity provider.
Crossing == [Switch EXCEPT !.sso = {}, !.idp = {}, !.teams = LocalGroups]

\* rbac_mode, the fallback and the OIDC groups come from the environment until an
\* admin saves them.
Environment ==
    [Switch EXCEPT !.env = Flags, !.posts = {"create", "set_role"}, !.crashes = FALSE]

\* Scoped mode with workers that die.
Dying ==
    [Delegation EXCEPT !.minions = {web}, !.crashes = TRUE, !.writes = 2,
                       !.userRoles = {"secrets_reader", "team_lead", "admin"}]

\* The switch alone, with the fallback on.
Fallback ==
    [Switch EXCEPT !.fallbacks = {TRUE}, !.sso = {}, !.idp = {}, !.groupRoles = {},
                   !.userRoles = {"team_operator"}, !.crashes = FALSE]

\* Jobs fired and killed by the admin and by an operator of the web minions while
\* grants, groups and the mode move; uma is a service account with a pinned token.
T(kind, ids) == [kind |-> kind, ids |-> ids]
Ask(fun, tgt) == [fun |-> fun, tgt |-> tgt]
Firings ==
    [Delegation EXCEPT
        !.role = (ada :> "admin") @@ (lee :> "scoped") @@ (uma :> "scoped"),
        !.matches = {{web}, {web, db}},
        !.grants = {Row(ada, "admin", Fleet), Row(lee, "team_operator", Match({web, db})),
                    Row(uma, "team_operator", Match({web}))},
        !.switches = TRUE, !.teams = {}, !.racks = {}, !.posts = {"drop"},
        !.userRoles = {"team_operator"}, !.groupRoles = {}, !.writes = 2,
        !.service = {uma},
        !.saved = [j \in SavedIds |-> Ask("change", T("list", {web, db}))],
        !.pins = (ci :> nightly) @@ (spare :> None),
        !.running = {T("list", {web}), T("glob", {web, db})},
        !.asks = {Ask("change", T("star", {web, db}))},
        !.fires = 1]

\* A node group is the target, and the scope of grants, while it is edited.
Racks ==
    [Firings EXCEPT !.racks = NodeGroups, !.running = {},
                    !.asks = {Ask("read", T("group", {rack}))}]

\* Saved jobs and tokens come and go between the requests of a service account.
Pins ==
    [Firings EXCEPT !.users = {ada, uma}, !.posts = {"delete"}, !.switches = FALSE,
                    !.grants = {Row(ada, "admin", Fleet),
                                Row(uma, "team_operator", Match({web}))},
                    !.minions = {web}, !.userRoles = {}, !.writes = 4, !.fires = 2, !.running = {},
                    !.asks = {Ask("change", T("list", {web})), Ask("read", T("list", {web}))}]

AllSituations ==
    ("delegation" :> Delegation) @@ ("leads" :> Leads) @@ ("lapse" :> Lapse) @@ ("dying" :> Dying)
    @@ ("switch" :> Switch) @@ ("crossing" :> Crossing) @@ ("environment" :> Environment)
    @@ ("firings" :> Firings) @@ ("racks" :> Racks) @@ ("pins" :> Pins)
FallbackOnly == "fallback" :> Fallback
=============================================================================
