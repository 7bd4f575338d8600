------------------------------- MODULE Authz --------------------------------
(***************************************************************************)
(* Who may do what: the grants, local groups, IdP mappings and role column *)
(* of authz.py and the pages that write them (users.py, settings.py,       *)
(* groups.py, the OIDC login of auth.py), in legacy and in scoped mode.    *)
(*                                                                         *)
(* A write request is its check and commit, one step, and then one         *)
(* refresh_role_cache per affected user, each its own transaction; other   *)
(* requests run in between and a worker may die there.  Entries of the     *)
(* caller read by the check are memoised for the rest of the request.      *)
(***************************************************************************)
EXTENDS Naturals, FiniteSets

CONSTANTS
    Users,        \* accounts
    LocalGroups,  \* local groups (users)
    IdpGroups,    \* groups of the identity provider
    NodeGroups,   \* ids of MinionGroup rows
    Minions,
    Setups        \* the situations to start in, by name

Ladder == {"viewer", "operator", "admin"}
FLEET_ONLY_ROLES == Ladder

\* The roles and permissions the properties tell apart.  user.admin goes with
\* grant.admin, mine.read with pillar.read, audit.read with user.read.
ROLE_PERMS ==
    [viewer         |-> {"pillar.read", "file.read"},
     operator       |-> {"pillar.read", "file.read", "job.run", "group.write"},
     admin          |-> {"pillar.read", "file.read", "job.run", "group.write",
                         "user.read", "grant.admin"},
     team_operator  |-> {"job.run"},
     secrets_reader |-> {"pillar.read"},
     team_lead      |-> {"job.run", "grant.delegate", "group.write", "user.read"},
     file_reader    |-> {"file.read"}]

Roles == DOMAIN ROLE_PERMS
Perms == UNION {ROLE_PERMS[r] : r \in Roles}
FleetDomain == {"grant.admin"}
PrefixDomain == {"file.read"}
DelegateDomain == {"user.read"}
MinionDomain == Perms \ (FleetDomain \cup PrefixDomain \cup DelegateDomain)

\* A scope: the fleet, a file prefix, a set of ids (list, glob, grain) or a
\* node group.
Fleet == [kind |-> "fleet", value |-> {}]
Prefix == [kind |-> "prefix", value |-> {}]
Match(ids) == [kind |-> "match", value |-> ids]
InGroup(g) == [kind |-> "group", value |-> {g}]
MatchScopes(matches, racks) ==
    {Match(ids) : ids \in matches} \cup {InGroup(g) : g \in racks}
MinionScopes == MatchScopes(UNION {Setups[n].matches : n \in DOMAIN Setups}, NodeGroups)
Scopes == {Fleet, Prefix} \cup MinionScopes

Subjects == Users \cup LocalGroups
Entry == [role: Roles, scope: Scopes]
Grant == [subject: Subjects, role: Roles, scope: Scopes,
          source: {"manual", "backfill"}]
Mapping == [group: IdpGroups, role: Roles, scope: Scopes,
            origin: {"manual", "backfill"}]

Kinds == {"create", "drop", "members", "disband", "set_role", "delete", "settings"}
Flags == {"mode", "fallback", "groups"}

\* A situation: rbac_mode, the accounts, their role column and the grants at the
\* start, the values of rbac_role_fallback, whether admins switch rbac_mode, the
\* accounts that sign in through OIDC and their groups, the minions, the id sets
\* that list, glob and grain scopes name, the local groups and node groups that
\* are edited, the write requests posted, the roles given to users and to groups,
\* whether workers die between a commit and its refreshes, the settings that the
\* deployment's environment gives (RBAC_MODE, RBAC_ROLE_FALLBACK, OIDC_*_GROUPS)
\* and the bound on write requests.
ASSUME SetupsAssumption ==
    \A n \in DOMAIN Setups : LET s == Setups[n] IN
        /\ s.mode \in {"legacy", "scoped"}
        /\ s.users \subseteq Users /\ s.sso \subseteq Users /\ s.idp \subseteq IdpGroups
        /\ s.role \in [Users -> Ladder \cup {"scoped", "none"}]
        /\ s.grants \subseteq Grant
        /\ \A g \in s.grants : g.subject \in Users => g.subject \in s.users
        /\ s.fallbacks \subseteq BOOLEAN /\ s.fallbacks # {}
        /\ s.minions \subseteq Minions /\ s.matches \subseteq SUBSET Minions
        /\ s.teams \subseteq LocalGroups /\ s.racks \subseteq NodeGroups
        /\ s.posts \subseteq Kinds
        /\ s.userRoles \subseteq Roles /\ s.groupRoles \subseteq Roles
        /\ s.switches \in BOOLEAN /\ s.crashes \in BOOLEAN
        /\ s.env \subseteq Flags
        /\ s.writes \in Nat
ASSUME SubjectsAssumption == Users \cap LocalGroups = {}

VARIABLES
    setup,      \* the name of the situation; it does not change
    mode,       \* rbac_mode
    fallback,   \* rbac_role_fallback is not off
    env,        \* the settings without a row, whose value is the environment's
    users,      \* the accounts that exist
    role,       \* users.role, in scoped mode a cache
    grants,     \* grant rows
    members,    \* members[g]: local group members
    claims,     \* claims[u]: the groups of u's last OIDC login
    mappings,   \* IdP role mappings
    oidcRole,   \* the ladder role the OIDC settings give a group
    row,        \* row[n]: none, live or gone, the MinionGroup row
    nodes,      \* nodes[n]: its members
    snapshot,   \* the minions in the inventory
    req,        \* req[a]: a's write request after its commit
    granted,    \* accounts that have had a grant, a group's or a mapping's
    stale,      \* accounts whose role column was last computed from the memo, or
                \* whose recomputation went with a worker or was never asked for
    settled,    \* scoped mode was entered on the settings page, and the group
                \* lists are the ones it read
    writes      \* write requests so far

flagVars == <<mode, fallback, env>>
dirVars == <<users, members, claims>>
idpVars == <<mappings, oidcRole>>
fleetVars == <<row, nodes, snapshot>>
recordVars == <<granted, stale, settled>>
vars == <<flagVars, dirVars, role, grants, idpVars, fleetVars, req, setup,
          recordVars, writes>>

S == Setups[setup]

\* A write request: what it asks for, whether it passed its check as a
\* delegate's, the memo of the caller's entries and the users whose role column
\* is still to be recomputed.
Operation == [kind: Kinds, on: Subjects, role: Roles, scope: Scopes, set: SUBSET Users]
Request == [phase: {"checked", "refresh"}, delegated: BOOLEAN, op: Operation,
            memo: SUBSET Entry, memoised: BOOLEAN, todo: SUBSET Users]
Idle == [phase |-> "idle"]
AllIdle == \A a \in Users : req[a] = Idle

TypeOK ==
    /\ setup \in DOMAIN Setups
    /\ mode \in {"legacy", "scoped"}
    /\ fallback \in BOOLEAN
    /\ env \subseteq S.env
    /\ users \subseteq Users
    /\ role \in [Users -> Ladder \cup {"scoped", "none"}]
    /\ grants \subseteq Grant
    /\ \A g \in grants : g.subject \in Users => g.subject \in users
    /\ members \in [LocalGroups -> SUBSET users]
    /\ claims \in [Users -> SUBSET IdpGroups]
    /\ mappings \subseteq Mapping
    /\ oidcRole \in [IdpGroups -> {"admin", "operator", "none"}]
    /\ row \in [NodeGroups -> {"none", "live", "gone"}]
    /\ nodes \in [NodeGroups -> SUBSET Minions]
    /\ snapshot \subseteq Minions
    /\ req \in [Users -> Request \cup {Idle}]
    /\ granted \subseteq Users /\ stale \subseteq Users /\ settled \in BOOLEAN
    /\ writes \in 0..S.writes

-----------------------------------------------------------------------------
(* Evaluation (authz.py).                                                   *)

EntryOf(x) == [role |-> x.role, scope |-> x.scope]

EntriesFrom(rows, teams, groups, maps, u) ==
    LET applies(subject) ==
            subject = u \/ (subject \in LocalGroups /\ u \in teams[subject])
    IN  {EntryOf(g) : g \in {h \in rows : applies(h.subject)}}
        \cup {EntryOf(m) : m \in {n \in maps : n.group \in groups}}

\* _grant_entries, from the rows: one's own grants, those of one's local groups
\* and the mappings of the groups of the last claim.
Entries(u) == EntriesFrom(grants, members, claims[u], mappings, u)

\* _effective_entries: the migration fallback for an account without grants.
EffectiveFrom(entries, u) ==
    IF entries = {} /\ fallback /\ role[u] \in Ladder
    THEN {[role |-> role[u], scope |-> Fleet]}
    ELSE entries
Effective(u) == EffectiveFrom(Entries(u), u)

\* _resolve_scope.  A group whose row is missing resolves to nothing.
Resolve(s) ==
    CASE s.kind = "match" -> s.value \cap snapshot
      [] s.kind = "group" ->
            (UNION {nodes[n] : n \in {k \in s.value : row[k] = "live"}}) \cap snapshot
      [] OTHER -> {}

\* A row counts for a permission if its role has it, on a scope it may have.
Carries(e, p) ==
    p \in ROLE_PERMS[e.role] /\ (e.role \in FLEET_ONLY_ROLES => e.scope = Fleet)

FleetAmong(entries, p) == \E e \in entries : p \in ROLE_PERMS[e.role] /\ e.scope = Fleet
has_fleet(u, p) == FleetAmong(Effective(u), p)

\* authorize without a minion or a path: the permission on some scope.
GrantedAmong(entries, p) ==
    \E e \in entries :
        /\ Carries(e, p)
        /\ \/ e.scope = Fleet
           \/ p \in DelegateDomain
           \/ p \in PrefixDomain /\ e.scope = Prefix
           \/ p \in MinionDomain /\ e.scope # Prefix
authorize(u, p) == GrantedAmong(Effective(u), p)

\* perm_scope_minions; minions_with for a permission of the minion domain.
MinionsAmong(entries, p) ==
    UNION {IF e.scope = Fleet THEN snapshot ELSE Resolve(e.scope) :
             e \in {f \in entries : Carries(f, p)}}
perm_scope_minions(u, p) == MinionsAmong(Effective(u), p)

minions_with(u, p) == IF p \in MinionDomain THEN perm_scope_minions(u, p) ELSE {}

\* refresh_role_cache: the role column computed from entries.
CachedRole(entries) ==
    LET on(r) == [role |-> r, scope |-> Fleet] \in entries IN
    IF on("admin") THEN "admin"
    ELSE IF on("operator") THEN "operator"
    ELSE IF on("viewer") THEN "viewer"
    ELSE IF entries # {} THEN "scoped" ELSE "none"

-----------------------------------------------------------------------------
(* Authority.                                                               *)

\* A fleet admin: the legacy ladder, or a fleet grant of grant.admin.
FleetAdmin(a) ==
    IF mode = "legacy" THEN role[a] = "admin" ELSE has_fleet(a, "grant.admin")

\* permission_required("grant.admin", "grant.delegate") lets a in, and a is not
\* a fleet admin.
Delegate(a) ==
    /\ mode = "scoped" /\ ~has_fleet(a, "grant.admin")
    /\ authorize(a, "grant.delegate")

\* delegate_grant_error is None: a minion scope inside a's delegated one, and
\* only permissions that a holds there.
MayDelegate(a, r, s) ==
    LET ids == Resolve(s) IN
    /\ s \in MinionScopes
    /\ r \notin FLEET_ONLY_ROLES
    /\ ids \subseteq minions_with(a, "grant.delegate")
    /\ \A p \in ROLE_PERMS[r] \ (FleetDomain \cup PrefixDomain) :
           ids \subseteq perm_scope_minions(a, p)

GroupGrants(g) == {x \in grants : x.subject = g}

\* Mutant: an off-scope grant of the group is overlooked.
MayEditAnyGroup(a, g) ==
    \A x \in GroupGrants(g) : x.scope # Fleet

\* delegate_group_error is None: every grant of the group is on a minion scope
\* inside a's delegated one.
MayEditGroup(a, g) ==
    \A x \in GroupGrants(g) :
        /\ x.scope \in MinionScopes
        /\ Resolve(x.scope) \subseteq minions_with(a, "grant.delegate")

\* _validate_grant_scope.
ValidScope(r, s) ==
    \/ s = Fleet
    \/ /\ r \notin FLEET_ONLY_ROLES
       /\ IF r = "file_reader" THEN s = Prefix ELSE s \in MinionScopes
       /\ s.kind = "group" => \A n \in s.value : row[n] = "live"

-----------------------------------------------------------------------------
(* Requests.  A write request is checked, then commits, then refreshes the  *)
(* role column of each user it affected.                                    *)

Op(kind, on, r, s, set) ==
    [kind |-> kind, on |-> on, role |-> r, scope |-> s, set |-> set]

Begin(a) == a \in users /\ req[a] = Idle /\ writes < S.writes

\* The grant row an operation names.
Rows(op) ==
    {g \in grants : g.subject = op.on /\ g.role = op.role /\ g.scope = op.scope}

\* _has_other_fleet_admin.  The unique index leaves no second grant.
OtherFleetAdmin(a) ==
    \E m \in mappings : m.group \in claims[a] /\ m.role = "admin" /\ m.scope = Fleet

\* Mutant: the guard on one's own last fleet admin grant is dropped.
NoGuard(a, op) == TRUE

\* delete_grant: one's own last fleet admin grant stays.
KeepsOwnAdmin(a, op) ==
    op.on = a /\ op.role = "admin" /\ op.scope = Fleet => OtherFleetAdmin(a)

\* The check of a handler: create_grant and create_local_group_grant,
\* delete_grant and delete_local_group_grant, edit_local_group_members,
\* delete_local_group, set_role, delete.
Allowed(a, op) ==
    LET subset == Delegate(a) /\ op.on # a /\ MayDelegate(a, op.role, op.scope)
        group == Delegate(a) /\ MayEditGroup(a, op.on)
    IN  CASE op.kind = "create" ->
                 /\ op.on \in users \cup LocalGroups
                 /\ ValidScope(op.role, op.scope)
                 /\ FleetAdmin(a) \/ subset
          [] op.kind = "drop" ->
                 /\ Rows(op) # {}
                 /\ FleetAdmin(a) \/ subset
                 /\ KeepsOwnAdmin(a, op)
          [] op.kind \in {"members", "disband"} -> FleetAdmin(a) \/ group
          [] op.kind = "set_role" ->
                 FleetAdmin(a) /\ op.on \in users /\ (op.on = a => op.role = "admin")
          [] OTHER -> FleetAdmin(a) /\ op.on \in users \ {a}

\* a posts op and passes its check.  In scoped mode the check memoises a's
\* entries.
Check(a, op) ==
    /\ Begin(a)
    /\ Allowed(a, op)
    /\ req' = [req EXCEPT ![a] =
          [phase |-> "checked", op |-> op, delegated |-> ~FleetAdmin(a),
           memo |-> IF mode = "scoped" THEN Entries(a) ELSE {},
           memoised |-> mode = "scoped", todo |-> {}]]
    /\ writes' = writes + 1
    /\ UNCHANGED <<flagVars, dirVars, role, grants, idpVars, fleetVars>>

Committing(a, kind) ==
    req[a] # Idle /\ req[a].phase = "checked" /\ req[a].op.kind = kind

\* The commit; refresh_role_cache is due for the users affected.
Committed(a, affected) ==
    req' = [req EXCEPT ![a].phase = "refresh", ![a].todo = affected]

Affected(subject) == IF subject \in Users THEN {subject} ELSE members[subject]

Fails(a) ==
    /\ req' = [req EXCEPT ![a] = Idle]
    /\ UNCHANGED grants

\* The unique index, or the foreign key of a subject deleted since, refuses.
create_grant(a) ==
    LET op == req[a].op IN
    /\ Committing(a, "create")
    /\ IF Rows(op) # {} \/ op.on \notin users \cup LocalGroups THEN Fails(a)
       ELSE /\ grants' = grants \cup {[subject |-> op.on, role |-> op.role,
                                       scope |-> op.scope, source |-> "manual"]}
            /\ Committed(a, Affected(op.on))
    /\ UNCHANGED <<flagVars, dirVars, role, idpVars, fleetVars, writes>>

\* Mutant: only the caller's own column is recomputed.
DropForgetsSubject(a) ==
    LET op == req[a].op IN
    /\ Committing(a, "drop")
    /\ IF Rows(op) = {} THEN Fails(a)
       ELSE /\ grants' = grants \ Rows(op)
            /\ Committed(a, {op.on} \cap {a})
    /\ UNCHANGED <<flagVars, dirVars, role, idpVars, fleetVars, writes>>

delete_grant(a) ==
    LET op == req[a].op IN
    /\ Committing(a, "drop")
    /\ IF Rows(op) = {} THEN Fails(a)
       ELSE /\ grants' = grants \ Rows(op)
            /\ Committed(a, Affected(op.on))
    /\ UNCHANGED <<flagVars, dirVars, role, idpVars, fleetVars, writes>>

\* Replaces the member list.
edit_local_group_members(a) ==
    LET op == req[a].op
        wanted == op.set \cap users
    IN  /\ Committing(a, "members")
        /\ members' = [members EXCEPT ![op.on] = wanted]
        /\ Committed(a, wanted \cup members[op.on])
        /\ UNCHANGED <<flagVars, users, claims, role, grants, idpVars, fleetVars, writes>>

\* The group's id is then free for a new, empty group (create_local_group).
delete_local_group(a) ==
    LET g == req[a].op.on IN
    /\ Committing(a, "disband")
    /\ members' = [members EXCEPT ![g] = {}]
    /\ grants' = grants \ GroupGrants(g)
    /\ Committed(a, members[g])
    /\ UNCHANGED <<flagVars, users, claims, role, idpVars, fleetVars, writes>>

\* The legacy column, or in scoped mode the fleet ladder grants, replaced with
\* the audit row that log_event commits; the column is recomputed after that.
set_role(a) ==
    LET u == req[a].op.on
        r == req[a].op.role
        ladder == {g \in grants : g.subject = u /\ g.scope = Fleet /\ g.role \in Ladder}
    IN  /\ Committing(a, "set_role")
        /\ IF u \notin users THEN Fails(a) /\ UNCHANGED role
           ELSE IF mode = "legacy"
           THEN /\ role' = [role EXCEPT ![u] = r]
                /\ Committed(a, {})
                /\ UNCHANGED grants
           ELSE /\ grants' = (grants \ ladder) \cup
                      {[subject |-> u, role |-> r, scope |-> Fleet, source |-> "manual"]}
                /\ Committed(a, {u})
                /\ UNCHANGED role
        /\ UNCHANGED <<flagVars, dirVars, idpVars, fleetVars, writes>>

\* Mutant: the local group memberships of a deleted account stay.
DeleteKeepsMemberships(a) ==
    LET u == req[a].op.on IN
    /\ Committing(a, "delete")
    /\ users' = users \ {u}
    /\ claims' = [claims EXCEPT ![u] = {}]
    /\ grants' = {g \in grants : g.subject # u}
    /\ role' = [role EXCEPT ![u] = "none"]
    /\ Committed(a, {})
    /\ UNCHANGED <<flagVars, members, idpVars, fleetVars, writes>>

\* Grants, memberships and claims go with the account.
delete(a) ==
    LET u == req[a].op.on IN
    /\ Committing(a, "delete")
    /\ users' = users \ {u}
    /\ members' = [g \in LocalGroups |-> members[g] \ {u}]
    /\ claims' = [claims EXCEPT ![u] = {}]
    /\ grants' = {g \in grants : g.subject # u}
    /\ role' = [role EXCEPT ![u] = "none"]
    /\ Committed(a, {})
    /\ UNCHANGED <<flagVars, idpVars, fleetVars, writes>>

\* A settings request: only a fleet admin's, and nothing else is read first.
SettingsWrite(a, affected) ==
    /\ Begin(a) /\ FleetAdmin(a)
    /\ req' = [req EXCEPT ![a] =
          [phase |-> "refresh", op |-> Op("settings", a, "viewer", Fleet, {}),
           delegated |-> FALSE,
           memo |-> IF mode = "scoped" THEN Entries(a) ELSE {},
           memoised |-> mode = "scoped", todo |-> affected]]
    /\ writes' = writes + 1

Claiming(g) == {u \in users : g \in claims[u]}

create_idp_mapping(a, g, r, s) ==
    /\ ValidScope(r, s)
    /\ ~\E m \in mappings : m.group = g /\ m.role = r /\ m.scope = s
    /\ mappings' = mappings \cup
          {[group |-> g, role |-> r, scope |-> s, origin |-> "manual"]}
    /\ SettingsWrite(a, Claiming(g))
    /\ UNCHANGED <<flagVars, dirVars, role, grants, oidcRole, fleetVars>>

delete_idp_mapping(a, m) ==
    /\ mappings' = mappings \ {m}
    /\ SettingsWrite(a, Claiming(m.group))
    /\ UNCHANGED <<flagVars, dirVars, role, grants, oidcRole, fleetVars>>

\* The mappings that the OIDC group settings ask for (backfill_rbac).
Wanted ==
    {[group |-> g, role |-> oidcRole[g], scope |-> Fleet, origin |-> "backfill"] :
        g \in {h \in IdpGroups : oidcRole[h] # "none"}}

\* Mutant: the backfilled rows of the migration are kept.
BackfilledOnTop == mappings \cup Wanted

\* The rebuilt mappings.  Manual rows stay, and stand for a wanted one.
Backfilled ==
    LET manual == {m \in mappings : m.origin = "manual"}
    IN  manual \cup {w \in Wanted : [w EXCEPT !.origin = "manual"] \notin manual}

\* _save_rbac_control.  Entering scoped mode rebuilds the backfilled mappings
\* and recomputes every role column; the page stores both flags.
save_rbac_control(a, m, f) ==
    LET entering == m = "scoped" /\ mode = "legacy" IN
    /\ m # mode => S.switches
    /\ mode' = m /\ fallback' = f
    /\ env' = env \ {"mode", "fallback"}
    /\ mappings' = IF entering THEN Backfilled ELSE mappings
    /\ SettingsWrite(a, IF entering THEN users ELSE {})
    /\ UNCHANGED <<dirVars, role, grants, oidcRole, fleetVars>>

\* The OIDC group settings; a read-only mirror while scoped.  A list that is
\* posted empty loses its row: the environment's applies.
save_oidc_groups(a, g, r, cleared) ==
    /\ mode = "legacy"
    /\ oidcRole' = [oidcRole EXCEPT ![g] = r]
    /\ env' = IF cleared THEN env \cup (S.env \cap {"groups"}) ELSE env \ {"groups"}
    /\ SettingsWrite(a, {})
    /\ UNCHANGED <<mode, fallback, dirVars, role, grants, mappings, fleetVars>>

\* The deployment restarts with another environment (rbac_flag, get_setting): the
\* settings without a row change, and nothing is rebuilt or recomputed.
Redeploys(m, f, roles) ==
    /\ AllIdle /\ env # {} /\ writes < S.writes
    /\ m # mode => "mode" \in env
    /\ f # fallback => "fallback" \in env
    /\ roles # oidcRole => "groups" \in env
    /\ mode' = m /\ fallback' = f /\ oidcRole' = roles
    /\ stale' = IF m = "scoped" /\ mode = "legacy" THEN users ELSE stale
    /\ settled' = (settled /\ (m = "scoped" => mode = "scoped" /\ roles = oidcRole))
    /\ writes' = writes + 1
    /\ UNCHANGED <<env, dirVars, role, grants, mappings, fleetVars, req, setup, granted>>

\* refresh_role_cache for one user of a's request, for the caller from the memo.
Refresh(a, u) ==
    LET entries == IF u = a /\ req[a].memoised THEN req[a].memo ELSE Entries(u) IN
    /\ req[a] # Idle /\ req[a].phase = "refresh" /\ u \in req[a].todo
    /\ role' = IF u \in users THEN [role EXCEPT ![u] = CachedRole(entries)] ELSE role
    /\ req' = [req EXCEPT ![a].todo = @ \ {u}]
    /\ UNCHANGED <<flagVars, dirVars, grants, idpVars, fleetVars, writes>>

Respond(a) ==
    /\ req[a] # Idle /\ req[a].phase = "refresh" /\ req[a].todo = {}
    /\ req' = [req EXCEPT ![a] = Idle]
    /\ UNCHANGED <<flagVars, dirVars, role, grants, idpVars, fleetVars, writes>>

WorkerDies(a) ==
    /\ S.crashes /\ req[a] # Idle
    /\ req' = [req EXCEPT ![a] = Idle]
    /\ UNCHANGED <<flagVars, dirVars, role, grants, idpVars, fleetVars, writes>>

-----------------------------------------------------------------------------
(* Sign-in, node groups and the inventory.                                  *)

\* provision_oidc_user.
provision_oidc_user(u, groups) ==
    /\ u \in S.sso
    /\ users' = users \cup {u}
    /\ claims' = [claims EXCEPT ![u] = groups]
    /\ role' = [role EXCEPT ![u] =
          IF mode = "scoped" THEN CachedRole(EntriesFrom(grants, members, groups, mappings, u))
          ELSE LET rs == {oidcRole[g] : g \in groups}
               IN  IF "admin" \in rs THEN "admin"
                   ELSE IF "operator" \in rs THEN "operator" ELSE "viewer"]
    /\ UNCHANGED <<flagVars, members, grants, idpVars, fleetVars, req, writes>>

MayWriteGroups(a) ==
    IF mode = "legacy" THEN role[a] \in {"operator", "admin"}
    ELSE authorize(a, "group.write")

Frozen(n) ==
    \/ \E g \in grants : g.scope = InGroup(n)
    \/ \E m \in mappings : m.scope = InGroup(n)

NodeGroupWrite(a) ==
    /\ Begin(a) /\ MayWriteGroups(a)
    /\ writes' = writes + 1
    /\ UNCHANGED <<flagVars, dirVars, role, grants, idpVars, snapshot, req>>

\* save with an L@ expression.
SaveListGroup(a, n, ids) ==
    /\ NodeGroupWrite(a)
    /\ row[n] # "gone"
    /\ row' = [row EXCEPT ![n] = "live"]
    /\ nodes' = [nodes EXCEPT ![n] = ids]

\* save with any other matcher removes the row, referenced or not.
SaveOtherMatcher(a, n) ==
    /\ NodeGroupWrite(a)
    /\ row[n] = "live"
    /\ row' = [row EXCEPT ![n] = "gone"]
    /\ nodes' = [nodes EXCEPT ![n] = {}]

DeleteNodeGroup(a, n) ==
    /\ NodeGroupWrite(a)
    /\ row[n] = "live"
    /\ mode = "scoped" => ~Frozen(n)
    /\ row' = [row EXCEPT ![n] = "gone"]
    /\ nodes' = [nodes EXCEPT ![n] = {}]

InventoryChanges(m) ==
    /\ snapshot' = IF m \in snapshot THEN snapshot \ {m} ELSE snapshot \cup {m}
    /\ UNCHANGED <<flagVars, dirVars, role, grants, idpVars, row, nodes, req, writes>>

-----------------------------------------------------------------------------
Init ==
    /\ setup \in DOMAIN Setups
    /\ mode = S.mode
    /\ fallback \in S.fallbacks
    /\ env = S.env
    /\ users = S.users
    /\ role = S.role
    /\ grants = S.grants
    /\ members = [g \in LocalGroups |-> {}]
    /\ claims = [u \in Users |-> {}]
    /\ oidcRole \in [IdpGroups -> {"admin", "operator", "none"}]
    /\ \A g \in IdpGroups \ S.idp : oidcRole[g] = "none"
    /\ mappings = Wanted
    /\ row = [n \in NodeGroups |-> "none"]
    /\ nodes = [n \in NodeGroups |-> {}]
    /\ snapshot = S.minions
    /\ req = [a \in Users |-> Idle]
    /\ granted = {u \in Users : \E g \in S.grants : g.subject = u}
    /\ stale = {u \in Users : role[u] # CachedRole(Entries(u))}
    /\ settled = TRUE
    /\ writes = 0

OfferedScopes == {Fleet, Prefix} \cup MatchScopes(S.matches, S.racks)

Offered ==
    {Op(k, u, r, s, {}) : k \in {"create", "drop"}, u \in users, r \in S.userRoles,
                          s \in OfferedScopes}
    \cup {Op(k, g, r, s, {}) : k \in {"create", "drop"}, g \in S.teams,
                               r \in S.groupRoles, s \in OfferedScopes}
    \cup {Op("members", g, "viewer", Fleet, set) : g \in S.teams, set \in SUBSET users}
    \cup {Op("disband", g, "viewer", Fleet, {}) : g \in S.teams}
    \cup {Op("set_role", u, r, Fleet, {}) : u \in users, r \in Ladder}
    \cup {Op("delete", u, "viewer", Fleet, {}) : u \in users}

Posts(a) == Begin(a) /\ \E op \in {x \in Offered : x.kind \in S.posts} : Check(a, op)

SavesSettings(a) ==
    \/ \E g \in S.idp, r \in S.groupRoles, s \in OfferedScopes : create_idp_mapping(a, g, r, s)
    \/ \E m \in mappings : delete_idp_mapping(a, m)
    \/ \E m \in {"legacy", "scoped"}, f \in S.fallbacks : save_rbac_control(a, m, f)
    \/ \E g \in S.idp, r \in {"admin", "operator", "none"}, cleared \in BOOLEAN :
          save_oidc_groups(a, g, r, cleared)

WritesNodeGroup(a) ==
    \E n \in S.racks :
        \/ \E ids \in SUBSET S.minions : SaveListGroup(a, n, ids)
        \/ SaveOtherMatcher(a, n)
        \/ DeleteNodeGroup(a, n)

Proceeds(a) ==
    \/ create_grant(a) \/ delete_grant(a) \/ edit_local_group_members(a)
    \/ delete_local_group(a) \/ set_role(a) \/ delete(a)
    \/ \E u \in Users : Refresh(a, u)
    \/ Respond(a) \/ WorkerDies(a)

SignsIn == \E u \in Users, groups \in SUBSET S.idp : provision_oidc_user(u, groups)
RefreshesInventory == \E m \in S.minions : InventoryChanges(m)

\* The accounts whose column a's request recomputes in this step, and those whose
\* recomputation it leaves undone.
Recomputed(a) ==
    IF req[a] # Idle /\ req'[a] # Idle THEN req[a].todo \ req'[a].todo ELSE {}
Abandoned(a) == IF req[a] # Idle /\ req'[a] = Idle THEN req[a].todo ELSE {}
FromMemo(a) == IF req[a] # Idle /\ req[a].memoised THEN Recomputed(a) \cap {a} ELSE {}

\* History: the accounts to which a grant applies or has applied, those whose
\* role column is not known to follow the grants, and whether the mappings were
\* built from the settings.
Records ==
    /\ granted' = (granted \cup {u \in Users : Entries(u)' # {}}) \cap users'
    /\ stale' = users' \cap
          ((stale \ UNION {Recomputed(a) : a \in Users})
             \cup UNION {FromMemo(a) \cup Abandoned(a) : a \in Users})
    /\ settled' = (settled \/ (mode = "legacy" /\ mode' = "scoped"))
    /\ UNCHANGED setup

\* Write requests, sign-ins and inventory refreshes one after the other.
OneAtATime ==
    /\ \/ AllIdle /\ (SignsIn \/ RefreshesInventory)
       \/ \E a \in Users : Proceeds(a)
       \/ AllIdle /\ \E a \in Users :
             Posts(a) \/ SavesSettings(a) \/ WritesNodeGroup(a)
    /\ Records

Redeployment ==
    \E m \in {"legacy", "scoped"}, f \in S.fallbacks,
       roles \in [IdpGroups -> {"admin", "operator", "none"}] :
          /\ \A g \in IdpGroups \ S.idp : roles[g] = oidcRole[g]
          /\ Redeploys(m, f, roles)

-----------------------------------------------------------------------------
(* Properties.                                                              *)

FleetPerms(u) == {p \in Perms : has_fleet(u, p)}
HeldOn(u, m) == {p \in Perms : m \in perm_scope_minions(u, p)}

\* u has no grant and lives on the role column (the migration fallback).
OnFallback(u) == fallback /\ Entries(u) = {} /\ role[u] \in Ladder

\* a's request, allowed as a delegate's, commits in this step.
DelegateCommits(a) ==
    /\ req[a] # Idle /\ req[a].phase = "checked" /\ req[a].delegated
    /\ req'[a] # Idle /\ req'[a].phase = "refresh"

\* "Delegation is a subset rule" (rbac.md): a delegate's write, whether to a
\* grant, to a local group's grant or to its members, changes nobody's
\* permissions on a minion outside the delegate's scope and nobody's
\* permissions on the fleet, and a grant it adds confers on a minion only what
\* the delegate holds there.  An account that lives on the migration fallback
\* before or after the write is the exception: its first grant, a delegate's
\* too, ends the fallback (_effective_entries).
DelegationIsSubset ==
    [][\A a \in Users : DelegateCommits(a) =>
          /\ \A u \in users : ~OnFallback(u) /\ ~OnFallback(u)' =>
                /\ FleetPerms(u)' = FleetPerms(u)
                /\ \A m \in Minions \ minions_with(a, "grant.delegate") :
                      HeldOn(u, m)' = HeldOn(u, m)
          /\ \A g \in grants' \ grants : \A m \in Resolve(g.scope) :
                ROLE_PERMS[g.role] \cap (MinionDomain \cup DelegateDomain)
                    \subseteq HeldOn(a, m)]_vars

\* Scoped mode for good, the fallback off, an account with the fleet admin grant,
\* and no local or IdP group that confers admin.
Guarded ==
    /\ S.mode = "scoped" /\ ~S.switches /\ S.env = {} /\ S.fallbacks = {FALSE}
    /\ S.idp = {}
    /\ "admin" \notin S.groupRoles
    /\ \A g \in S.grants : g.role = "admin" => g.subject \in Users
    /\ \E g \in S.grants : g.role = "admin" /\ g.scope = Fleet

\* Three guards protect admins from themselves (admin.md): while no local or
\* IdP group confers admin and rbac_mode stays scoped, some account stays fleet
\* admin whatever admins do to each other, to themselves and to groups.
AdminRemains == Guarded => \E u \in users : has_fleet(u, "grant.admin")

\* "The role column is a cache" (refresh_role_cache): between requests every
\* account's column is the one its grants give it, except where the account's own
\* request last computed it from entries memoised before its commit, where a worker
\* died between a commit and the recomputation, and where the environment, not the
\* settings page, brought scoped mode in; the next recomputation puts it right.
RoleFollowsGrants ==
    mode = "scoped" /\ AllIdle =>
        \A u \in users \ stale : role[u] = CachedRole(Entries(u))

\* Editing the OIDC group settings while legacy and then switching "cannot
\* authorize a stale list" (backfill_from_settings): in scoped mode every
\* backfilled mapping gives its group the role that the settings now give it, as
\* long as the mode was entered on the settings page and no redeployment changed
\* the lists behind it.  A switch through RBAC_MODE rebuilds nothing.
BackfillFollowsSettings ==
    mode = "scoped" /\ settled =>
        \A m \in mappings : m.origin = "backfill" => m.role = oidcRole[m.group]

\* "Grant-less ladder accounts keep their fleet role" while the fallback is on
\* (rbac.md, turning scoped mode on): an account that never had a grant keeps
\* its role column through the switch and everything after it but an OIDC
\* login or its deletion.
FallbackKeepsRole ==
    [][\A u \in users \cap users' :
          (/\ mode = "scoped" /\ mode' = "scoped" /\ fallback /\ fallback'
           /\ u \notin granted' /\ role[u] \in Ladder /\ claims'[u] = claims[u])
          => role'[u] = role[u]]_vars
=============================================================================
