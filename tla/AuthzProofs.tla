---------------------------- MODULE AuthzProofs -----------------------------
(***************************************************************************)
(* Proofs about Authz, for any accounts, groups, minions and situations,   *)
(* of write requests that run one after the other (OneAtATime).            *)
(***************************************************************************)
EXTENDS Authz, TLAPS

-----------------------------------------------------------------------------
(* The operators.                                                           *)

LEMMA RolesAre ==
    /\ Roles = {"viewer", "operator", "admin", "team_operator", "secrets_reader",
                "team_lead", "file_reader"}
    /\ Ladder \subseteq Roles
    BY DEF Roles, ROLE_PERMS, Ladder

\* What the assumptions say of the situation of a behaviour.
LEMMA SituationIs ==
    ASSUME setup \in DOMAIN Setups
    PROVE  /\ S.mode \in {"legacy", "scoped"}
           /\ S.users \subseteq Users /\ S.sso \subseteq Users /\ S.idp \subseteq IdpGroups
           /\ S.role \in [Users -> Ladder \cup {"scoped", "none"}]
           /\ S.grants \subseteq Grant
           /\ \A g \in S.grants : g.subject \in Users => g.subject \in S.users
           /\ S.fallbacks \subseteq BOOLEAN
           /\ S.minions \subseteq Minions /\ S.matches \subseteq SUBSET Minions
           /\ S.teams \subseteq LocalGroups /\ S.racks \subseteq NodeGroups
           /\ S.posts \subseteq Kinds
           /\ S.userRoles \subseteq Roles /\ S.groupRoles \subseteq Roles
           /\ S.switches \in BOOLEAN /\ S.crashes \in BOOLEAN
           /\ S.env \subseteq Flags
           /\ S.writes \in Nat
    BY SetupsAssumption DEF S

LEMMA CachedRoleType ==
    ASSUME NEW entries PROVE CachedRole(entries) \in Ladder \cup {"scoped", "none"}
    BY DEF CachedRole, Ladder

LEMMA EntriesFromType ==
    ASSUME NEW rows, rows \subseteq Grant, NEW maps, maps \subseteq Mapping,
           NEW teams, NEW groups, NEW u
    PROVE  EntriesFrom(rows, teams, groups, maps, u) \subseteq Entry
    BY DEF EntriesFrom, EntryOf, Entry, Grant, Mapping

\* The scopes on offer are scopes.
LEMMA OfferedScopesAre ==
    ASSUME setup \in DOMAIN Setups
    PROVE  OfferedScopes \subseteq Scopes
    <1>1. S.matches \subseteq UNION {Setups[n].matches : n \in DOMAIN Setups}
        BY DEF S
    <1>2. MatchScopes(S.matches, S.racks) \subseteq MinionScopes
        BY <1>1, SituationIs DEF MatchScopes, MinionScopes
    <1> QED
        BY <1>2 DEF OfferedScopes, Scopes

\* The requests on offer.
Sound(op) ==
    /\ op.kind \in {"members", "disband"} => op.on \in LocalGroups
    /\ op.kind \in {"set_role", "delete"} => op.on \in Users
    /\ op.kind = "set_role" => op.role \in Ladder

LEMMA OfferedAre ==
    ASSUME setup \in DOMAIN Setups, users \subseteq Users, NEW op \in Offered
    PROVE  op \in Operation /\ Sound(op)
    <1>1. Fleet \in Scopes
        BY DEF Scopes
    <1>2. "viewer" \in Roles /\ Ladder \subseteq Roles
        BY RolesAre
    <1> QED
        BY <1>1, <1>2, SituationIs, OfferedScopesAre
        DEF Offered, Op, Operation, Sound, Subjects, Kinds


-----------------------------------------------------------------------------
(* Types.                                                                   *)

\* Every request that has passed its check is one that is on offer.
ReqHolds == \A a \in Users : req[a] # Idle => Sound(req[a].op)

\* The part of TypeOK that the history variables are not in.
CoreOK ==
    /\ mode \in {"legacy", "scoped"}
    /\ fallback \in BOOLEAN
    /\ env \subseteq S.env
    /\ users \subseteq Users
    /\ role \in [Users -> Ladder \cup {"scoped", "none"}]
    /\ grants \subseteq Grant
    /\ \A g \in grants : g.subject \in Users => g.subject \in users
    /\ members \in [LocalGroups -> SUBSET users]
    /\ claims \in [Users -> SUBSET IdpGroups]
    /\ mappings \subseteq Mapping
    /\ oidcRole \in [IdpGroups -> {"admin", "operator", "none"}]
    /\ row \in [NodeGroups -> {"none", "live", "gone"}]
    /\ nodes \in [NodeGroups -> SUBSET Minions]
    /\ snapshot \subseteq Minions
    /\ req \in [Users -> Request \cup {Idle}]
    /\ writes \in 0..S.writes
    /\ ReqHolds

LEMMA EntriesType ==
    ASSUME TypeOK, NEW u PROVE Entries(u) \subseteq Entry
    BY EntriesFromType DEF TypeOK, Entries

LEMMA SetupStays ==
    ASSUME setup' = setup PROVE S' = S
    BY DEF S

\* A request with its fields changed is a request.
LEMMA RequestUpdates ==
    ASSUME TypeOK, NEW a \in Users, req[a] # Idle, NEW affected \in SUBSET Users
    PROVE  /\ req[a] \in Request
           /\ req[a].op \in Operation
           /\ [req[a] EXCEPT !.phase = "refresh", !.todo = affected] \in Request
           /\ [req[a] EXCEPT !.todo = affected] \in Request
           /\ [req[a] EXCEPT !.phase = "refresh", !.todo = affected].op = req[a].op
           /\ [req[a] EXCEPT !.todo = affected].op = req[a].op
    <1>1. req[a] \in Request
        BY DEF TypeOK
    <1> QED
        BY <1>1 DEF Request

LEMMA CommittedType ==
    ASSUME TypeOK, ReqHolds, NEW a \in Users, req[a] # Idle,
           NEW affected \in SUBSET Users, Committed(a, affected)
    PROVE  req' \in [Users -> Request \cup {Idle}] /\ ReqHolds'
    <1>1. req \in [Users -> Request \cup {Idle}]
        BY DEF TypeOK
    <1>2. req' = [req EXCEPT ![a] = [req[a] EXCEPT !.phase = "refresh", !.todo = affected]]
        BY DEF Committed
    <1> QED
        BY <1>1, <1>2, RequestUpdates DEF ReqHolds

LEMMA IdledType ==
    ASSUME TypeOK, ReqHolds, NEW a \in Users, req' = [req EXCEPT ![a] = Idle]
    PROVE  req' \in [Users -> Request \cup {Idle}] /\ ReqHolds'
    BY DEF TypeOK, ReqHolds

LEMMA SettingsType ==
    ASSUME TypeOK, ReqHolds, NEW a \in Users, NEW affected \in SUBSET Users,
           SettingsWrite(a, affected)
    PROVE  /\ req' \in [Users -> Request \cup {Idle}] /\ ReqHolds'
           /\ writes' \in 0..S.writes
    <1> DEFINE x == [phase |-> "refresh", op |-> Op("settings", a, "viewer", Fleet, {}),
                     delegated |-> FALSE, memo |-> IF mode = "scoped" THEN Entries(a) ELSE {},
                     memoised |-> mode = "scoped", todo |-> affected]
    <1>1. Op("settings", a, "viewer", Fleet, {}) \in Operation
        BY RolesAre DEF Op, Operation, Kinds, Subjects, Scopes
    <1>2. x \in Request
        BY <1>1, EntriesType DEF Request
    <1>3. Sound(x.op)
        BY DEF Sound, Op
    <1>4. req' = [req EXCEPT ![a] = x] /\ writes' = writes + 1 /\ writes < S.writes
        BY DEF SettingsWrite, Begin
    <1>5. req' \in [Users -> Request \cup {Idle}] /\ ReqHolds'
        <2> HIDE DEF x
        <2> QED
            BY <1>2, <1>3, <1>4 DEF TypeOK, ReqHolds
    <1>6. writes' \in 0..S.writes
        BY <1>4, SituationIs DEF TypeOK
    <1> QED
        BY <1>5, <1>6


\* The types after a step of Proceeds.
LEMMA ProceedsType ==
    ASSUME TypeOK, ReqHolds, setup' = setup, NEW a \in Users, Proceeds(a)
    PROVE  CoreOK'
    <1> USE SetupStays
    <1>0. setup \in DOMAIN Setups /\ users \subseteq Users
        BY DEF TypeOK
    <1>1. CASE create_grant(a)
        <2> DEFINE op == req[a].op
        <2>1. req[a] # Idle
            BY <1>1 DEF create_grant, Committing
        <2>2. op \in Operation
            BY <2>1, RequestUpdates
        <2>3. CASE Rows(op) # {} \/ op.on \notin users \cup LocalGroups
            BY <1>1, <2>3, IdledType DEF create_grant, Fails, TypeOK, CoreOK, flagVars,
                dirVars, idpVars, fleetVars
        <2>4. CASE ~(Rows(op) # {} \/ op.on \notin users \cup LocalGroups)
            <3>1. /\ grants' = grants \cup {[subject |-> op.on, role |-> op.role,
                                            scope |-> op.scope, source |-> "manual"]}
                  /\ Committed(a, Affected(op.on))
                BY <1>1, <2>4 DEF create_grant
            <3>2. Affected(op.on) \in SUBSET Users
                BY <2>4, <1>0 DEF Affected, TypeOK
            <3>3. req' \in [Users -> Request \cup {Idle}] /\ ReqHolds'
                BY <2>1, <3>1, <3>2, CommittedType
            <3>4. grants' \subseteq Grant /\ \A g \in grants' : g.subject \in Users => g.subject \in users
                BY <3>1, <2>2, <2>4, SubjectsAssumption DEF TypeOK, Grant, Operation
            <3> QED
                BY <1>1, <3>3, <3>4 DEF create_grant, TypeOK, CoreOK, flagVars,
                    dirVars, idpVars, fleetVars
        <2> QED
            BY <2>3, <2>4
    <1>2. CASE delete_grant(a)
        <2> DEFINE op == req[a].op
        <2>1. req[a] # Idle
            BY <1>2 DEF delete_grant, Committing
        <2>2. op \in Operation
            BY <2>1, RequestUpdates
        <2>3. Affected(op.on) \in SUBSET Users
            BY <2>2, <1>0 DEF Affected, TypeOK, Operation, Subjects
        <2>4. req' \in [Users -> Request \cup {Idle}] /\ ReqHolds'
            BY <1>2, <2>1, <2>3, CommittedType, IdledType DEF delete_grant, Fails
        <2>5. grants' \subseteq grants
            BY <1>2 DEF delete_grant, Fails
        <2> QED
            BY <1>2, <2>4, <2>5 DEF delete_grant, TypeOK, CoreOK, flagVars,
                dirVars, idpVars, fleetVars
    <1>3. CASE edit_local_group_members(a)
        <2> DEFINE op == req[a].op
        <2>1. req[a] # Idle /\ op.kind = "members"
            BY <1>3 DEF edit_local_group_members, Committing
        <2>2. op.on \in LocalGroups
            BY <2>1 DEF ReqHolds, Sound
        <2>3. (op.set \cap users) \cup members[op.on] \in SUBSET Users
            BY <2>2 DEF TypeOK
        <2>4. req' \in [Users -> Request \cup {Idle}] /\ ReqHolds'
            BY <1>3, <2>1, <2>3, CommittedType DEF edit_local_group_members
        <2>5. members' \in [LocalGroups -> SUBSET users]
            BY <1>3 DEF edit_local_group_members, TypeOK
        <2> QED
            BY <1>3, <2>4, <2>5 DEF edit_local_group_members, TypeOK, CoreOK, flagVars,
                idpVars, fleetVars
    <1>4. CASE delete_local_group(a)
        <2> DEFINE g == req[a].op.on
        <2>1. req[a] # Idle /\ req[a].op.kind = "disband"
            BY <1>4 DEF delete_local_group, Committing
        <2>2. g \in LocalGroups
            BY <2>1 DEF ReqHolds, Sound
        <2>3. members[g] \in SUBSET Users
            BY <2>2 DEF TypeOK
        <2>4. req' \in [Users -> Request \cup {Idle}] /\ ReqHolds'
            BY <1>4, <2>1, <2>3, CommittedType DEF delete_local_group
        <2>5. members' \in [LocalGroups -> SUBSET users] /\ grants' \subseteq grants
            BY <1>4 DEF delete_local_group, TypeOK
        <2> QED
            BY <1>4, <2>4, <2>5 DEF delete_local_group, TypeOK, CoreOK, flagVars,
                idpVars, fleetVars
    <1>5. CASE set_role(a)
        <2> DEFINE u == req[a].op.on
                   r == req[a].op.role
        <2>1. req[a] # Idle /\ req[a].op.kind = "set_role"
            BY <1>5 DEF set_role, Committing
        <2>2. u \in Users /\ r \in Ladder
            BY <2>1 DEF ReqHolds, Sound
        <2>3. req' \in [Users -> Request \cup {Idle}] /\ ReqHolds'
            BY <1>5, <2>1, <2>2, CommittedType, IdledType DEF set_role, Fails
        <2>4. role' \in [Users -> Ladder \cup {"scoped", "none"}]
            BY <1>5, <2>2 DEF set_role, Fails, TypeOK
        <2>5. \A g \in grants' : g \in grants \/
                 (u \in users /\ g = [subject |-> u, role |-> r, scope |-> Fleet,
                                      source |-> "manual"])
            BY <1>5 DEF set_role, Fails
        <2>7. Fleet \in Scopes /\ r \in Roles /\ u \in Subjects
            BY <2>2, RolesAre DEF Subjects, Scopes
        <2>8. [subject |-> u, role |-> r, scope |-> Fleet, source |-> "manual"] \in Grant
            BY <2>7 DEF Grant
        <2>9. grants \subseteq Grant /\ \A g \in grants : g.subject \in Users => g.subject \in users
            BY DEF TypeOK
        <2>6. grants' \subseteq Grant /\ \A g \in grants' : g.subject \in Users => g.subject \in users
            BY <2>5, <2>8, <2>9
        <2> QED
            BY <1>5, <2>3, <2>4, <2>6 DEF set_role, TypeOK, CoreOK, flagVars,
                dirVars, idpVars, fleetVars
    <1>6. CASE delete(a)
        <2> DEFINE u == req[a].op.on
        <2>1. req[a] # Idle /\ req[a].op.kind = "delete"
            BY <1>6 DEF delete, Committing
        <2>2. u \in Users
            BY <2>1 DEF ReqHolds, Sound
        <2>3. req' \in [Users -> Request \cup {Idle}] /\ ReqHolds'
            BY <1>6, <2>1, CommittedType DEF delete
        <2>4. /\ users' = users \ {u}
              /\ members' = [g \in LocalGroups |-> members[g] \ {u}]
              /\ claims' = [claims EXCEPT ![u] = {}]
              /\ grants' = {g \in grants : g.subject # u}
              /\ role' = [role EXCEPT ![u] = "none"]
              /\ UNCHANGED <<flagVars, idpVars, fleetVars, writes>>
            BY <1>6 DEF delete
        <2>5. members' \in [LocalGroups -> SUBSET users'] /\ users' \subseteq Users
            BY <2>4 DEF TypeOK
        <2>6. \A g \in grants' : g \in Grant /\ (g.subject \in Users => g.subject \in users')
            BY <2>4 DEF TypeOK
        <2> QED
            BY <2>2, <2>3, <2>4, <2>5, <2>6 DEF TypeOK, CoreOK, flagVars, idpVars, fleetVars
    <1>7. CASE \E u \in Users : Refresh(a, u)
        <2>1. PICK u \in Users : Refresh(a, u)
            BY <1>7
        <2>2. req[a] # Idle /\ req[a] \in Request
            BY <2>1, RequestUpdates DEF Refresh
        <2>3. req[a].todo \ {u} \in SUBSET Users
            BY <2>2 DEF Request
        <2>4. req' = [req EXCEPT ![a] = [req[a] EXCEPT !.todo = req[a].todo \ {u}]]
            BY <2>1 DEF Refresh
        <2>5. req' \in [Users -> Request \cup {Idle}] /\ ReqHolds'
            BY <2>2, <2>3, <2>4, RequestUpdates DEF TypeOK, ReqHolds
        <2>6. role' \in [Users -> Ladder \cup {"scoped", "none"}]
            BY <2>1, CachedRoleType DEF Refresh, TypeOK
        <2> QED
            BY <2>1, <2>5, <2>6 DEF Refresh, TypeOK, CoreOK, flagVars,
                dirVars, idpVars, fleetVars
    <1>8. CASE Respond(a) \/ WorkerDies(a)
        BY <1>8, IdledType DEF Respond, WorkerDies, TypeOK, CoreOK, flagVars,
            dirVars, idpVars, fleetVars
    <1> QED
        BY <1>1, <1>2, <1>3, <1>4, <1>5, <1>6, <1>7, <1>8 DEF Proceeds


\* The types after a request is posted, a setting or a node group saved, a user
\* signed in, the inventory refreshed.
LEMMA PostsType ==
    ASSUME TypeOK, ReqHolds, setup' = setup, NEW a \in Users, Posts(a)
    PROVE  CoreOK'
    <1>1. PICK op \in Offered : Check(a, op)
        BY DEF Posts
    <1>2. op \in Operation /\ Sound(op)
        BY <1>1, OfferedAre DEF TypeOK
    <1> DEFINE x == [phase |-> "checked", op |-> op, delegated |-> ~FleetAdmin(a),
                     memo |-> IF mode = "scoped" THEN Entries(a) ELSE {},
                     memoised |-> mode = "scoped", todo |-> {}]
    <1>3. x \in Request /\ x.op = op
        BY <1>2, EntriesType DEF Request
    <1>4. /\ req' = [req EXCEPT ![a] = x] /\ writes' = writes + 1 /\ writes < S.writes
          /\ UNCHANGED <<flagVars, dirVars, role, grants, idpVars, fleetVars>>
        BY <1>1 DEF Check, Begin
    <1> HIDE DEF x
    <1>5. req' \in [Users -> Request \cup {Idle}] /\ ReqHolds'
        BY <1>2, <1>3, <1>4 DEF TypeOK, ReqHolds
    <1>6. writes' \in 0..S.writes
        BY <1>4, SituationIs DEF TypeOK
    <1> QED
        BY <1>4, <1>5, <1>6, SetupStays
        DEF TypeOK, CoreOK, flagVars, dirVars, idpVars, fleetVars

LEMMA WantedType ==
    ASSUME TypeOK PROVE Wanted \subseteq Mapping /\ Backfilled \subseteq Mapping
    <1>1. Wanted \subseteq Mapping
        <2>1. Fleet \in Scopes
            BY DEF Scopes
        <2>2. \A g \in IdpGroups : oidcRole[g] # "none" => oidcRole[g] \in Roles
            BY RolesAre DEF TypeOK
        <2> QED
            BY <2>1, <2>2 DEF Wanted, Mapping
    <1>2. Backfilled \subseteq mappings \cup Wanted
        BY DEF Backfilled
    <1> QED
        BY <1>1, <1>2 DEF TypeOK

LEMMA SettingsSaveType ==
    ASSUME TypeOK, ReqHolds, setup' = setup, NEW a \in Users, SavesSettings(a)
    PROVE  CoreOK'
    <1> USE SetupStays
    <1>0. setup \in DOMAIN Setups /\ users \subseteq Users
        BY DEF TypeOK
    <1>1. CASE \E g \in S.idp, r \in S.groupRoles, s \in OfferedScopes :
                    create_idp_mapping(a, g, r, s)
        <2>1. PICK g \in S.idp, r \in S.groupRoles, s \in OfferedScopes :
                    create_idp_mapping(a, g, r, s)
            BY <1>1
        <2>2. g \in IdpGroups /\ r \in Roles /\ s \in Scopes
            BY <1>0, SituationIs, OfferedScopesAre
        <2>3. mappings' = mappings \cup
                 {[group |-> g, role |-> r, scope |-> s, origin |-> "manual"]}
            BY <2>1 DEF create_idp_mapping
        <2>4. mappings' \subseteq Mapping
            BY <2>2, <2>3 DEF TypeOK, Mapping
        <2>5. Claiming(g) \in SUBSET Users
            BY <1>0 DEF Claiming
        <2> QED
            BY <2>1, <2>4, <2>5, SettingsType
            DEF create_idp_mapping, TypeOK, CoreOK, flagVars, dirVars, fleetVars
    <1>2. CASE \E m \in mappings : delete_idp_mapping(a, m)
        <2>1. PICK m \in mappings : delete_idp_mapping(a, m)
            BY <1>2
        <2>2. Claiming(m.group) \in SUBSET Users
            BY <1>0 DEF Claiming
        <2> QED
            BY <2>1, <2>2, SettingsType
            DEF delete_idp_mapping, TypeOK, CoreOK, flagVars, dirVars, fleetVars
    <1>3. CASE \E m \in {"legacy", "scoped"}, f \in S.fallbacks : save_rbac_control(a, m, f)
        <2>1. PICK m \in {"legacy", "scoped"}, f \in S.fallbacks : save_rbac_control(a, m, f)
            BY <1>3
        <2> DEFINE affected == IF m = "scoped" /\ mode = "legacy" THEN users ELSE {}
        <2>2. affected \in SUBSET Users /\ SettingsWrite(a, affected)
            BY <2>1, <1>0 DEF save_rbac_control
        <2>3. req' \in [Users -> Request \cup {Idle}] /\ ReqHolds' /\ writes' \in 0..S.writes
            BY <2>2, SettingsType
        <2>4. mappings' \subseteq Mapping
            BY <2>1, WantedType DEF save_rbac_control, TypeOK
        <2>5. f \in BOOLEAN
            BY <1>0, SituationIs
        <2> QED
            BY <2>1, <2>3, <2>4, <2>5
            DEF save_rbac_control, TypeOK, CoreOK, dirVars, fleetVars
    <1>4. CASE \E g \in S.idp, r \in {"admin", "operator", "none"}, cleared \in BOOLEAN :
                  save_oidc_groups(a, g, r, cleared)
        <2>1. PICK g \in S.idp, r \in {"admin", "operator", "none"}, cleared \in BOOLEAN :
                  save_oidc_groups(a, g, r, cleared)
            BY <1>4
        <2>2. env' \subseteq S.env
            BY <2>1 DEF save_oidc_groups, TypeOK
        <2> QED
            BY <2>1, <2>2, SettingsType
            DEF save_oidc_groups, TypeOK, CoreOK, flagVars, dirVars, fleetVars
    <1> QED
        BY <1>1, <1>2, <1>3, <1>4 DEF SavesSettings

LEMMA NodeGroupType ==
    ASSUME TypeOK, ReqHolds, setup' = setup, NEW a \in Users, WritesNodeGroup(a)
    PROVE  CoreOK'
    <1>1. NodeGroupWrite(a)
        BY DEF WritesNodeGroup, SaveListGroup, SaveOtherMatcher, DeleteNodeGroup
    <1>2. /\ writes' = writes + 1 /\ writes < S.writes
          /\ UNCHANGED <<flagVars, dirVars, role, grants, idpVars, snapshot, req>>
        BY <1>1 DEF NodeGroupWrite, Begin
    <1>3. S.minions \subseteq Minions
        BY SituationIs DEF TypeOK
    <1>4. /\ row' \in [NodeGroups -> {"none", "live", "gone"}]
          /\ nodes' \in [NodeGroups -> SUBSET Minions]
        BY <1>3 DEF WritesNodeGroup, SaveListGroup, SaveOtherMatcher, DeleteNodeGroup, TypeOK
    <1>5. writes' \in 0..S.writes
        BY <1>2, SituationIs DEF TypeOK
    <1>6. ReqHolds'
        BY <1>2 DEF ReqHolds
    <1> QED
        BY <1>2, <1>4, <1>5, <1>6, SetupStays DEF TypeOK, CoreOK, flagVars, dirVars, idpVars

LEMMA SurroundingsType ==
    ASSUME TypeOK, ReqHolds, setup' = setup, SignsIn \/ RefreshesInventory
    PROVE  CoreOK'
    <1> USE SetupStays
    <1>1. CASE SignsIn
        <2>1. PICK u \in Users, groups \in SUBSET S.idp : provision_oidc_user(u, groups)
            BY <1>1 DEF SignsIn
        <2>2. groups \in SUBSET IdpGroups
            BY SituationIs DEF TypeOK
        <2>3. /\ users' = users \cup {u}
              /\ claims' = [claims EXCEPT ![u] = groups]
              /\ UNCHANGED <<flagVars, members, grants, idpVars, fleetVars, req, writes>>
            BY <2>1 DEF provision_oidc_user
        <2>4. role' \in [Users -> Ladder \cup {"scoped", "none"}]
            <3> DEFINE rs == {oidcRole[g] : g \in groups}
                       scoped == CachedRole(EntriesFrom(grants, members, groups, mappings, u))
                       legacy == IF "admin" \in rs THEN "admin"
                                 ELSE IF "operator" \in rs THEN "operator" ELSE "viewer"
            <3>1. scoped \in Ladder \cup {"scoped", "none"}
                BY CachedRoleType
            <3>2. legacy \in Ladder
                BY DEF Ladder
            <3>3. role' = [role EXCEPT ![u] = IF mode = "scoped" THEN scoped ELSE legacy]
                BY <2>1 DEF provision_oidc_user
            <3> HIDE DEF scoped, legacy
            <3> QED
                BY <3>1, <3>2, <3>3 DEF TypeOK
        <2>5. ReqHolds' /\ members' \in [LocalGroups -> SUBSET users'] /\ users' \subseteq Users
            BY <2>3 DEF ReqHolds, TypeOK
        <2> QED
            BY <2>2, <2>3, <2>4, <2>5 DEF TypeOK, CoreOK, flagVars, idpVars, fleetVars
    <1>2. CASE RefreshesInventory
        <2>1. PICK m \in S.minions : InventoryChanges(m)
            BY <1>2 DEF RefreshesInventory
        <2>2. m \in Minions
            BY SituationIs DEF TypeOK
        <2> QED
            BY <2>1, <2>2 DEF InventoryChanges, TypeOK, CoreOK, ReqHolds, flagVars, dirVars, idpVars
    <1> QED
        BY <1>1, <1>2


LEMMA RecordsType ==
    ASSUME TypeOK, CoreOK', Records
    PROVE  TypeOK'
    <1>1. setup' = setup
        BY DEF Records
    <1>2. granted' \subseteq Users
        BY DEF Records, CoreOK
    <1>3. stale' \subseteq Users
        BY DEF Records, CoreOK
    <1>4. settled' \in BOOLEAN
        BY Zenon DEF Records
    <1> QED
        BY <1>1, <1>2, <1>3, <1>4 DEF TypeOK, CoreOK

\* A step of Authz keeps the types, and what is posted stays sound.
LEMMA StepType ==
    ASSUME TypeOK, ReqHolds, OneAtATime
    PROVE  TypeOK' /\ ReqHolds'
    <1>1. setup' = setup
        BY DEF OneAtATime, Records
    <1>2. CoreOK'
        BY <1>1, ProceedsType, PostsType, SettingsSaveType, NodeGroupType, SurroundingsType
        DEF OneAtATime
    <1> QED
        BY <1>2, RecordsType DEF OneAtATime, CoreOK

LEMMA InitType ==
    ASSUME Init PROVE TypeOK /\ ReqHolds
    <1>1. setup \in DOMAIN Setups
        BY DEF Init
    <1>2. /\ mode \in {"legacy", "scoped"} /\ fallback \in BOOLEAN
          /\ users = S.users /\ users \subseteq Users
          /\ role \in [Users -> Ladder \cup {"scoped", "none"}]
          /\ grants \subseteq Grant
          /\ \A g \in grants : g.subject \in Users => g.subject \in users
          /\ snapshot \subseteq Minions
        BY <1>1, SituationIs DEF Init
    <1>3. mappings \subseteq Mapping
        <2>1. Fleet \in Scopes
            BY DEF Scopes
        <2>2. \A g \in IdpGroups : oidcRole[g] # "none" => oidcRole[g] \in Roles
            BY RolesAre DEF Init
        <2> QED
            BY <2>1, <2>2 DEF Init, Wanted, Mapping
    <1>4. 0 \in 0..S.writes
        BY <1>1, SituationIs
    <1> QED
        BY <1>1, <1>2, <1>3, <1>4 DEF Init, TypeOK, ReqHolds

-----------------------------------------------------------------------------
(* What a permission depends on.                                            *)

\* The variables a check reads.
checkVars == <<flagVars, dirVars, role, grants, idpVars, fleetVars>>

LEMMA EntriesStay ==
    ASSUME UNCHANGED <<grants, members, claims, mappings>>
    PROVE  \A u : Entries(u)' = Entries(u)
    BY DEF Entries

LEMMA EffectiveStays ==
    ASSUME UNCHANGED <<fallback, role, grants, members, claims, mappings>>
    PROVE  /\ \A u : Effective(u)' = Effective(u)
           /\ \A u, p : has_fleet(u, p)' = has_fleet(u, p)
           /\ \A u, p : authorize(u, p)' = authorize(u, p)
    <1>1. \A u : Effective(u)' = Effective(u)
        BY EntriesStay DEF Effective, EffectiveFrom
    <1> QED
        BY <1>1 DEF has_fleet, authorize

LEMMA ResolveStays ==
    ASSUME UNCHANGED fleetVars
    PROVE  /\ \A s : Resolve(s)' = Resolve(s)
           /\ \A entries, p : MinionsAmong(entries, p)' = MinionsAmong(entries, p)
    <1>1. \A s : Resolve(s)' = Resolve(s)
        BY DEF Resolve, fleetVars
    <1> QED
        BY <1>1 DEF MinionsAmong, fleetVars

LEMMA ScopeStays ==
    ASSUME UNCHANGED checkVars
    PROVE  /\ \A u, p : perm_scope_minions(u, p)' = perm_scope_minions(u, p)
           /\ \A u, p : minions_with(u, p)' = minions_with(u, p)
    <1>1. \A u : Effective(u)' = Effective(u)
        BY EffectiveStays DEF checkVars, flagVars, dirVars, idpVars
    <1>2. \A entries, p : MinionsAmong(entries, p)' = MinionsAmong(entries, p)
        BY ResolveStays DEF checkVars
    <1>3. \A u, p : perm_scope_minions(u, p)' = perm_scope_minions(u, p)
        BY <1>1, <1>2 DEF perm_scope_minions
    <1> QED
        BY <1>3 DEF minions_with


\* A check that held still does while nothing it reads changes.
LEMMA AllowedStays ==
    ASSUME UNCHANGED checkVars, NEW a, NEW op
    PROVE  Allowed(a, op)' = Allowed(a, op) /\ FleetAdmin(a)' = FleetAdmin(a)
    <1>0. /\ UNCHANGED <<mode, fallback, users, members, claims, role, grants>>
          /\ UNCHANGED <<mappings, oidcRole, row, nodes, snapshot>>
        BY DEF checkVars, flagVars, dirVars, idpVars, fleetVars
    <1>1. /\ \A u, p : has_fleet(u, p)' = has_fleet(u, p)
          /\ \A u, p : authorize(u, p)' = authorize(u, p)
        BY <1>0, EffectiveStays
    <1>2. \A s : Resolve(s)' = Resolve(s)
        BY ResolveStays DEF checkVars
    <1>3. FleetAdmin(a)' = FleetAdmin(a) /\ Delegate(a)' = Delegate(a)
        BY <1>0, <1>1 DEF FleetAdmin, Delegate
    <1>4. MayDelegate(a, op.role, op.scope)' = MayDelegate(a, op.role, op.scope)
        BY <1>2, ScopeStays DEF MayDelegate
    <1>5. MayEditGroup(a, op.on)' = MayEditGroup(a, op.on)
        BY <1>0, <1>2, ScopeStays DEF MayEditGroup, GroupGrants
    <1>6. ValidScope(op.role, op.scope)' = ValidScope(op.role, op.scope)
        BY <1>0 DEF ValidScope
    <1>7. Rows(op)' = Rows(op) /\ KeepsOwnAdmin(a, op)' = KeepsOwnAdmin(a, op)
        BY <1>0 DEF Rows, KeepsOwnAdmin, OtherFleetAdmin
    <1> QED
        BY <1>0, <1>3, <1>4, <1>5, <1>6, <1>7 DEF Allowed

-----------------------------------------------------------------------------
(* One request at a time: what its check saw is what its commit finds.      *)

OneHolds == \A a, b \in Users : req[a] # Idle /\ req[b] # Idle => a = b

Checked(a) == req[a] # Idle /\ req[a].phase = "checked"

CheckedHolds ==
    \A a \in Users : Checked(a) =>
        /\ a \in users
        /\ Allowed(a, req[a].op)
        /\ req[a].delegated = ~FleetAdmin(a)

AuthInv == TypeOK /\ ReqHolds /\ OneHolds /\ CheckedHolds

\* A step of a request leaves it idle or refreshing, and every other one idle.
LEMMA ProceedsReq ==
    ASSUME TypeOK, OneHolds, NEW a \in Users, Proceeds(a)
    PROVE  /\ req[a] # Idle
           /\ \A b \in Users \ {a} : req[b] = Idle /\ req'[b] = Idle
           /\ req'[a] = Idle \/ (req'[a].phase = "refresh" /\ req'[a].op = req[a].op)
    <1>1. req[a] # Idle
        BY DEF Proceeds, create_grant, delete_grant, edit_local_group_members,
            delete_local_group, set_role, delete, Refresh, Respond, WorkerDies, Committing
    <1>2. \A b \in Users \ {a} : req[b] = Idle
        BY <1>1 DEF OneHolds
    <1>3. req[a] \in Request /\ req \in [Users -> Request \cup {Idle}]
        BY <1>1 DEF TypeOK
    <1>4. \/ req' = [req EXCEPT ![a] = Idle]
          \/ \E affected : Committed(a, affected)
          \/ \E u \in Users : Refresh(a, u)
        BY DEF Proceeds, create_grant, delete_grant, edit_local_group_members,
            delete_local_group, set_role, delete, Respond, WorkerDies, Fails
    <1>5. CASE req' = [req EXCEPT ![a] = Idle]
        <2>1. \A b \in Users : req'[b] = IF b = a THEN Idle ELSE req[b]
            BY <1>3, <1>5
        <2>2. req'[a] = Idle /\ \A b \in Users \ {a} : req'[b] = Idle
            BY <1>2, <2>1
        <2> QED
            BY <1>1, <1>2, <2>2
    <1>6. CASE \E affected : Committed(a, affected)
        <2>1. PICK affected :
                req' = [req EXCEPT ![a] = [req[a] EXCEPT !.phase = "refresh", !.todo = affected]]
            BY <1>6 DEF Committed
        <2>2. /\ [req[a] EXCEPT !.phase = "refresh", !.todo = affected].phase = "refresh"
              /\ [req[a] EXCEPT !.phase = "refresh", !.todo = affected].op = req[a].op
            BY <1>3 DEF Request
        <2> QED
            BY <1>1, <1>2, <1>3, <2>1, <2>2
    <1>7. CASE \E u \in Users : Refresh(a, u)
        <2>1. PICK u \in Users : Refresh(a, u)
            BY <1>7
        <2>2. req' = [req EXCEPT ![a] = [req[a] EXCEPT !.todo = req[a].todo \ {u}]]
              /\ req[a].phase = "refresh"
            BY <2>1 DEF Refresh
        <2>3. /\ [req[a] EXCEPT !.todo = req[a].todo \ {u}].phase = "refresh"
              /\ [req[a] EXCEPT !.todo = req[a].todo \ {u}].op = req[a].op
            BY <1>3, <2>2 DEF Request
        <2> QED
            BY <1>1, <1>2, <1>3, <2>2, <2>3
    <1> QED
        BY <1>4, <1>5, <1>6, <1>7

LEMMA SettingsReq ==
    ASSUME TypeOK, AllIdle, NEW a \in Users, SavesSettings(a)
    PROVE  /\ \A b \in Users \ {a} : req'[b] = Idle
           /\ req'[a] # Idle /\ req'[a].phase = "refresh"
    <1>1. \E affected : SettingsWrite(a, affected)
        BY DEF SavesSettings, create_idp_mapping, delete_idp_mapping, save_rbac_control,
            save_oidc_groups
    <1> QED
        BY <1>1 DEF SettingsWrite, AllIdle, TypeOK, Idle

LEMMA QuietReq ==
    ASSUME TypeOK, AllIdle,
           SignsIn \/ RefreshesInventory \/ \E a \in Users : WritesNodeGroup(a)
    PROVE  AllIdle' /\ req' = req
    BY DEF AllIdle, SignsIn, provision_oidc_user, RefreshesInventory, InventoryChanges,
        WritesNodeGroup, NodeGroupWrite, SaveListGroup, SaveOtherMatcher, DeleteNodeGroup

LEMMA StepOne ==
    ASSUME AuthInv, OneAtATime
    PROVE  AuthInv'
    <1>1. TypeOK' /\ ReqHolds'
        BY StepType DEF AuthInv
    <1>2. CASE \E a \in Users : Proceeds(a)
        <2>1. PICK a \in Users : Proceeds(a)
            BY <1>2
        <2>2. /\ \A b \in Users \ {a} : req'[b] = Idle
              /\ req'[a] = Idle \/ req'[a].phase = "refresh"
            BY <2>1, ProceedsReq DEF AuthInv
        <2> QED
            BY <1>1, <2>2 DEF AuthInv, OneHolds, CheckedHolds, Checked
    <1>3. CASE AllIdle /\ \E a \in Users : Posts(a)
        <2>1. PICK a \in Users : Posts(a)
            BY <1>3
        <2>2. PICK op \in Offered : Check(a, op)
            BY <2>1 DEF Posts
        <2> DEFINE x == [phase |-> "checked", op |-> op, delegated |-> ~FleetAdmin(a),
                         memo |-> IF mode = "scoped" THEN Entries(a) ELSE {},
                         memoised |-> mode = "scoped", todo |-> {}]
        <2>3. req' = [req EXCEPT ![a] = x] /\ a \in users /\ Allowed(a, op)
              /\ UNCHANGED checkVars
            BY <2>2 DEF Check, Begin, checkVars
        <2>4. \A b \in Users : req'[b] = IF b = a THEN x ELSE Idle
            BY <1>3, <2>3 DEF AllIdle, AuthInv, TypeOK
        <2>5. x.op = op /\ x.delegated = ~FleetAdmin(a)
            OBVIOUS
        <2> HIDE DEF x
        <2>6. OneHolds'
            BY <2>4 DEF OneHolds
        <2>7. Allowed(a, op)' /\ FleetAdmin(a)' = FleetAdmin(a) /\ users' = users
            BY <2>3, AllowedStays DEF checkVars, dirVars
        <2>8. CheckedHolds'
            <3> SUFFICES ASSUME NEW b \in Users, Checked(b)'
                         PROVE  b \in users' /\ Allowed(b, req[b].op)'
                                /\ req'[b].delegated = ~FleetAdmin(b)'
                BY DEF CheckedHolds
            <3>1. b = a /\ req'[b] = x
                BY <2>4 DEF Checked
            <3>2. req'[b].op = op
                BY <3>1, <2>5
            <3> QED
                BY <2>3, <2>5, <2>7, <3>1, <3>2
        <2> QED
            BY <1>1, <2>6, <2>8 DEF AuthInv
    <1>4. CASE AllIdle /\ \E a \in Users : SavesSettings(a)
        <2>1. PICK a \in Users : SavesSettings(a)
            BY <1>4
        <2>2. /\ \A b \in Users \ {a} : req'[b] = Idle
              /\ req'[a].phase = "refresh"
            BY <1>4, <2>1, SettingsReq DEF AuthInv
        <2> QED
            BY <1>1, <2>2 DEF AuthInv, OneHolds, CheckedHolds, Checked
    <1>5. CASE AllIdle /\ (SignsIn \/ RefreshesInventory \/ \E a \in Users : WritesNodeGroup(a))
        <2>1. AllIdle'
            BY <1>5, QuietReq DEF AuthInv
        <2> QED
            BY <1>1, <2>1 DEF AuthInv, OneHolds, CheckedHolds, Checked, AllIdle
    <1> QED
        BY <1>2, <1>3, <1>4, <1>5 DEF OneAtATime


-----------------------------------------------------------------------------
(* Delegation.                                                              *)

LEMMA EntriesAre ==
    ASSUME NEW rows, NEW teams, NEW groups, NEW maps, NEW u, NEW e
    PROVE  e \in EntriesFrom(rows, teams, groups, maps, u) <=>
              \/ \E h \in rows : /\ h.subject = u \/ (h.subject \in LocalGroups /\ u \in teams[h.subject])
                                 /\ e = EntryOf(h)
              \/ \E n \in maps : n.group \in groups /\ e = EntryOf(n)
    BY DEF EntriesFrom

LEMMA MinionsAre ==
    ASSUME NEW entries, NEW p, NEW m
    PROVE  m \in MinionsAmong(entries, p) <=>
              \E e \in entries : Carries(e, p) /\ m \in IF e.scope = Fleet THEN snapshot
                                                        ELSE Resolve(e.scope)
    BY DEF MinionsAmong

LEMMA MinionScopesAre ==
    ASSUME NEW s \in MinionScopes PROVE s # Fleet
    BY DEF MinionScopes, MatchScopes, Match, InGroup, Fleet

\* The entries that u has on one side of the step only are on minion scopes inside D.
MovesInside(u, D) ==
    \A e : (e \in Entries(u)) # (e \in Entries(u)') =>
              e.scope \in MinionScopes /\ Resolve(e.scope) \subseteq D

\* Then nothing outside D changes for u.
LEMMA MovesInsideKeep ==
    ASSUME UNCHANGED fleetVars, NEW u, NEW D, MovesInside(u, D),
           ~OnFallback(u), ~OnFallback(u)'
    PROVE  /\ FleetPerms(u)' = FleetPerms(u)
           /\ \A m \in Minions \ D : HeldOn(u, m)' = HeldOn(u, m)
    <1>1. Effective(u) = Entries(u) /\ Effective(u)' = Entries(u)'
        BY DEF Effective, EffectiveFrom, OnFallback
    <1>2. \A e : e.scope = Fleet => (e \in Entries(u)) = (e \in Entries(u)')
        BY MinionScopesAre DEF MovesInside
    <1>3. \A p : has_fleet(u, p)' = has_fleet(u, p)
        BY <1>1, <1>2 DEF has_fleet, FleetAmong
    <1>4. FleetPerms(u)' = FleetPerms(u)
        BY <1>3 DEF FleetPerms
    <1>5. ASSUME NEW m \in Minions \ D, NEW p
          PROVE  m \in MinionsAmong(Entries(u), p) <=> m \in MinionsAmong(Entries(u)', p)
        <2> DEFINE Gives(e) == Carries(e, p) /\ m \in IF e.scope = Fleet THEN snapshot
                                                      ELSE Resolve(e.scope)
        <2>1. \A e : Gives(e) => (e \in Entries(u)) = (e \in Entries(u)')
            BY <1>2 DEF MovesInside
        <2>2. m \in MinionsAmong(Entries(u), p) <=> \E e \in Entries(u) : Gives(e)
            BY MinionsAre
        <2>3. m \in MinionsAmong(Entries(u)', p) <=> \E e \in Entries(u)' : Gives(e)
            BY MinionsAre
        <2> HIDE DEF Gives
        <2> QED
            BY <2>1, <2>2, <2>3
    <1>6. \A p : MinionsAmong(Entries(u)', p) = perm_scope_minions(u, p)'
                 /\ MinionsAmong(Entries(u), p) = perm_scope_minions(u, p)
        BY <1>1, ResolveStays DEF perm_scope_minions, MinionsAmong, fleetVars
    <1>7. ASSUME NEW m \in Minions \ D
          PROVE  HeldOn(u, m)' = HeldOn(u, m)
        BY <1>5, <1>6 DEF HeldOn
    <1> QED
        BY <1>4, <1>7


\* What the property says of a commit of a's.
InsideScope(a) ==
    /\ \A u \in users : ~OnFallback(u) /\ ~OnFallback(u)' =>
          /\ FleetPerms(u)' = FleetPerms(u)
          /\ \A m \in Minions \ minions_with(a, "grant.delegate") :
                HeldOn(u, m)' = HeldOn(u, m)
    /\ \A g \in grants' \ grants : \A m \in Resolve(g.scope) :
          ROLE_PERMS[g.role] \cap (MinionDomain \cup DelegateDomain) \subseteq HeldOn(a, m)

\* A delegate's commit stays inside the scope that its check compared it with.
LEMMA CommitStaysInside ==
    ASSUME AuthInv, NEW a \in Users, Proceeds(a), DelegateCommits(a)
    PROVE  InsideScope(a)
    <1> DEFINE op == req[a].op
               D == minions_with(a, "grant.delegate")
    <1>1. Checked(a) /\ req[a].delegated /\ req'[a] # Idle /\ req'[a].phase = "refresh"
        BY DEF DelegateCommits, Checked
    <1>2. Allowed(a, op) /\ ~FleetAdmin(a)
        BY <1>1 DEF AuthInv, CheckedHolds
    <1>3. op \in Operation
        BY <1>1, RequestUpdates DEF AuthInv, Checked
    <1>4. SUFFICES /\ UNCHANGED fleetVars
                   /\ \A u \in users : MovesInside(u, D)
                   /\ \A g \in grants' \ grants :
                         MayDelegate(a, g.role, g.scope) /\ g.role \in Roles
        <2>1. \A u \in users : ~OnFallback(u) /\ ~OnFallback(u)' =>
                 /\ FleetPerms(u)' = FleetPerms(u)
                 /\ \A m \in Minions \ D : HeldOn(u, m)' = HeldOn(u, m)
            BY <1>4, MovesInsideKeep
        <2>2. \A r \in Roles : ROLE_PERMS[r] \subseteq Perms
            BY DEF Perms
        <2>3. MinionDomain \cap (FleetDomain \cup PrefixDomain) = {}
              /\ DelegateDomain \cap (FleetDomain \cup PrefixDomain) = {}
            BY DEF MinionDomain, FleetDomain, PrefixDomain, DelegateDomain
        <2>4. ASSUME NEW g \in grants' \ grants, NEW m \in Resolve(g.scope),
                     NEW p \in ROLE_PERMS[g.role] \cap (MinionDomain \cup DelegateDomain)
              PROVE  p \in HeldOn(a, m)
            BY <1>4, <2>2, <2>3 DEF MayDelegate, HeldOn
        <2> QED
            BY <2>1, <2>4 DEF InsideScope
    <1>5. CASE create_grant(a)
        <2>1. op.kind = "create" /\ MayDelegate(a, op.role, op.scope)
            BY <1>2, <1>5 DEF Allowed, create_grant, Committing
        <2>2. /\ grants' = grants \cup {[subject |-> op.on, role |-> op.role,
                                         scope |-> op.scope, source |-> "manual"]}
              /\ UNCHANGED <<members, claims, mappings>> /\ UNCHANGED fleetVars
            BY <1>1, <1>5 DEF create_grant, Fails, dirVars, idpVars, AuthInv, TypeOK
        <2>3. op.scope \in MinionScopes /\ Resolve(op.scope) \subseteq D
            BY <2>1 DEF MayDelegate
        <2>4. ASSUME NEW u \in users PROVE MovesInside(u, D)
            <3>1. \A e : (e \in Entries(u)) # (e \in Entries(u)') => e.scope = op.scope
                BY <2>2, EntriesAre DEF Entries, EntryOf
            <3> QED
                BY <2>3, <3>1 DEF MovesInside
        <2>5. \A g \in grants' \ grants : g.role = op.role /\ g.scope = op.scope
            BY <2>2
        <2> QED
            BY <1>3, <2>1, <2>2, <2>4, <2>5 DEF Operation
    <1>6. CASE delete_grant(a)
        <2>1. op.kind = "drop" /\ MayDelegate(a, op.role, op.scope)
            BY <1>2, <1>6 DEF Allowed, delete_grant, Committing
        <2>2. /\ grants' = grants \ Rows(op)
              /\ UNCHANGED <<members, claims, mappings>> /\ UNCHANGED fleetVars
            BY <1>1, <1>6 DEF delete_grant, Fails, dirVars, idpVars, AuthInv, TypeOK
        <2>3. op.scope \in MinionScopes /\ Resolve(op.scope) \subseteq D
            BY <2>1 DEF MayDelegate
        <2>4. ASSUME NEW u \in users PROVE MovesInside(u, D)
            <3>1. \A e : (e \in Entries(u)) # (e \in Entries(u)') => e.scope = op.scope
                BY <2>2, EntriesAre DEF Entries, EntryOf, Rows
            <3> QED
                BY <2>3, <3>1 DEF MovesInside
        <2> QED
            BY <2>2, <2>4
    <1>7. ASSUME MayEditGroup(a, op.on), op.on \in LocalGroups,
                 \A g \in LocalGroups \ {op.on} : members'[g] = members[g],
                 grants' \subseteq grants, \A g \in grants \ grants' : g.subject = op.on,
                 UNCHANGED <<claims, mappings>>, NEW u \in users
          PROVE  MovesInside(u, D)
        <2>1. \A h \in grants : h.subject = op.on =>
                 h.scope \in MinionScopes /\ Resolve(h.scope) \subseteq D
            BY <1>7 DEF MayEditGroup, GroupGrants
        <2>2. ASSUME NEW e, (e \in Entries(u)) # (e \in Entries(u)')
              PROVE  \E h \in grants : h.subject = op.on /\ e = EntryOf(h)
            BY <1>7, <2>2, EntriesAre, SubjectsAssumption DEF Entries, AuthInv, TypeOK
        <2> QED
            BY <2>1, <2>2 DEF MovesInside, EntryOf
    <1>8. CASE edit_local_group_members(a)
        <2>1. op.kind = "members"
            BY <1>8 DEF edit_local_group_members, Committing
        <2>2. MayEditGroup(a, op.on) /\ op.on \in LocalGroups
            BY <1>1, <1>2, <2>1 DEF Allowed, AuthInv, ReqHolds, Sound, Checked
        <2>3. UNCHANGED fleetVars /\ UNCHANGED <<claims, mappings, grants>>
              /\ \A g \in LocalGroups \ {op.on} : members'[g] = members[g]
            BY <1>8 DEF edit_local_group_members, idpVars, AuthInv, TypeOK
        <2> QED
            BY <1>7, <2>2, <2>3
    <1>9. CASE delete_local_group(a)
        <2>1. op.kind = "disband"
            BY <1>9 DEF delete_local_group, Committing
        <2>2. MayEditGroup(a, op.on) /\ op.on \in LocalGroups
            BY <1>1, <1>2, <2>1 DEF Allowed, AuthInv, ReqHolds, Sound, Checked
        <2>3. UNCHANGED fleetVars /\ UNCHANGED <<claims, mappings>>
              /\ grants' = grants \ GroupGrants(op.on)
              /\ \A g \in LocalGroups \ {op.on} : members'[g] = members[g]
            BY <1>9 DEF delete_local_group, idpVars, AuthInv, TypeOK
        <2>4. grants' \subseteq grants /\ \A g \in grants \ grants' : g.subject = op.on
            BY <2>3 DEF GroupGrants
        <2> QED
            BY <1>7, <2>2, <2>3, <2>4
    <1>10. ~set_role(a) /\ ~delete(a)
        BY <1>2 DEF Allowed, set_role, delete, Committing
    <1>11. ~(\E u \in Users : Refresh(a, u)) /\ ~Respond(a) /\ ~WorkerDies(a)
        BY <1>1 DEF Refresh, Respond, WorkerDies, Checked, AuthInv, TypeOK
    <1> QED
        BY <1>5, <1>6, <1>8, <1>9, <1>10, <1>11 DEF Proceeds

LEMMA StepDelegation ==
    ASSUME AuthInv, OneAtATime, NEW a \in Users, DelegateCommits(a)
    PROVE  InsideScope(a)
    <1>1. req[a] # Idle
        BY DEF DelegateCommits
    <1>2. PICK b \in Users : Proceeds(b)
        BY <1>1 DEF OneAtATime, AllIdle
    <1>3. b = a
        BY <1>1, <1>2, ProceedsReq DEF AuthInv
    <1> QED
        BY <1>2, <1>3, CommitStaysInside


-----------------------------------------------------------------------------
(* The OIDC group settings.                                                 *)

\* Only the settings pages write the mode and the mappings.
LEMMA SettingsFrame ==
    ASSUME OneAtATime
    PROVE  (\E a \in Users : SavesSettings(a)) \/ UNCHANGED <<flagVars, idpVars>>
    BY DEF OneAtATime, SignsIn, provision_oidc_user, RefreshesInventory, InventoryChanges,
        Proceeds, create_grant, delete_grant, edit_local_group_members, delete_local_group,
        set_role, delete, Refresh, Respond, WorkerDies, Posts, Check,
        WritesNodeGroup, NodeGroupWrite, SaveListGroup, SaveOtherMatcher, DeleteNodeGroup

LEMMA BackfilledFollow ==
    ASSUME TypeOK
    PROVE  \A m \in Wanted \cup Backfilled : m.origin = "backfill" => m.role = oidcRole[m.group]
    BY DEF Wanted, Backfilled

LEMMA StepBackfill ==
    ASSUME TypeOK, BackfillFollowsSettings, OneAtATime
    PROVE  BackfillFollowsSettings'
    <1>0. mode = "scoped" /\ settled' => settled
        BY Zenon DEF OneAtATime, Records
    <1>1. CASE UNCHANGED <<flagVars, idpVars>>
        BY <1>0, <1>1 DEF BackfillFollowsSettings, flagVars, idpVars
    <1>2. CASE \E a \in Users : SavesSettings(a)
        <2>1. PICK a \in Users : SavesSettings(a)
            BY <1>2
        <2>2. CASE \E g \in S.idp, r \in S.groupRoles, s \in OfferedScopes :
                      create_idp_mapping(a, g, r, s)
            BY <1>0, <2>2 DEF create_idp_mapping, flagVars, BackfillFollowsSettings
        <2>3. CASE \E m \in mappings : delete_idp_mapping(a, m)
            BY <1>0, <2>3 DEF delete_idp_mapping, flagVars, BackfillFollowsSettings
        <2>4. CASE \E m \in {"legacy", "scoped"}, f \in S.fallbacks : save_rbac_control(a, m, f)
            <3>1. PICK m \in {"legacy", "scoped"}, f \in S.fallbacks : save_rbac_control(a, m, f)
                BY <2>4
            <3>2. /\ mode' = m /\ oidcRole' = oidcRole
                  /\ mappings' = IF m = "scoped" /\ mode = "legacy" THEN Backfilled ELSE mappings
                BY <3>1 DEF save_rbac_control
            <3>3. mode \in {"legacy", "scoped"}
                BY DEF TypeOK
            <3> QED
                BY <1>0, <3>2, <3>3, BackfilledFollow DEF BackfillFollowsSettings
        <2>5. CASE \E g \in S.idp, r \in {"admin", "operator", "none"}, cleared \in BOOLEAN :
                      save_oidc_groups(a, g, r, cleared)
            BY <2>5 DEF save_oidc_groups, BackfillFollowsSettings
        <2> QED
            BY <2>1, <2>2, <2>3, <2>4, <2>5 DEF SavesSettings
    <1> QED
        BY <1>1, <1>2, SettingsFrame

-----------------------------------------------------------------------------
(* The last admin.                                                          *)

\* In a guarded situation admin comes from one's own fleet grant only, and some
\* account has one.
AdminRow(g) == g.role = "admin" /\ g.scope = Fleet /\ g.subject \in users

AdminHolds ==
    Guarded =>
        /\ mode = "scoped" /\ ~fallback
        /\ mappings = {}
        /\ \A g \in grants : g.role = "admin" => g.subject \in Users
        /\ \E g \in grants : AdminRow(g)
        /\ \A a \in Users : req[a] # Idle /\ req[a].op.kind = "create"
              /\ req[a].op.on \in LocalGroups => req[a].op.role # "admin"

LEMMA OnlyAdminAdministers ==
    ASSUME NEW r \in Roles, "grant.admin" \in ROLE_PERMS[r] PROVE r = "admin"
    BY RolesAre DEF ROLE_PERMS

\* Then a fleet admin has the row.
LEMMA AdminHasRow ==
    ASSUME TypeOK, AdminHolds, Guarded, NEW a \in Users, FleetAdmin(a)
    PROVE  \E g \in grants : AdminRow(g) /\ g.subject = a
    <1>1. mode = "scoped" /\ ~fallback /\ mappings = {}
        BY DEF AdminHolds
    <1>2. has_fleet(a, "grant.admin") /\ Effective(a) = Entries(a)
        BY <1>1 DEF FleetAdmin, Effective, EffectiveFrom
    <1>3. PICK e \in Entries(a) : "grant.admin" \in ROLE_PERMS[e.role] /\ e.scope = Fleet
        BY <1>2 DEF has_fleet, FleetAmong
    <1>4. e \in Entry
        BY <1>3, EntriesType
    <1>5. e.role = "admin"
        BY <1>3, <1>4, OnlyAdminAdministers DEF Entry
    <1>6. PICK h \in grants : /\ h.subject = a \/ (h.subject \in LocalGroups /\ a \in members[h.subject])
                              /\ e = EntryOf(h)
        BY <1>1, <1>3, EntriesAre DEF Entries
    <1>7. h.role = "admin" /\ h.scope = Fleet
        BY <1>3, <1>5, <1>6 DEF EntryOf
    <1>8. h.subject \in Users
        BY <1>7 DEF AdminHolds
    <1>9. h.subject = a /\ h.subject \in users
        BY <1>6, <1>8, SubjectsAssumption DEF TypeOK
    <1> QED
        BY <1>7, <1>9 DEF AdminRow

LEMMA RowMakesAdmin ==
    ASSUME TypeOK, NEW g \in grants, AdminRow(g)
    PROVE  has_fleet(g.subject, "grant.admin")
    <1>1. EntryOf(g) \in Entries(g.subject)
        BY EntriesAre DEF Entries
    <1>2. Effective(g.subject) = Entries(g.subject)
        BY <1>1 DEF Effective, EffectiveFrom
    <1>3. EntryOf(g).role = "admin" /\ EntryOf(g).scope = Fleet
        BY DEF EntryOf, AdminRow
    <1>4. "grant.admin" \in ROLE_PERMS["admin"]
        BY DEF ROLE_PERMS
    <1> QED
        BY <1>1, <1>2, <1>3, <1>4 DEF has_fleet, FleetAmong

LEMMA AdminHoldsIsEnough ==
    ASSUME TypeOK, AdminHolds PROVE AdminRemains
    BY RowMakesAdmin DEF AdminHolds, AdminRemains, AdminRow


\* A step that takes neither accounts nor grants away.
LEMMA AdminRowStays ==
    ASSUME users \subseteq users', grants \subseteq grants', \E g \in grants : AdminRow(g)
    PROVE  \E g \in grants' : AdminRow(g)'
    BY DEF AdminRow

\* The three guards: a request that takes an admin away is an admin's, and that
\* admin keeps its own row.
LEMMA ProceedsAdmin ==
    ASSUME AuthInv, AdminHolds, Guarded, NEW a \in Users, Proceeds(a)
    PROVE  /\ \E g \in grants' : AdminRow(g)'
           /\ \A g \in grants' : g.role = "admin" => g.subject \in Users
    <1> DEFINE op == req[a].op
    <1>0. /\ \A g \in grants : g.role = "admin" => g.subject \in Users
          /\ \E g \in grants : AdminRow(g)
          /\ mappings = {}
          /\ TypeOK
        BY DEF AdminHolds, AuthInv
    <1>1. CASE create_grant(a)
        <2>1. Checked(a) /\ op.kind = "create"
            BY <1>1 DEF create_grant, Committing, Checked
        <2>2. op \in Operation
            BY <1>0, <2>1, RequestUpdates DEF Checked
        <2>3. op.role = "admin" => op.on \in Users
            BY <2>1, <2>2 DEF AdminHolds, Checked, Operation, Subjects
        <2>4. users' = users /\ (grants' = grants \/ grants' = grants \cup
                 {[subject |-> op.on, role |-> op.role, scope |-> op.scope, source |-> "manual"]})
            BY <1>1 DEF create_grant, Fails, dirVars
        <2> QED
            BY <1>0, <2>3, <2>4, AdminRowStays
    <1>2. CASE delete_grant(a)
        <2>1. Checked(a) /\ op.kind = "drop"
            BY <1>2 DEF delete_grant, Committing, Checked
        <2>2. Allowed(a, op)
            BY <2>1 DEF AuthInv, CheckedHolds
        <2>3. KeepsOwnAdmin(a, op)
              /\ (FleetAdmin(a) \/ MayDelegate(a, op.role, op.scope))
            BY <2>1, <2>2 DEF Allowed
        <2>4. users' = users /\ grants' \subseteq grants /\ grants \ grants' \subseteq Rows(op)
            BY <1>2 DEF delete_grant, Fails, dirVars
        <2>5. CASE FleetAdmin(a)
            <3>1. PICK g \in grants : AdminRow(g) /\ g.subject = a
                BY <2>5, <1>0, AdminHasRow
            <3>2. g \notin Rows(op)
                BY <1>0, <2>3, <3>1 DEF Rows, AdminRow, KeepsOwnAdmin, OtherFleetAdmin
            <3> QED
                BY <1>0, <2>4, <3>1, <3>2 DEF AdminRow
        <2>6. CASE MayDelegate(a, op.role, op.scope)
            <3>1. op.role # "admin"
                BY <2>6 DEF MayDelegate, FLEET_ONLY_ROLES, Ladder
            <3>2. PICK g \in grants : AdminRow(g)
                BY <1>0
            <3>3. g \notin Rows(op)
                BY <3>1, <3>2 DEF Rows, AdminRow
            <3> QED
                BY <1>0, <2>4, <3>2, <3>3 DEF AdminRow
        <2> QED
            BY <2>3, <2>5, <2>6
    <1>3. CASE edit_local_group_members(a)
        BY <1>0, <1>3, AdminRowStays DEF edit_local_group_members
    <1>4. CASE delete_local_group(a)
        <2>1. Checked(a) /\ op.kind = "disband"
            BY <1>4 DEF delete_local_group, Committing, Checked
        <2>2. op.on \in LocalGroups
            BY <2>1 DEF AuthInv, ReqHolds, Sound, Checked
        <2>3. users' = users /\ grants' = grants \ GroupGrants(op.on)
            BY <1>4 DEF delete_local_group
        <2>4. PICK g \in grants : AdminRow(g)
            BY <1>0
        <2>5. g \notin GroupGrants(op.on)
            BY <1>0, <2>2, <2>4, SubjectsAssumption DEF GroupGrants, AdminRow
        <2> QED
            BY <1>0, <2>3, <2>4, <2>5 DEF AdminRow
    <1>5. CASE set_role(a)
        <2>1. Checked(a) /\ op.kind = "set_role"
            BY <1>5 DEF set_role, Committing, Checked
        <2>2. Allowed(a, op) /\ op.on \in Users
            BY <2>1 DEF AuthInv, CheckedHolds, ReqHolds, Sound, Checked
        <2>3. FleetAdmin(a) /\ (op.on = a => op.role = "admin")
            BY <2>1, <2>2 DEF Allowed
        <2>4. PICK g \in grants : AdminRow(g) /\ g.subject = a
            BY <1>0, <2>3, AdminHasRow
        <2>5. users' = users
            BY <1>5 DEF set_role, dirVars
        <2> DEFINE x == [subject |-> op.on, role |-> op.role, scope |-> Fleet,
                         source |-> "manual"]
        <2>6. \/ grants' = grants
              \/ /\ op.on \in users
                 /\ grants' = (grants \ {h \in grants : h.subject = op.on /\ h.scope = Fleet
                                                        /\ h.role \in Ladder}) \cup {x}
            BY <1>5 DEF set_role, Fails
        <2>7. CASE op.on = a
            <3>1. x.role = "admin" /\ x.scope = Fleet /\ x.subject = a /\ a \in users
                BY <2>3, <2>4, <2>7 DEF AdminRow
            <3> HIDE DEF x
            <3>2. g \in grants' \/ x \in grants'
                BY <2>6
            <3>3. \E h \in grants' : AdminRow(h)'
                BY <2>4, <2>5, <3>1, <3>2 DEF AdminRow
            <3>4. \A h \in grants' : h.role = "admin" => h.subject \in Users
                BY <1>0, <2>6, <3>1
            <3> QED
                BY <3>3, <3>4
        <2>8. CASE op.on # a
            <3>1. g \in grants'
                BY <2>4, <2>6, <2>8
            <3>2. x.subject \in Users
                BY <2>2
            <3> HIDE DEF x
            <3>3. \A h \in grants' : h.role = "admin" => h.subject \in Users
                BY <1>0, <2>6, <3>2
            <3> QED
                BY <2>4, <2>5, <3>1, <3>3 DEF AdminRow
        <2> QED
            BY <2>7, <2>8
    <1>6. CASE delete(a)
        <2>1. Checked(a) /\ op.kind = "delete"
            BY <1>6 DEF delete, Committing, Checked
        <2>2. Allowed(a, op)
            BY <2>1 DEF AuthInv, CheckedHolds
        <2>3. FleetAdmin(a) /\ op.on # a
            BY <2>1, <2>2 DEF Allowed
        <2>4. PICK g \in grants : AdminRow(g) /\ g.subject = a
            BY <1>0, <2>3, AdminHasRow
        <2>5. users' = users \ {op.on} /\ grants' = {h \in grants : h.subject # op.on}
            BY <1>6 DEF delete
        <2> QED
            BY <1>0, <2>3, <2>4, <2>5 DEF AdminRow
    <1>7. CASE (\E u \in Users : Refresh(a, u)) \/ Respond(a) \/ WorkerDies(a)
        <2>1. users' = users /\ grants' = grants
            BY <1>7 DEF Refresh, Respond, WorkerDies, dirVars
        <2> QED
            BY <1>0, <2>1, AdminRowStays
    <1> QED
        BY <1>1, <1>2, <1>3, <1>4, <1>5, <1>6, <1>7 DEF Proceeds


LEMMA StepAdmin ==
    ASSUME AuthInv, AdminHolds, OneAtATime
    PROVE  AdminHolds'
    <1>1. setup' = setup /\ S' = S
        BY SetupStays DEF OneAtATime, Records
    <1>2. Guarded' = Guarded
        BY <1>1 DEF Guarded
    <1>3. SUFFICES ASSUME Guarded
                   PROVE  /\ mode' = "scoped" /\ ~fallback'
                          /\ mappings' = {}
                          /\ \A g \in grants' : g.role = "admin" => g.subject \in Users
                          /\ \E g \in grants' : AdminRow(g)'
                          /\ \A a \in Users : req'[a] # Idle /\ req'[a].op.kind = "create"
                                /\ req'[a].op.on \in LocalGroups => req'[a].op.role # "admin"
        BY <1>2 DEF AdminHolds
    <1>4. /\ mode = "scoped" /\ ~fallback /\ mappings = {}
          /\ \A g \in grants : g.role = "admin" => g.subject \in Users
          /\ \E g \in grants : AdminRow(g)
        BY <1>3 DEF AdminHolds
    <1>5. ~S.switches /\ S.fallbacks = {FALSE} /\ S.idp = {} /\ "admin" \notin S.groupRoles
        BY <1>3 DEF Guarded
    <1>6. CASE \E a \in Users : Proceeds(a)
        <2>1. PICK a \in Users : Proceeds(a)
            BY <1>6
        <2>2. UNCHANGED <<flagVars, idpVars>>
            BY <2>1 DEF Proceeds, create_grant, delete_grant, edit_local_group_members,
                delete_local_group, set_role, delete, Refresh, Respond, WorkerDies
        <2>3. /\ req[a] # Idle
              /\ \A b \in Users \ {a} : req'[b] = Idle
              /\ req'[a] = Idle \/ req'[a].op = req[a].op
            BY <2>1, ProceedsReq DEF AuthInv
        <2>4. \A b \in Users : req'[b] # Idle /\ req'[b].op.kind = "create"
                 /\ req'[b].op.on \in LocalGroups => req'[b].op.role # "admin"
            BY <1>3, <2>3 DEF AdminHolds
        <2> QED
            BY <1>3, <1>4, <2>1, <2>2, <2>4, ProceedsAdmin DEF flagVars, idpVars
    <1>7. CASE AllIdle /\ \E a \in Users : Posts(a)
        <2>1. PICK a \in Users : Posts(a)
            BY <1>7
        <2>2. PICK op \in Offered : Check(a, op)
            BY <2>1 DEF Posts
        <2>3. UNCHANGED <<mode, fallback, mappings, users, grants>>
            BY <2>2 DEF Check, flagVars, dirVars, idpVars
        <2>4. \A b \in Users : req'[b] = Idle \/ req'[b].op = op
            BY <1>7, <2>2 DEF Check, AllIdle, AuthInv, TypeOK
        <2>5. op.on \in LocalGroups /\ op.kind = "create" => op.role \in S.groupRoles
            BY SubjectsAssumption DEF Offered, Op, AuthInv, TypeOK
        <2>6. \A b \in Users : req'[b] # Idle /\ req'[b].op.kind = "create"
                 /\ req'[b].op.on \in LocalGroups => req'[b].op.role # "admin"
            BY <1>5, <2>4, <2>5
        <2> QED
            BY <1>4, <2>3, <2>6, AdminRowStays
    <1>8. CASE AllIdle /\ \E a \in Users : SavesSettings(a)
        <2>1. PICK a \in Users : SavesSettings(a)
            BY <1>8
        <2>2. PICK m \in {"legacy", "scoped"}, f \in S.fallbacks : save_rbac_control(a, m, f)
            BY <1>4, <1>5, <2>1 DEF SavesSettings, save_oidc_groups
        <2>3. m = "scoped" /\ ~f
            BY <1>4, <1>5, <2>2 DEF save_rbac_control
        <2>4. mode' = m /\ fallback' = f /\ mappings' = mappings /\ users' = users
              /\ grants' = grants
            BY <1>4, <2>2 DEF save_rbac_control, dirVars
        <2>5. \A b \in Users : req'[b] = Idle \/ req'[b].op.kind = "settings"
            <3>1. PICK affected : SettingsWrite(a, affected)
                BY <2>2 DEF save_rbac_control
            <3> QED
                BY <1>8, <3>1 DEF SettingsWrite, Op, AllIdle, AuthInv, TypeOK
        <2> QED
            BY <1>4, <2>3, <2>4, <2>5, AdminRowStays
    <1>9. CASE AllIdle /\ (SignsIn \/ RefreshesInventory \/ \E a \in Users : WritesNodeGroup(a))
        <2>1. AllIdle'
            BY <1>9, QuietReq DEF AuthInv
        <2>2. UNCHANGED <<mode, fallback, mappings, grants>> /\ users \subseteq users'
            BY <1>9 DEF SignsIn, provision_oidc_user, RefreshesInventory, InventoryChanges,
                WritesNodeGroup, NodeGroupWrite, SaveListGroup, SaveOtherMatcher,
                DeleteNodeGroup, flagVars, dirVars, idpVars
        <2> QED
            BY <1>4, <2>1, <2>2, AdminRowStays DEF AllIdle
    <1> QED
        BY <1>6, <1>7, <1>8, <1>9 DEF OneAtATime


-----------------------------------------------------------------------------
(* The role column.                                                         *)

Fresh(u) == role[u] = CachedRole(Entries(u))
Due(u) == \E a \in Users : req[a] # Idle /\ u \in req[a].todo

\* In scoped mode a column is the one the grants give, or its recomputation is
\* due, or it is among the exceptions; a request that has not committed owes
\* nothing, and an account that is gone claims nothing.
RoleHolds ==
    /\ \A u \in Users \ users : claims[u] = {}
    /\ \A a \in Users : Checked(a) => req[a].todo = {}
    /\ mode = "scoped" => \A u \in users \ stale : Fresh(u) \/ Due(u)

AppliesTo(h, teams, u) == h.subject = u \/ (h.subject \in LocalGroups /\ u \in teams[h.subject])

LEMMA EntriesSame ==
    ASSUME NEW u, claims'[u] = claims[u],
           \A n : n.group \in claims[u] => (n \in mappings' <=> n \in mappings),
           \A h : (h \in grants' /\ AppliesTo(h, members', u))
                    <=> (h \in grants /\ AppliesTo(h, members, u))
    PROVE  Entries(u)' = Entries(u)
    <1>1. ASSUME NEW e
          PROVE  e \in EntriesFrom(grants', members', claims'[u], mappings', u)
                    <=> e \in EntriesFrom(grants, members, claims[u], mappings, u)
        BY EntriesAre DEF AppliesTo
    <1>2. Entries(u) \subseteq EntriesFrom(grants', members', claims'[u], mappings', u)
        BY <1>1 DEF Entries
    <1>3. EntriesFrom(grants', members', claims'[u], mappings', u) \subseteq Entries(u)
        BY <1>1 DEF Entries
    <1> QED
        BY <1>2, <1>3 DEF Entries

\* A request that commits, refreshes or ends, in scoped mode: every account that
\* was fresh still is, or its recomputation is now due.
LEMMA ProceedsRole ==
    ASSUME AuthInv, RoleHolds, NEW a \in Users, Proceeds(a), Records,
           mode = "scoped", NEW u \in users' \ stale'
    PROVE  Fresh(u)' \/ Due(u)'
    <1> DEFINE op == req[a].op
    <1>0. /\ TypeOK /\ req[a] # Idle /\ req[a] \in Request
          /\ \A b \in Users \ {a} : req[b] = Idle
          /\ req \in [Users -> Request \cup {Idle}]
        BY ProceedsReq, RequestUpdates DEF AuthInv, TypeOK
    <1>1. /\ \A b \in Users : u \notin FromMemo(b) /\ u \notin Abandoned(b)
          /\ u \in stale => \E b \in Users : u \in Recomputed(b)
        BY DEF Records
    <1>2. u \in users
        BY DEF Proceeds, create_grant, delete_grant, edit_local_group_members,
            delete_local_group, set_role, delete, Refresh, Respond, WorkerDies, dirVars
    <1>3. Fresh(u) \/ u \in req[a].todo
        BY <1>0, <1>1, <1>2 DEF RoleHolds, Due, Recomputed
    <1>4. Checked(a) => Fresh(u) /\ a \in users
        BY <1>3 DEF RoleHolds, AuthInv, CheckedHolds
    <1>5. ASSUME NEW affected, Committed(a, affected), u \in affected
          PROVE  Due(u)'
        <2>1. req'[a] = [req[a] EXCEPT !.phase = "refresh", !.todo = affected]
            BY <1>0, <1>5 DEF Committed
        <2>2. req'[a].todo = affected /\ req'[a].phase = "refresh"
            BY <1>0, <2>1 DEF Request
        <2>3. req'[a] # Idle
            BY <2>2 DEF Idle
        <2> QED
            BY <1>5, <2>2, <2>3 DEF Due
    <1>6. ASSUME role'[u] = role[u], Entries(u)' = Entries(u), Checked(a)
          PROVE  Fresh(u)'
        BY <1>4, <1>6 DEF Fresh
    <1>7. u \in Users /\ u \notin LocalGroups
        BY <1>0, <1>2, SubjectsAssumption DEF TypeOK
    <1>8. CASE create_grant(a)
        <2>1. Checked(a) /\ UNCHANGED <<role, members, claims, mappings>>
            BY <1>8 DEF create_grant, Committing, Checked, dirVars, idpVars
        <2> DEFINE x == [subject |-> op.on, role |-> op.role,
                         scope |-> op.scope, source |-> "manual"]
        <2>2. \/ grants' = grants
              \/ grants' = grants \cup {x} /\ Committed(a, Affected(op.on))
            BY <1>8 DEF create_grant, Fails
        <2>3. CASE grants' = grants
            BY <1>6, <2>1, <2>3, EntriesStay
        <2>4. CASE grants' = grants \cup {x} /\ Committed(a, Affected(op.on))
                   /\ u \notin Affected(op.on)
            <3>1. ~AppliesTo(x, members, u)
                BY <1>0, <1>7, <2>4, SubjectsAssumption DEF AppliesTo, Affected
            <3> HIDE DEF x
            <3> QED
                BY <1>6, <2>1, <2>4, <3>1, EntriesSame
        <2> QED
            BY <1>5, <2>2, <2>3, <2>4
    <1>9. CASE delete_grant(a)
        <2>1. Checked(a) /\ UNCHANGED <<role, members, claims, mappings>>
            BY <1>9 DEF delete_grant, Committing, Checked, dirVars, idpVars
        <2>2. \/ grants' = grants
              \/ grants' = grants \ Rows(op) /\ Committed(a, Affected(op.on))
            BY <1>9 DEF delete_grant, Fails
        <2>3. CASE grants' = grants
            BY <1>6, <2>1, <2>3, EntriesStay
        <2>4. CASE grants' = grants \ Rows(op) /\ Committed(a, Affected(op.on))
                   /\ u \notin Affected(op.on)
            <3>1. \A h \in Rows(op) : ~AppliesTo(h, members, u)
                BY <1>0, <1>7, <2>4, SubjectsAssumption DEF AppliesTo, Affected, Rows
            <3> QED
                BY <1>6, <2>1, <2>4, <3>1, EntriesSame
        <2> QED
            BY <1>5, <2>2, <2>3, <2>4
    <1>10. CASE edit_local_group_members(a)
        <2> DEFINE wanted == op.set \cap users
        <2>1. /\ Checked(a) /\ UNCHANGED <<role, grants, claims, mappings>>
              /\ members' = [members EXCEPT ![op.on] = wanted]
              /\ Committed(a, wanted \cup members[op.on])
            BY <1>10 DEF edit_local_group_members, Committing, Checked, idpVars
        <2>2. CASE u \in wanted \cup members[op.on]
            BY <1>5, <2>1, <2>2
        <2>3. CASE u \notin wanted \cup members[op.on]
            <3>1. \A g \in LocalGroups : u \in members'[g] <=> u \in members[g]
                BY <1>0, <2>1, <2>3 DEF TypeOK
            <3>2. Entries(u)' = Entries(u)
                BY <2>1, <3>1, EntriesSame DEF AppliesTo
            <3> QED
                BY <1>6, <2>1, <3>2
        <2> QED
            BY <2>2, <2>3
    <1>11. CASE delete_local_group(a)
        <2>1. /\ Checked(a) /\ UNCHANGED <<role, claims, mappings>>
              /\ members' = [members EXCEPT ![op.on] = {}]
              /\ grants' = grants \ GroupGrants(op.on)
              /\ Committed(a, members[op.on])
              /\ op.kind = "disband"
            BY <1>11 DEF delete_local_group, Committing, Checked, idpVars
        <2>2. CASE u \in members[op.on]
            BY <1>5, <2>1, <2>2
        <2>3. CASE u \notin members[op.on]
            <3>0. op.on \in LocalGroups
                BY <2>1, <1>0 DEF AuthInv, ReqHolds, Sound
            <3>1. \A g \in LocalGroups : u \in members'[g] <=> u \in members[g]
                BY <1>0, <2>1, <2>3 DEF TypeOK
            <3>2. \A h \in GroupGrants(op.on) : ~AppliesTo(h, members, u)
                BY <1>7, <2>3, <3>0 DEF GroupGrants, AppliesTo
            <3>3. \A h : AppliesTo(h, members', u) <=> AppliesTo(h, members, u)
                BY <3>1 DEF AppliesTo
            <3>4. Entries(u)' = Entries(u)
                BY <2>1, <3>2, <3>3, EntriesSame
            <3> QED
                BY <1>6, <2>1, <3>4
        <2> QED
            BY <2>2, <2>3
    <1>12. CASE set_role(a)
        <2>1. Checked(a) /\ op.kind = "set_role" /\ UNCHANGED <<members, claims, mappings>>
            BY <1>12 DEF set_role, Committing, Checked, dirVars, idpVars
        <2>2. CASE op.on \notin users
            <3>1. UNCHANGED <<grants, role>>
                BY <1>12, <2>2 DEF set_role, Fails
            <3> QED
                BY <1>6, <2>1, <3>1, EntriesStay
        <2>3. CASE op.on \in users
            <3> DEFINE ladder == {g \in grants : g.subject = op.on /\ g.scope = Fleet
                                                 /\ g.role \in Ladder}
                       x == [subject |-> op.on, role |-> op.role, scope |-> Fleet,
                             source |-> "manual"]
            <3>1. /\ grants' = (grants \ ladder) \cup {x}
                  /\ role' = role /\ Committed(a, {op.on})
                BY <1>12, <2>3 DEF set_role
            <3>2. CASE u # op.on
                <4>2. \A h \in ladder : ~AppliesTo(h, members, u)
                    BY <1>0, <2>3, <3>2, SubjectsAssumption DEF AppliesTo, TypeOK
                <4>3. ~AppliesTo(x, members, u)
                    BY <1>0, <2>3, <3>2, SubjectsAssumption DEF AppliesTo, TypeOK
                <4> HIDE DEF x, ladder
                <4>4. Entries(u)' = Entries(u)
                    BY <2>1, <3>1, <4>2, <4>3, EntriesSame
                <4> QED
                    BY <1>6, <2>1, <3>1, <4>4
            <3>3. CASE u = op.on
                BY <1>5, <3>1, <3>3
            <3> QED
                BY <3>2, <3>3
        <2> QED
            BY <2>2, <2>3
    <1>13. CASE delete(a)
        <2>1. /\ Checked(a) /\ op.kind = "delete"
              /\ users' = users \ {op.on}
              /\ members' = [g \in LocalGroups |-> members[g] \ {op.on}]
              /\ claims' = [claims EXCEPT ![op.on] = {}]
              /\ grants' = {g \in grants : g.subject # op.on}
              /\ role' = [role EXCEPT ![op.on] = "none"]
              /\ UNCHANGED mappings
            BY <1>13 DEF delete, Committing, Checked, idpVars
        <2>2. op.on \in Users /\ u # op.on
            BY <1>0, <2>1 DEF AuthInv, ReqHolds, Sound
        <2>3. role'[u] = role[u] /\ claims'[u] = claims[u]
            BY <1>0, <1>7, <2>1, <2>2 DEF TypeOK
        <2>4. \A g \in LocalGroups : u \in members'[g] <=> u \in members[g]
            BY <2>1, <2>2
        <2>5. \A h : AppliesTo(h, members', u) <=> AppliesTo(h, members, u)
            BY <2>4 DEF AppliesTo
        <2>6. \A h : AppliesTo(h, members, u) => h.subject # op.on
            BY <2>2, SubjectsAssumption DEF AppliesTo
        <2>7. Entries(u)' = Entries(u)
            BY <2>1, <2>3, <2>5, <2>6, EntriesSame
        <2> QED
            BY <1>6, <2>1, <2>3, <2>7
    <1>14. CASE \E v \in Users : Refresh(a, v)
        <2>1. PICK v \in Users : Refresh(a, v)
            BY <1>14
        <2> DEFINE entries == IF v = a /\ req[a].memoised THEN req[a].memo ELSE Entries(v)
        <2>2. /\ v \in req[a].todo /\ req[a].phase = "refresh"
              /\ role' = IF v \in users THEN [role EXCEPT ![v] = CachedRole(entries)] ELSE role
              /\ req' = [req EXCEPT ![a] = [req[a] EXCEPT !.todo = req[a].todo \ {v}]]
              /\ UNCHANGED <<users, grants, members, claims, mappings>>
            BY <2>1 DEF Refresh, dirVars, idpVars
        <2>3. req'[a] = [req[a] EXCEPT !.todo = req[a].todo \ {v}]
            BY <1>0, <2>2
        <2>4. req'[a].todo = req[a].todo \ {v} /\ req'[a].phase = "refresh"
            BY <1>0, <2>2, <2>3 DEF Request
        <2>5. req'[a] # Idle /\ req'[a] # req[a]
            <3>1. req'[a] # Idle
                BY <2>4 DEF Idle
            <3>2. v \notin req'[a].todo
                BY <2>4
            <3>3. req'[a] # req[a]
                BY <2>2, <3>2, Zenon
            <3> QED
                BY <3>1, <3>3
        <2>6. Entries(u)' = Entries(u)
            BY <2>2, EntriesStay
        <2>7. CASE u # v
            <3>1. role'[u] = role[u]
                BY <1>0, <1>7, <2>2, <2>7 DEF TypeOK
            <3> QED
                BY <1>3, <2>4, <2>5, <2>6, <2>7, <3>1 DEF Fresh, Due
        <2>8. CASE u = v /\ ~(v = a /\ req[a].memoised)
            <3>1. role'[u] = CachedRole(Entries(u))
                BY <1>0, <1>2, <1>7, <2>2, <2>8 DEF TypeOK
            <3> QED
                BY <2>6, <3>1 DEF Fresh
        <2>9. CASE u = v /\ v = a /\ req[a].memoised
            <3>1. a \in FromMemo(a)
                BY <1>0, <2>2, <2>4, <2>5, <2>9 DEF FromMemo, Recomputed
            <3> QED
                BY <1>1, <2>9, <3>1
        <2> QED
            BY <2>7, <2>8, <2>9
    <1>15. CASE Respond(a) \/ WorkerDies(a)
        <2>1. req' = [req EXCEPT ![a] = Idle] /\ UNCHANGED <<role, grants, members, claims, mappings>>
            BY <1>15 DEF Respond, WorkerDies, dirVars, idpVars
        <2>2. req'[a] = Idle
            BY <1>0, <2>1
        <2>3. u \notin req[a].todo
            BY <1>0, <1>1, <2>2 DEF Abandoned
        <2>4. Entries(u)' = Entries(u)
            BY <2>1, EntriesStay
        <2> QED
            BY <1>3, <2>1, <2>3, <2>4 DEF Fresh
    <1> QED
        BY <1>8, <1>9, <1>10, <1>11, <1>12, <1>13, <1>14, <1>15 DEF Proceeds


LEMMA StepRole ==
    ASSUME AuthInv, RoleHolds, OneAtATime
    PROVE  RoleHolds'
    <1>0. /\ TypeOK /\ Records /\ setup' = setup /\ S' = S
        BY SetupStays DEF OneAtATime, Records, AuthInv
    <1>1. SUFFICES /\ \A u \in Users \ users' : claims'[u] = {}
                   /\ \A a \in Users : Checked(a)' => req'[a].todo = {}
                   /\ mode' = "scoped" =>
                         \A u \in users' \ stale' : Fresh(u)' \/ Due(u)'
        BY <1>0 DEF RoleHolds
    <1>2. \A u \in Users \ users : claims[u] = {}
        BY DEF RoleHolds
    <1>3. AllIdle => \A u \in (users \cap users') \ stale' : mode = "scoped" => Fresh(u)
        <2> SUFFICES ASSUME AllIdle, mode = "scoped", NEW u \in (users \cap users') \ stale'
                     PROVE  Fresh(u)
            OBVIOUS
        <2>1. \A b \in Users : Recomputed(b) = {}
            BY DEF Recomputed, AllIdle
        <2>2. u \notin stale
            BY <1>0, <2>1 DEF Records
        <2> QED
            BY <2>2 DEF RoleHolds, AllIdle, Due
    <1>4. CASE \E a \in Users : Proceeds(a)
        <2>1. PICK a \in Users : Proceeds(a)
            BY <1>4
        <2>2. mode' = mode
            BY <2>1 DEF Proceeds, create_grant, delete_grant, edit_local_group_members,
                delete_local_group, set_role, delete, Refresh, Respond, WorkerDies, flagVars
        <2>3. /\ \A b \in Users \ {a} : req'[b] = Idle
              /\ req'[a] = Idle \/ req'[a].phase = "refresh"
            BY <2>1, ProceedsReq DEF AuthInv
        <2>4. \A b \in Users : ~Checked(b)'
            BY <2>3 DEF Checked
        <2>5. \/ UNCHANGED <<users, claims>>
              \/ delete(a)
            BY <2>1 DEF Proceeds, create_grant, delete_grant, edit_local_group_members,
                delete_local_group, set_role, Refresh, Respond, WorkerDies, dirVars
        <2>6. \A u \in Users \ users' : claims'[u] = {}
            BY <1>0, <1>2, <2>5 DEF delete, TypeOK
        <2> QED
            BY <1>0, <2>1, <2>2, <2>4, <2>6, ProceedsRole
    <1>5. CASE AllIdle /\ \E a \in Users : Posts(a)
        <2>1. PICK a \in Users : Posts(a)
            BY <1>5
        <2>2. PICK op \in Offered : Check(a, op)
            BY <2>1 DEF Posts
        <2>3. UNCHANGED <<mode, users, members, claims, role, grants, mappings>>
            BY <2>2 DEF Check, flagVars, dirVars, idpVars
        <2>4. \A b \in Users : req'[b] # Idle => req'[b].todo = {}
            BY <1>0, <1>5, <2>2 DEF Check, AllIdle, TypeOK
        <2> QED
            BY <1>2, <1>3, <1>5, <2>3, <2>4, EntriesStay DEF Fresh, Checked
    <1>6. CASE AllIdle /\ \E a \in Users : SavesSettings(a)
        <2>1. PICK a \in Users : SavesSettings(a)
            BY <1>6
        <2>2. UNCHANGED <<users, members, claims, role, grants>>
            BY <2>1 DEF SavesSettings, create_idp_mapping, delete_idp_mapping,
                save_rbac_control, save_oidc_groups, dirVars
        <2>3. \A b \in Users : ~Checked(b)'
            BY <1>0, <1>6, <2>1, SettingsReq DEF Checked
        <2>4. ASSUME NEW affected, SettingsWrite(a, affected), NEW u \in affected
              PROVE  Due(u)'
            BY <1>0, <2>4 DEF SettingsWrite, Due, TypeOK, Idle
        <2>5. ASSUME mode' = "scoped", NEW u \in users \ stale'
              PROVE  Fresh(u)' \/ Due(u)'
            <3>1. ASSUME mode = "scoped",
                         \A n : n.group \in claims[u] => (n \in mappings' <=> n \in mappings)
                  PROVE  Fresh(u)'
                <4>1. Entries(u)' = Entries(u)
                    BY <2>2, <3>1, EntriesSame DEF AppliesTo
                <4> QED
                    BY <1>3, <1>6, <2>2, <2>5, <3>1, <4>1 DEF Fresh
            <3>2. CASE \E g \in S.idp, r \in S.groupRoles, s \in OfferedScopes :
                          create_idp_mapping(a, g, r, s)
                <4>1. PICK g, r, s : create_idp_mapping(a, g, r, s)
                    BY <3>2
                <4>2. CASE u \in Claiming(g)
                    BY <2>4, <4>1, <4>2 DEF create_idp_mapping
                <4>3. CASE u \notin Claiming(g)
                    BY <2>5, <3>1, <4>1, <4>3 DEF create_idp_mapping, Claiming, flagVars
                <4> QED
                    BY <4>2, <4>3
            <3>3. CASE \E m \in mappings : delete_idp_mapping(a, m)
                <4>1. PICK m \in mappings : delete_idp_mapping(a, m)
                    BY <3>3
                <4>2. CASE u \in Claiming(m.group)
                    BY <2>4, <4>1, <4>2 DEF delete_idp_mapping
                <4>3. CASE u \notin Claiming(m.group)
                    BY <2>5, <3>1, <4>1, <4>3 DEF delete_idp_mapping, Claiming, flagVars
                <4> QED
                    BY <4>2, <4>3
            <3>4. CASE \E m \in {"legacy", "scoped"}, f \in S.fallbacks :
                          save_rbac_control(a, m, f)
                <4>1. PICK m \in {"legacy", "scoped"}, f \in S.fallbacks :
                          save_rbac_control(a, m, f)
                    BY <3>4
                <4>2. CASE mode = "legacy"
                    <5>1. m = "scoped" /\ SettingsWrite(a, users)
                        BY <2>5, <4>1, <4>2 DEF save_rbac_control
                    <5> QED
                        BY <2>4, <5>1
                <4>3. CASE mode = "scoped"
                    BY <3>1, <4>1, <4>3 DEF save_rbac_control
                <4> QED
                    BY <1>0, <4>2, <4>3 DEF TypeOK
            <3>5. CASE \E g \in S.idp, r \in {"admin", "operator", "none"}, cleared \in BOOLEAN :
                          save_oidc_groups(a, g, r, cleared)
                BY <2>5, <3>5 DEF save_oidc_groups
            <3> QED
                BY <2>1, <3>2, <3>3, <3>4, <3>5 DEF SavesSettings
        <2> QED
            BY <1>2, <2>2, <2>3, <2>5
    <1>7. CASE AllIdle /\ SignsIn
        <2>1. PICK v \in Users, groups \in SUBSET S.idp : provision_oidc_user(v, groups)
            BY <1>7 DEF SignsIn
        <2>2. /\ users' = users \cup {v}
              /\ claims' = [claims EXCEPT ![v] = groups]
              /\ UNCHANGED <<mode, members, grants, mappings, req>>
            BY <2>1 DEF provision_oidc_user, flagVars, idpVars
        <2> DEFINE entries == EntriesFrom(grants, members, groups, mappings, v)
        <2>3. mode = "scoped" => role' = [role EXCEPT ![v] = CachedRole(entries)]
            BY <2>1 DEF provision_oidc_user
        <2>4. \A b \in Users : ~Checked(b)'
            BY <1>7, <2>2 DEF AllIdle, Checked
        <2>5. \A u \in Users \ users' : claims'[u] = {}
            BY <1>0, <1>2, <2>2 DEF TypeOK
        <2>6. ASSUME mode' = "scoped", NEW u \in users' \ stale'
              PROVE  Fresh(u)'
            <3>1. CASE u = v
                <4>1. role'[u] = CachedRole(entries)
                    BY <1>0, <2>2, <2>3, <2>6, <3>1 DEF TypeOK
                <4>2. claims'[v] = groups
                    BY <1>0, <2>2 DEF TypeOK
                <4>3. Entries(u)' = entries
                    BY <2>2, <3>1, <4>2 DEF Entries
                <4> QED
                    BY <4>1, <4>3 DEF Fresh
            <3>2. CASE u # v
                <4>1. u \in users /\ u \in Users
                    BY <1>0, <2>2, <2>6, <3>2 DEF TypeOK
                <4>2. role'[u] = role[u] /\ claims'[u] = claims[u]
                    BY <1>0, <2>2, <2>3, <2>6, <3>2, <4>1 DEF TypeOK
                <4>3. Entries(u)' = Entries(u)
                    BY <2>2, <4>2 DEF Entries
                <4> QED
                    BY <1>3, <1>7, <2>2, <2>6, <4>1, <4>2, <4>3 DEF Fresh
            <3> QED
                BY <3>1, <3>2
        <2> QED
            BY <2>4, <2>5, <2>6
    <1>8. CASE AllIdle /\ (RefreshesInventory \/ \E a \in Users : WritesNodeGroup(a))
        <2>1. UNCHANGED <<mode, users, members, claims, role, grants, mappings, req>>
            BY <1>8 DEF RefreshesInventory, InventoryChanges,
                WritesNodeGroup, NodeGroupWrite, SaveListGroup, SaveOtherMatcher,
                DeleteNodeGroup, flagVars, dirVars, idpVars
        <2> QED
            BY <1>2, <1>3, <1>8, <2>1, EntriesStay DEF Fresh, Checked, AllIdle
    <1> QED
        BY <1>4, <1>5, <1>6, <1>7, <1>8 DEF OneAtATime


-----------------------------------------------------------------------------
(* The invariant of lone requests.                                          *)

LoneInv == AuthInv /\ BackfillFollowsSettings /\ AdminHolds /\ RoleHolds

LEMMA InitLone ==
    ASSUME Init PROVE LoneInv
    <1>1. TypeOK /\ ReqHolds
        BY InitType
    <1>2. \A a \in Users : req[a] = Idle
        BY DEF Init
    <1>3. AuthInv
        BY <1>1, <1>2 DEF AuthInv, OneHolds, CheckedHolds, Checked
    <1>4. BackfillFollowsSettings
        BY <1>1, BackfilledFollow DEF Init, BackfillFollowsSettings
    <1>5. AdminHolds
        <2> SUFFICES ASSUME Guarded
                     PROVE  /\ mode = "scoped" /\ ~fallback
                            /\ mappings = {}
                            /\ \A g \in grants : g.role = "admin" => g.subject \in Users
                            /\ \E g \in grants : AdminRow(g)
            BY <1>2 DEF AdminHolds
        <2>1. mode = "scoped" /\ ~fallback
            BY DEF Init, Guarded
        <2>2. \A g \in IdpGroups : oidcRole[g] = "none"
            BY DEF Init, Guarded
        <2>3. mappings = {}
            BY <2>2 DEF Init, Wanted
        <2>4. \A g \in grants : g.role = "admin" => g.subject \in Users
            BY DEF Init, Guarded
        <2>5. \E g \in grants : g.role = "admin" /\ g.scope = Fleet
            BY DEF Init, Guarded
        <2>6. \A g \in grants : g.subject \in Users => g.subject \in users
            BY <1>1 DEF TypeOK
        <2> QED
            BY <2>1, <2>3, <2>4, <2>5, <2>6 DEF AdminRow
    <1>6. RoleHolds
        <2>1. \A u \in Users : claims[u] = {}
            BY DEF Init
        <2>2. \A u \in users \ stale : Fresh(u)
            BY <1>1 DEF Init, Fresh, TypeOK
        <2> QED
            BY <1>2, <2>1, <2>2 DEF RoleHolds, Checked
    <1> QED
        BY <1>3, <1>4, <1>5, <1>6 DEF LoneInv

LEMMA StepLone ==
    ASSUME LoneInv, OneAtATime PROVE LoneInv'
    BY StepOne, StepBackfill, StepAdmin, StepRole DEF LoneInv, AuthInv

\* A step that leaves everything but the number of writes alone.
LEMMA QuietLone ==
    ASSUME LoneInv, UNCHANGED checkVars, UNCHANGED <<req, setup, recordVars>>,
           writes' \in 0..S.writes
    PROVE  LoneInv'
    <1>1. /\ UNCHANGED <<mode, fallback, users, members, claims, role, grants>>
          /\ UNCHANGED <<mappings, oidcRole, row, nodes, snapshot, env>>
          /\ UNCHANGED <<granted, stale, settled>> /\ S' = S
        BY SetupStays DEF checkVars, flagVars, dirVars, idpVars, fleetVars, recordVars
    <1>2. TypeOK' /\ ReqHolds' /\ OneHolds'
        BY <1>1 DEF LoneInv, AuthInv, TypeOK, ReqHolds, OneHolds
    <1>3. CheckedHolds'
        <2> SUFFICES ASSUME NEW a \in Users, Checked(a)'
                     PROVE  a \in users' /\ Allowed(a, req[a].op)'
                            /\ req'[a].delegated = ~FleetAdmin(a)'
            BY DEF CheckedHolds
        <2>1. a \in users /\ Allowed(a, req[a].op) /\ req[a].delegated = ~FleetAdmin(a)
            BY DEF LoneInv, AuthInv, CheckedHolds, Checked
        <2>2. \A op : Allowed(a, op)' = Allowed(a, op) /\ FleetAdmin(a)' = FleetAdmin(a)
            BY AllowedStays
        <2> QED
            BY <1>1, <2>1, <2>2
    <1>4. BackfillFollowsSettings'
        BY <1>1 DEF LoneInv, BackfillFollowsSettings
    <1>5. AdminHolds'
        BY <1>1 DEF LoneInv, AdminHolds, Guarded, AdminRow
    <1>6. RoleHolds'
        BY <1>1, EntriesStay DEF LoneInv, RoleHolds, Fresh, Due, Checked
    <1> QED
        BY <1>2, <1>3, <1>4, <1>5, <1>6 DEF LoneInv, AuthInv

\* A redeployment changes flags and lists that have no row, between requests.
LEMMA RedeployLone ==
    ASSUME LoneInv, Redeployment
    PROVE  LoneInv' /\ users' = users /\ S' = S
    <1>0. TypeOK /\ AuthInv /\ BackfillFollowsSettings /\ RoleHolds
        BY DEF LoneInv, AuthInv
    <1>1. PICK m \in {"legacy", "scoped"}, f \in S.fallbacks,
               roles \in [IdpGroups -> {"admin", "operator", "none"}] : Redeploys(m, f, roles)
        BY DEF Redeployment
    <1>2. /\ AllIdle /\ env # {} /\ writes < S.writes /\ writes' = writes + 1
          /\ mode' = m /\ fallback' = f /\ oidcRole' = roles
          /\ UNCHANGED <<env, users, members, claims, role, grants, mappings>>
          /\ UNCHANGED <<row, nodes, snapshot, req, setup, granted>>
        BY <1>1 DEF Redeploys, dirVars, fleetVars
    <1>3. stale' = IF m = "scoped" /\ mode = "legacy" THEN users ELSE stale
        BY <1>1 DEF Redeploys
    <1>4. /\ settled' \in BOOLEAN /\ (settled' => settled)
          /\ settled' /\ m = "scoped" => mode = "scoped" /\ roles = oidcRole
        BY <1>1, Zenon DEF Redeploys
    <1>5. S' = S
        BY <1>2, SetupStays
    <1>6. TypeOK'
        <2>1. writes' \in 0..S.writes /\ f \in BOOLEAN
            BY <1>0, <1>2, SituationIs DEF TypeOK
        <2>2. stale' \subseteq Users
            BY <1>0, <1>3 DEF TypeOK
        <2> QED
            BY <1>0, <1>2, <1>4, <1>5, <2>1, <2>2 DEF TypeOK
    <1>7. AuthInv'
        BY <1>2, <1>6 DEF AuthInv, ReqHolds, OneHolds, CheckedHolds, Checked, AllIdle
    <1>8. BackfillFollowsSettings'
        BY <1>0, <1>2, <1>4 DEF BackfillFollowsSettings
    <1>9. AdminHolds'
        <2>1. ~Guarded
            BY <1>0, <1>2 DEF Guarded, TypeOK
        <2>2. ~Guarded'
            BY <1>5, <2>1 DEF Guarded
        <2> QED
            BY <2>2 DEF AdminHolds
    <1>10. RoleHolds'
        <2>1. \A u : Entries(u)' = Entries(u)
            BY <1>2, EntriesStay
        <2>2. ASSUME mode' = "scoped", NEW u \in users' \ stale' PROVE Fresh(u)'
            <3>1. mode = "scoped" /\ stale' = stale
                BY <1>0, <1>2, <1>3, <2>2 DEF TypeOK
            <3>2. Fresh(u)
                BY <1>0, <1>2, <2>2, <3>1 DEF RoleHolds, AllIdle, Due
            <3> QED
                BY <1>2, <2>1, <3>2 DEF Fresh
        <2>3. \A b \in Users : ~Checked(b)'
            BY <1>2 DEF AllIdle, Checked
        <2>4. \A u \in Users \ users' : claims'[u] = {}
            BY <1>0, <1>2 DEF RoleHolds
        <2> QED
            BY <2>2, <2>3, <2>4 DEF RoleHolds
    <1> QED
        BY <1>2, <1>5, <1>7, <1>8, <1>9, <1>10 DEF LoneInv

\* The invariant gives the properties.
LEMMA LoneInvIsEnough ==
    ASSUME LoneInv
    PROVE  TypeOK /\ AdminRemains /\ RoleFollowsGrants /\ BackfillFollowsSettings
    <1>1. TypeOK /\ BackfillFollowsSettings /\ AdminRemains
        BY AdminHoldsIsEnough DEF LoneInv, AuthInv
    <1>2. RoleFollowsGrants
        BY DEF LoneInv, RoleHolds, RoleFollowsGrants, AllIdle, Due, Fresh
    <1> QED
        BY <1>1, <1>2

=============================================================================
