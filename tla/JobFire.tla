------------------------------ MODULE JobFire -------------------------------
(***************************************************************************)
(* What a fired job may reach, on top of Authz: the Run job page and the   *)
(* saved jobs (jobs.py), the kill button, service accounts and their       *)
(* tokens (users.py), and POST /api/jobs/run (api.py), which all end in    *)
(* launch() or in a publish of their own.                                  *)
(*                                                                         *)
(* A request checks its caller, then narrows the target to the caller's    *)
(* scope, then publishes; grants, groups, accounts, the inventory and      *)
(* rbac_mode change between these steps.  A page reads the grants once, at *)
(* its check; a token's request reads them when it narrows the target.     *)
(* That a publish reaches every master pod is in WaveBatch and JobSync.    *)
(***************************************************************************)
EXTENDS Authz

CONSTANTS
    Tokens,     \* rows of api_tokens
    SavedIds,   \* rows of saved_jobs
    None        \* no token, no saved job

\* The job.run classes read and change, job.kill and job.save go with job.run in
\* every role of ROLE_PERMS.  A target: the ids that Salt would match, whether
\* in the inventory or not; a group target names a node group.
Target == [kind: {"star", "glob", "list", "grain", "compound"}, ids: SUBSET Minions]
          \cup [kind: {"group"}, ids: SUBSET NodeGroups]
Job == [fun: {"read", "change"}, tgt: Target]

\* A situation also has: the service accounts, the saved jobs, the tokens and the
\* targets of the jobs that run at the start, the jobs that requests ask for, and
\* the bound on requests.
ASSUME FireSetupsAssumption ==
    \A n \in DOMAIN Setups : LET s == Setups[n] IN
        /\ s.service \subseteq Users
        /\ s.saved \in [SavedIds -> Job \cup {None}]
        /\ s.pins \in [Tokens -> SavedIds \cup {None}]
        /\ \A t \in Tokens : s.pins[t] # None =>
              s.saved[s.pins[t]] # None /\ s.service \cap s.users # {}
        /\ s.running \subseteq Target /\ s.asks \subseteq Job
        /\ s.fires \in Nat
ASSUME NoneAssumption == None \notin Tokens \cup SavedIds \cup Job

VARIABLES
    saved,  \* saved[j]: the saved job, or None
    token,  \* token[t]: its owner, pin and whether it is live, or None
    fire,   \* the request under way, or None
    rows,   \* stored targets of the jobs that run
    fires,  \* requests so far
    minted  \* history: minted[t], the job that t was pinned to, or None

fireVars == <<saved, token, fire, rows, fires, minted>>

\* A request: the caller, the token, the job it asks for and what it publishes,
\* the name to save it under, the grants it has read; and, for the property, the
\* job its token was pinned to when it was minted, the entries the caller had at
\* some point of the request, the minions these covered at some point, whether
\* one gave the fleet, and whether rbac_mode was legacy at some point.
Fire == [by: Users, via: Tokens \cup {None}, what: {"run", "kill"}, job: Job,
         tgt: Target, save: SavedIds \cup {None}, memo: SUBSET Entry,
         memoised: BOOLEAN, phase: {"narrow", "publish"},
         mint: Job \cup {None}, had: SUBSET Entry, held: SUBSET Minions,
         fleet: BOOLEAN, legacy: BOOLEAN]
Token == [owner: Users, pin: SavedIds \cup {None}, live: BOOLEAN]

FireTypeOK ==
    /\ TypeOK
    /\ saved \in [SavedIds -> Job \cup {None}]
    /\ token \in [Tokens -> Token \cup {None}]
    /\ minted \in [Tokens -> Job \cup {None}]
    /\ \A t \in Tokens : token[t] # None =>
          /\ token[t].owner \in S.service \cap users
          /\ token[t].pin # None => saved[token[t].pin] # None
    /\ fire \in Fire \cup {None}
    /\ rows \subseteq Target
    /\ fires \in 0..S.fires

-----------------------------------------------------------------------------
(* The target (authz.py).                                                   *)

\* The snapshot ids that a target names, with the empty-on-miss rule of groups.
published_snapshot_ids(tgt) ==
    IF tgt.kind = "group"
    THEN (UNION {nodes[n] : n \in {k \in tgt.ids : row[k] = "live"}}) \cap snapshot
    ELSE tgt.ids \cap snapshot

ListOf(ids) == [kind |-> "list", ids |-> ids]

\* What the request knows of its caller: the grants it has read, or the rows.
Known(x) == EffectiveFrom(IF x.memoised THEN x.memo ELSE Entries(x.by), x.by)

\* Mutant: the requested ids are published once one of them is in scope.
OverlapIsEnough(entries, tgt) ==
    LET requested == published_snapshot_ids(tgt) IN
    IF FleetAmong(entries, "job.run") THEN {tgt}
    ELSE IF tgt.kind # "compound" /\ requested \cap MinionsAmong(entries, "job.run") # {}
    THEN {ListOf(requested)} ELSE {}

\* constrain_target_verbose: the target to publish; none when it is denied.
constrain_target(entries, tgt) ==
    LET hit == published_snapshot_ids(tgt) \cap MinionsAmong(entries, "job.run") IN
    IF FleetAmong(entries, "job.run") THEN {tgt}
    ELSE IF tgt.kind # "compound" /\ hit # {} THEN {ListOf(hit)} ELSE {}

\* constrain_kill: a stored target inside the caller's scope, or none.
constrain_kill(entries, tgt) ==
    LET resolved == published_snapshot_ids(tgt) IN
    IF FleetAmong(entries, "job.run") THEN {tgt}
    ELSE IF /\ tgt.kind \notin {"compound", "grain", "star"}
            /\ resolved # {} /\ resolved \subseteq MinionsAmong(entries, "job.run")
    THEN {ListOf(resolved)} ELSE {}

\* The minions that get the publish.  launch resolves a group first.
Delivery(tgt) == IF tgt.kind = "group" THEN published_snapshot_ids(tgt) ELSE tgt.ids

-----------------------------------------------------------------------------
(* Requests that fire.                                                      *)

\* The operator floor of roles_required.
OperatorFloor(u) ==
    IF mode = "legacy" THEN role[u] \in {"operator", "admin"}
    ELSE authorize(u, "job.run") \/ authorize(u, "group.write")

Starts(u, t, what, job, tgt, save, memoised, phase) ==
    /\ fire = None /\ fires < S.fires
    /\ fire' = [by |-> u, via |-> t, what |-> what, job |-> job, tgt |-> tgt,
                save |-> save, memo |-> IF memoised THEN Entries(u) ELSE {},
                memoised |-> memoised, phase |-> phase,
                mint |-> IF t = None THEN None ELSE minted[t],
                had |-> Effective(u), held |-> perm_scope_minions(u, "job.run"),
                fleet |-> has_fleet(u, "job.run"), legacy |-> mode = "legacy"]
    /\ fires' = fires + 1
    /\ UNCHANGED <<vars, saved, token, rows, minted>>

\* run: the page's checks, with the preview's and the save's.
run(u, job, save) ==
    LET entries == Effective(u)
        hit == constrain_target(entries, job.tgt)
    IN  /\ u \in users \ S.service
        /\ OperatorFloor(u)
        /\ mode = "scoped" =>
              /\ authorize(u, "job.run")
              /\ hit # {}
              /\ save # None =>
                    \/ FleetAmong(entries, "job.run")
                    \/ \A tgt \in hit : tgt.ids \subseteq minions_with(u, "job.run")
        /\ Starts(u, None, "run", job, job.tgt, save, mode = "scoped", "narrow")

\* kill: the stored target of a job that runs.
kill(u, stored) ==
    /\ u \in users \ S.service
    /\ OperatorFloor(u)
    /\ \E tgt \in IF mode = "scoped" THEN constrain_kill(Effective(u), stored)
                  ELSE {stored} :
          Starts(u, None, "kill", [fun |-> "change", tgt |-> stored], tgt, None,
                 mode = "scoped", "publish")

\* _authenticate, once run_job has seen scoped mode.
authenticate(t) == mode = "scoped" /\ token[t] # None /\ token[t].live

\* _pinned_fire: the stored function and target.
pinned_fire(t, j) ==
    /\ authenticate(t)
    /\ saved[j] # None /\ token[t].pin = j
    /\ Starts(token[t].owner, t, "run", saved[j], saved[j].tgt, None, FALSE, "narrow")

\* _unpinned_fire: a free-form body, the read class only.
unpinned_fire(t, job) ==
    /\ authenticate(t)
    /\ token[t].pin = None
    /\ job.fun = "read" /\ job.tgt.kind \in {"star", "glob", "list", "group"}
    /\ Starts(token[t].owner, t, "run", job, job.tgt, None, FALSE, "narrow")

\* launch: the caller's scope, in scoped mode; a denied request ends.
launch ==
    /\ fire # None /\ fire.phase = "narrow"
    /\ LET tgts == IF mode = "scoped" THEN constrain_target(Known(fire), fire.tgt)
                   ELSE {fire.tgt}
       IN  fire' = IF tgts = {} THEN None
                   ELSE [fire EXCEPT !.phase = "publish",
                                     !.tgt = CHOOSE tgt \in tgts : TRUE]
    /\ UNCHANGED <<vars, saved, token, rows, fires, minted>>

\* The job row has what Salt received, the saved job what was typed; a taken name
\* drops the save.
JobRow(x) == IF x.tgt.kind = "group" THEN ListOf(Delivery(x.tgt)) ELSE x.tgt

Saved(x) ==
    IF x.save # None /\ saved[x.save] = None THEN [saved EXCEPT ![x.save] = x.job]
    ELSE saved

\* The publish.  A group that names no known minion ends the request.
publish ==
    /\ fire # None /\ fire.phase = "publish"
    /\ fire' = None
    /\ IF fire.tgt.kind = "group" /\ Delivery(fire.tgt) = {} THEN UNCHANGED <<rows, saved>>
       ELSE rows' = rows \cup {JobRow(fire)} /\ saved' = Saved(fire)
    /\ UNCHANGED <<vars, token, fires, minted>>

\* The worker ends in the middle of a request, or no pod takes the publish.
FireDies ==
    /\ fire # None
    /\ fire' = None
    /\ UNCHANGED <<vars, saved, token, rows, fires, minted>>

-----------------------------------------------------------------------------
(* Saved jobs, service accounts and tokens.                                 *)

AdminWrite(a) ==
    /\ AllIdle /\ Begin(a) /\ FleetAdmin(a)
    /\ writes' = writes + 1

\* delete_saved: inside the caller's scope, and no token has it pinned.
delete_saved(a, j) ==
    LET ids == published_snapshot_ids(saved[j].tgt) IN
    /\ AllIdle /\ Begin(a) /\ OperatorFloor(a)
    /\ saved[j] # None
    /\ mode = "scoped" =>
          \/ has_fleet(a, "job.run")
          \/ /\ authorize(a, "job.run")
             /\ saved[j].tgt.kind # "compound"
             /\ ids \subseteq minions_with(a, "job.run")
    /\ \A t \in Tokens : token[t] # None => token[t].pin # j
    /\ saved' = [saved EXCEPT ![j] = None]
    /\ writes' = writes + 1
    /\ UNCHANGED <<flagVars, dirVars, role, grants, idpVars, fleetVars, req, setup,
                   recordVars, token, fire, rows, fires, minted>>

create_service_account(a, u) ==
    /\ AdminWrite(a)
    /\ u \in S.service \ users
    /\ users' = users \cup {u}
    /\ role' = [role EXCEPT ![u] = "none"]
    /\ UNCHANGED <<flagVars, members, claims, grants, idpVars, fleetVars, req, setup,
                   recordVars, fireVars>>

create_token(a, t, u, pin) ==
    /\ AdminWrite(a)
    /\ token[t] = None
    /\ u \in S.service \cap users
    /\ pin # None => saved[pin] # None
    /\ token' = [token EXCEPT ![t] = [owner |-> u, pin |-> pin, live |-> TRUE]]
    /\ minted' = [minted EXCEPT ![t] = IF pin = None THEN None ELSE saved[pin]]
    /\ UNCHANGED <<flagVars, dirVars, role, grants, idpVars, fleetVars, req, setup,
                   recordVars, saved, fire, rows, fires>>

revoke_token(a, t) ==
    /\ AdminWrite(a)
    /\ token[t] # None /\ token[t].live
    /\ token' = [token EXCEPT ![t].live = FALSE]
    /\ UNCHANGED <<flagVars, dirVars, role, grants, idpVars, fleetVars, req, setup,
                   recordVars, saved, fire, rows, fires, minted>>

\* expires_at passes.
TokenExpires(t) ==
    /\ token[t] # None /\ token[t].live
    /\ token' = [token EXCEPT ![t].live = FALSE]
    /\ UNCHANGED <<vars, saved, fire, rows, fires, minted>>

-----------------------------------------------------------------------------
FireInit ==
    /\ Init
    /\ saved = S.saved
    /\ token = [t \in Tokens |->
          IF S.pins[t] = None THEN None
          ELSE [owner |-> CHOOSE u \in S.service \cap S.users : TRUE, pin |-> S.pins[t],
                live |-> TRUE]]
    /\ minted = [t \in Tokens |-> IF S.pins[t] = None THEN None ELSE S.saved[S.pins[t]]]
    /\ fire = None /\ rows = S.running /\ fires = 0

\* A step of Authz beside the request under way.  The tokens of an account go
\* with it (ON DELETE CASCADE).
Directory ==
    /\ OneAtATime
    /\ token' = [t \in Tokens |->
          IF token[t] # None /\ token[t].owner \notin users' THEN None ELSE token[t]]
    /\ \/ fire = None /\ UNCHANGED fire
       \/ /\ fire # None
          /\ \E u \in {fire.by} : \E had \in {fire.had \cup Effective(u)'} :
                fire' = [fire EXCEPT !.had = had,
                                     !.held = @ \cup MinionsAmong(had, "job.run")',
                                     !.fleet = @ \/ FleetAmong(had, "job.run"),
                                     !.legacy = @ \/ mode' = "legacy"]
    /\ UNCHANGED <<saved, rows, fires, minted>>

Firing ==
    \/ \E u \in users, job \in S.asks, j \in SavedIds \cup {None} : run(u, job, j)
    \/ \E u \in users, stored \in rows : kill(u, stored)
    \/ \E t \in Tokens :
          \/ \E j \in SavedIds : pinned_fire(t, j)
          \/ \E job \in S.asks : unpinned_fire(t, job)
    \/ launch \/ publish \/ FireDies

Managing ==
    \/ \E t \in Tokens : TokenExpires(t)
    \/ \E a \in users :
          \/ \E j \in SavedIds : delete_saved(a, j)
          \/ \E u \in Users : create_service_account(a, u)
          \/ \E t \in Tokens :
                \/ \E u \in Users, pin \in SavedIds \cup {None} : create_token(a, t, u, pin)
                \/ revoke_token(a, t)

\* The requests under way end with the workers (FireDies) before it.
RestartsAll == Redeployment /\ fire = None /\ UNCHANGED fireVars

FireNext == Directory \/ RestartsAll \/ (S.fires > 0 /\ (Firing \/ Managing))

FireSpec == FireInit /\ [][FireNext]_<<vars, fireVars>>

-----------------------------------------------------------------------------
(* Properties.                                                              *)

\* "The target is intersected with the caller's scope before any publish"
\* (launch), and "a pinned token runs only its saved job" (run_job): while
\* rbac_mode is scoped, a publish, a kill's included, goes only to minions that
\* some grant the caller had during the request covered at some point of it,
\* unless one gave the fleet; a token's is of the job that was saved when the
\* token was pinned to it, whatever was saved and deleted since, and without a
\* pin of a function that only reads.
FiresStayAuthorised ==
    fire # None /\ fire.phase = "publish" =>
        /\ ~fire.legacy /\ ~fire.fleet => Delivery(fire.tgt) \subseteq fire.held
        /\ fire.via # None =>
              IF fire.mint = None THEN fire.job.fun = "read" ELSE fire.job = fire.mint
=============================================================================
