--------------------------- MODULE JobFireProofs ----------------------------
(***************************************************************************)
(* Proofs about JobFire: what a fired job may reach, beside everything     *)
(* that AuthzProofs shows of the requests that change accounts and grants. *)
(***************************************************************************)
EXTENDS JobFire, AuthzProofs

LEMMA FireSituationIs ==
    ASSUME setup \in DOMAIN Setups
    PROVE  /\ S.service \subseteq Users
           /\ S.saved \in [SavedIds -> Job \cup {None}]
           /\ S.pins \in [Tokens -> SavedIds \cup {None}]
           /\ \A t \in Tokens : S.pins[t] # None =>
                 S.saved[S.pins[t]] # None /\ S.service \cap S.users # {}
           /\ S.running \subseteq Target /\ S.asks \subseteq Job
           /\ S.fires \in Nat
    BY FireSetupsAssumption DEF S

-----------------------------------------------------------------------------
(* The operators.                                                           *)

LEMMA MinionsInSnapshot ==
    ASSUME NEW entries, NEW p PROVE MinionsAmong(entries, p) \subseteq snapshot
    <1>1. ASSUME NEW s PROVE Resolve(s) \subseteq snapshot
        <2>1. CASE s.kind = "match"
            BY <2>1 DEF Resolve
        <2>2. CASE s.kind = "group"
            BY <2>2 DEF Resolve
        <2>3. CASE s.kind # "match" /\ s.kind # "group"
            BY <2>3 DEF Resolve
        <2> QED
            BY <2>1, <2>2, <2>3
    <1> QED
        BY <1>1, MinionsAre

LEMMA MinionsMonotone ==
    ASSUME NEW more, NEW entries, entries \subseteq more, NEW p
    PROVE  /\ MinionsAmong(entries, p) \subseteq MinionsAmong(more, p)
           /\ FleetAmong(entries, p) => FleetAmong(more, p)
    BY MinionsAre DEF FleetAmong

LEMMA EffectiveFromType ==
    ASSUME NEW entries, entries \subseteq Entry, NEW u
    PROVE  EffectiveFrom(entries, u) \subseteq Entry
    <1>1. Fleet \in Scopes
        BY DEF Scopes
    <1>2. CASE entries = {} /\ fallback /\ role[u] \in Ladder
        <2>1. role[u] \in Roles
            BY <1>2, RolesAre
        <2>2. [role |-> role[u], scope |-> Fleet] \in Entry
            BY <1>1, <2>1 DEF Entry
        <2>3. EffectiveFrom(entries, u) = {[role |-> role[u], scope |-> Fleet]}
            BY <1>2 DEF EffectiveFrom
        <2> QED
            BY <2>2, <2>3
    <1>3. CASE ~(entries = {} /\ fallback /\ role[u] \in Ladder)
        BY <1>3 DEF EffectiveFrom
    <1> QED
        BY <1>2, <1>3

LEMMA EffectiveType ==
    ASSUME TypeOK, NEW u PROVE Effective(u) \subseteq Entry
    BY EntriesType, EffectiveFromType DEF Effective

LEMMA PublishedType ==
    ASSUME TypeOK, NEW tgt PROVE published_snapshot_ids(tgt) \subseteq Minions
    <1>1. snapshot \subseteq Minions
        BY DEF TypeOK
    <1>2. CASE tgt.kind = "group"
        BY <1>1, <1>2 DEF published_snapshot_ids
    <1>3. CASE tgt.kind # "group"
        BY <1>1, <1>3 DEF published_snapshot_ids
    <1> QED
        BY <1>2, <1>3

LEMMA ListType ==
    ASSUME NEW ids, ids \subseteq Minions PROVE ListOf(ids) \in Target
    BY DEF ListOf, Target

LEMMA TargetFields ==
    ASSUME NEW ids PROVE ListOf(ids).kind = "list" /\ ListOf(ids).ids = ids
    BY DEF ListOf

\* A narrowed target is the caller's fleet-wide one, or a list of ids in scope.
LEMMA ConstrainIs ==
    ASSUME NEW entries, NEW tgt,
           NEW x \in constrain_target(entries, tgt) \cup constrain_kill(entries, tgt)
    PROVE  \/ FleetAmong(entries, "job.run") /\ x = tgt
           \/ \E ids : /\ x = ListOf(ids)
                       /\ ids \subseteq published_snapshot_ids(tgt)
                       /\ ids \subseteq MinionsAmong(entries, "job.run")
    BY DEF constrain_target, constrain_kill

LEMMA ConstrainType ==
    ASSUME TypeOK, NEW entries, NEW tgt \in Target,
           NEW x \in constrain_target(entries, tgt) \cup constrain_kill(entries, tgt)
    PROVE  x \in Target
    BY ConstrainIs, PublishedType, ListType

-----------------------------------------------------------------------------
(* The invariant.                                                           *)

\* A live token stands for the job that was saved when it was minted.
PinHolds ==
    \A t \in Tokens : token[t] # None =>
        minted[t] = IF token[t].pin = None THEN None ELSE saved[token[t].pin]

\* A request under way: rbac_mode, the grants and the minions of its caller are
\* among those that it has met; what it has read is what it has met; a request
\* that read no grant lived on the fallback, which gives the fleet.
Met(x) ==
    /\ ~x.legacy => mode = "scoped"
    /\ Effective(x.by) \subseteq x.had
    /\ FleetAmong(x.had, "job.run") => x.fleet
    /\ MinionsAmong(x.had, "job.run") \subseteq x.held

Read(x) ==
    x.memoised => x.memo \subseteq x.had /\ (x.memo = {} /\ x.phase = "narrow" => x.fleet)

Narrowed(x) ==
    /\ x.phase = "publish" /\ ~x.legacy /\ ~x.fleet =>
          x.tgt.kind = "list" /\ x.tgt.ids \subseteq x.held
    /\ x.via # None => IF x.mint = None THEN x.job.fun = "read" ELSE x.job = x.mint

FireHolds == fire # None => Met(fire) /\ Read(fire) /\ Narrowed(fire)

FireInv == FireTypeOK /\ LoneInv /\ PinHolds /\ FireHolds

LEMMA FireHoldsIsEnough ==
    ASSUME FireInv PROVE FiresStayAuthorised
    BY DEF FireInv, FireHolds, Narrowed, FiresStayAuthorised, Delivery


-----------------------------------------------------------------------------
(* Requests that fire.                                                      *)

LEMMA VarsStay ==
    ASSUME UNCHANGED vars
    PROVE  /\ UNCHANGED checkVars /\ UNCHANGED <<req, setup, recordVars, writes>>
           /\ S' = S
           /\ LoneInv => LoneInv'
           /\ TypeOK => TypeOK'
           /\ \A u : Effective(u)' = Effective(u)
           /\ \A entries, p : MinionsAmong(entries, p)' = MinionsAmong(entries, p)
           /\ users' = users /\ mode' = mode
    <1>1. /\ UNCHANGED checkVars /\ UNCHANGED <<req, setup, recordVars, writes>>
          /\ S' = S
        BY SetupStays DEF vars, checkVars
    <1>2. LoneInv => LoneInv'
        BY <1>1, QuietLone DEF LoneInv, AuthInv, TypeOK
    <1>3. /\ UNCHANGED <<mode, fallback, users, members, claims, role, grants>>
          /\ UNCHANGED <<mappings, oidcRole, row, nodes, snapshot, env>>
          /\ UNCHANGED <<granted, stale, settled>>
        BY <1>1 DEF checkVars, flagVars, dirVars, idpVars, fleetVars, recordVars
    <1>4. TypeOK => TypeOK'
        BY <1>1, <1>3 DEF TypeOK
    <1>5. /\ \A u : Effective(u)' = Effective(u)
          /\ \A entries, p : MinionsAmong(entries, p)' = MinionsAmong(entries, p)
        BY <1>1, <1>3, EffectiveStays, ResolveStays DEF checkVars
    <1> QED
        BY <1>1, <1>2, <1>3, <1>4, <1>5

\* The request that starts.
Started(u, t, what, job, tgt, save, memoised, phase) ==
    [by |-> u, via |-> t, what |-> what, job |-> job, tgt |-> tgt,
     save |-> save, memo |-> IF memoised THEN Entries(u) ELSE {},
     memoised |-> memoised, phase |-> phase,
     mint |-> IF t = None THEN None ELSE minted[t],
     had |-> Effective(u), held |-> perm_scope_minions(u, "job.run"),
     fleet |-> has_fleet(u, "job.run"), legacy |-> mode = "legacy"]

LEMMA StartedFields ==
    ASSUME NEW u, NEW t, NEW what, NEW job, NEW tgt, NEW save, NEW memoised, NEW phase,
           NEW x, x = Started(u, t, what, job, tgt, save, memoised, phase)
    PROVE  /\ x.by = u /\ x.via = t /\ x.job = job /\ x.tgt = tgt /\ x.phase = phase
           /\ x.memoised = memoised /\ x.memo = IF memoised THEN Entries(u) ELSE {}
           /\ x.mint = IF t = None THEN None ELSE minted[t]
           /\ x.had = Effective(u) /\ x.held = perm_scope_minions(u, "job.run")
           /\ x.fleet = has_fleet(u, "job.run") /\ x.legacy = (mode = "legacy")
    BY DEF Started

\* Whatever starts has the types, and has met what its caller has.
LEMMA StartKeeps ==
    ASSUME FireInv, NEW u \in Users, NEW t \in Tokens \cup {None}, NEW what \in {"run", "kill"},
           NEW job \in Job, NEW tgt \in Target, NEW save \in SavedIds \cup {None},
           NEW memoised \in BOOLEAN, NEW phase \in {"narrow", "publish"},
           Starts(u, t, what, job, tgt, save, memoised, phase),
           memoised /\ Entries(u) = {} /\ phase = "narrow" => has_fleet(u, "job.run"),
           \A x : x = Started(u, t, what, job, tgt, save, memoised, phase) => Narrowed(x)
    PROVE  FireInv'
    <1> DEFINE x == Started(u, t, what, job, tgt, save, memoised, phase)
    <1>0. FireTypeOK /\ TypeOK /\ LoneInv
        BY DEF FireInv, FireTypeOK
    <1>1. /\ fire' = x /\ fires < S.fires /\ fires' = fires + 1
          /\ UNCHANGED vars /\ UNCHANGED <<saved, token, rows, minted>>
        BY DEF Starts, Started
    <1>2. x \in Fire
        <2>1. Entries(u) \subseteq Entry /\ Effective(u) \subseteq Entry
            BY <1>0, EntriesType, EffectiveType
        <2>2. perm_scope_minions(u, "job.run") \subseteq Minions
            BY <1>0, MinionsInSnapshot DEF perm_scope_minions, TypeOK
        <2>3. t # None => minted[t] \in Job \cup {None}
            BY <1>0 DEF FireTypeOK
        <2>4. has_fleet(u, "job.run") \in BOOLEAN
            BY DEF has_fleet, FleetAmong
        <2> HIDE DEF FireInv
        <2> QED
            BY <2>1, <2>2, <2>3, <2>4 DEF Started, Fire
    <1>3. Met(x) /\ Read(x) /\ Narrowed(x)
        <2>1. /\ x.by = u /\ x.phase = phase /\ x.memoised = memoised
              /\ x.memo = IF memoised THEN Entries(u) ELSE {}
              /\ x.had = Effective(u) /\ x.held = perm_scope_minions(u, "job.run")
              /\ x.fleet = has_fleet(u, "job.run") /\ x.legacy = (mode = "legacy")
            BY StartedFields
        <2>2. Narrowed(x)
            OBVIOUS
        <2> HIDE DEF x
        <2>3. mode \in {"legacy", "scoped"}
            BY <1>0 DEF TypeOK
        <2>4. Met(x)
            BY <2>1, <2>3 DEF Met, has_fleet, perm_scope_minions
        <2>5. Entries(u) \subseteq Effective(u)
            BY DEF Effective, EffectiveFrom
        <2>6. Read(x)
            BY <2>1, <2>5 DEF Read
        <2> QED
            BY <2>2, <2>4, <2>6
    <1> HIDE DEF x
    <1>4. LoneInv' /\ TypeOK' /\ S' = S /\ users' = users
        BY <1>0, <1>1, VarsStay
    <1>5. FireTypeOK'
        <2>1. fires' \in 0..S.fires
            BY <1>0, <1>1, FireSituationIs DEF FireTypeOK, TypeOK
        <2> QED
            BY <1>0, <1>1, <1>2, <1>4, <2>1 DEF FireTypeOK
    <1>6. FireHolds'
        <2>1. Met(fire)'
            BY <1>1, <1>3, VarsStay DEF Met
        <2>2. Read(fire)' /\ Narrowed(fire)'
            BY <1>1, <1>3 DEF Read, Narrowed
        <2> QED
            BY <2>1, <2>2 DEF FireHolds
    <1>7. PinHolds'
        BY <1>1 DEF FireInv, PinHolds
    <1> QED
        BY <1>4, <1>5, <1>6, <1>7 DEF FireInv


\* A caller without grants who may run jobs in scoped mode has the fleet.
LEMMA FallbackIsFleet ==
    ASSUME NEW u, Entries(u) = {}, authorize(u, "job.run")
    PROVE  has_fleet(u, "job.run")
    <1>1. PICK e \in Effective(u) : Carries(e, "job.run")
        BY DEF authorize, GrantedAmong
    <1>2. e.scope = Fleet
        BY <1>1 DEF Effective, EffectiveFrom
    <1> QED
        BY <1>1, <1>2 DEF has_fleet, FleetAmong, Carries

LEMMA RunKeeps ==
    ASSUME FireInv, NEW u \in users, NEW job \in S.asks, NEW j \in SavedIds \cup {None},
           run(u, job, j)
    PROVE  FireInv'
    <1>0. TypeOK /\ u \in Users
        BY DEF FireInv, FireTypeOK, TypeOK
    <1>1. job \in Job
        BY <1>0, FireSituationIs DEF TypeOK
    <1>2. job.tgt \in Target
        BY <1>1 DEF Job
    <1>3. Starts(u, None, "run", job, job.tgt, j, mode = "scoped", "narrow")
          /\ (mode = "scoped" => authorize(u, "job.run"))
        BY DEF run
    <1>4. mode = "scoped" /\ Entries(u) = {} => has_fleet(u, "job.run")
        BY <1>3, FallbackIsFleet
    <1>5. ASSUME NEW x, x = Started(u, None, "run", job, job.tgt, j, mode = "scoped", "narrow")
          PROVE  Narrowed(x)
        BY <1>5, StartedFields DEF Narrowed
    <1>6. (mode = "scoped") \in BOOLEAN
        OBVIOUS
    <1> QED
        BY <1>0, <1>1, <1>2, <1>3, <1>4, <1>5, <1>6, StartKeeps

LEMMA KillKeeps ==
    ASSUME FireInv, NEW u \in users, NEW stored \in rows, kill(u, stored)
    PROVE  FireInv'
    <1>0. TypeOK /\ u \in Users /\ stored \in Target
        BY DEF FireInv, FireTypeOK, TypeOK
    <1> DEFINE job == [fun |-> "change", tgt |-> stored]
    <1>1. job \in Job
        BY <1>0 DEF Job
    <1>2. PICK tgt \in IF mode = "scoped" THEN constrain_kill(Effective(u), stored)
                       ELSE {stored} :
             Starts(u, None, "kill", job, tgt, None, mode = "scoped", "publish")
        BY DEF kill
    <1>3. tgt \in Target
        BY <1>0, <1>2, ConstrainType
    <1> HIDE DEF job
    <1>4. ASSUME NEW x, x = Started(u, None, "kill", job, tgt, None, mode = "scoped", "publish")
          PROVE  Narrowed(x)
        <2>1. /\ x.via = None /\ x.tgt = tgt
              /\ x.held = perm_scope_minions(u, "job.run")
              /\ x.fleet = has_fleet(u, "job.run") /\ x.legacy = (mode = "legacy")
            BY <1>4, StartedFields
        <2>2. ASSUME mode # "legacy", ~has_fleet(u, "job.run")
              PROVE  tgt.kind = "list" /\ tgt.ids \subseteq perm_scope_minions(u, "job.run")
            <3>1. mode = "scoped"
                BY <1>0, <2>2 DEF TypeOK
            <3>2. tgt \in constrain_kill(Effective(u), stored)
                BY <1>2, <3>1
            <3>3. PICK ids : tgt = ListOf(ids) /\ ids \subseteq MinionsAmong(Effective(u), "job.run")
                BY <2>2, <3>2, ConstrainIs DEF has_fleet
            <3> QED
                BY <3>3, TargetFields DEF perm_scope_minions
        <2> QED
            BY <2>1, <2>2 DEF Narrowed
    <1>5. (mode = "scoped") \in BOOLEAN
        OBVIOUS
    <1> QED
        BY <1>0, <1>1, <1>2, <1>3, <1>4, <1>5, StartKeeps

\* A token's request: the saved job it was minted for, or one that only reads.
LEMMA TokenKeeps ==
    ASSUME FireInv, NEW t \in Tokens, NEW job \in Job,
           authenticate(t),
           \/ token[t].pin # None /\ job = saved[token[t].pin]
           \/ token[t].pin = None /\ job.fun = "read",
           Starts(token[t].owner, t, "run", job, job.tgt, None, FALSE, "narrow")
    PROVE  FireInv'
    <1>0. FireTypeOK /\ TypeOK /\ PinHolds /\ job.tgt \in Target
        BY DEF FireInv, FireTypeOK, Job
    <1>1. token[t] # None
        BY DEF authenticate
    <1>2. token[t].owner \in Users
        BY <1>0, <1>1 DEF FireTypeOK, TypeOK
    <1>3. IF minted[t] = None THEN job.fun = "read" ELSE job = minted[t]
        <2>1. minted[t] = IF token[t].pin = None THEN None ELSE saved[token[t].pin]
            BY <1>0, <1>1 DEF PinHolds
        <2>2. token[t].pin # None => saved[token[t].pin] # None
            BY <1>0, <1>1 DEF FireTypeOK
        <2>3. CASE token[t].pin = None
            BY <2>1, <2>3
        <2>4. CASE token[t].pin # None
            BY <2>1, <2>2, <2>4
        <2> QED
            BY <2>3, <2>4
    <1>4. t # None
        BY NoneAssumption
    <1>5. ASSUME NEW x, x = Started(token[t].owner, t, "run", job, job.tgt, None, FALSE, "narrow")
          PROVE  Narrowed(x)
        <2>1. x.job = job /\ x.phase = "narrow" /\ x.mint = IF t = None THEN None ELSE minted[t]
            BY <1>5 DEF Started
        <2>2. x.mint = minted[t]
            BY <1>4, <2>1
        <2> QED
            BY <1>3, <2>1, <2>2 DEF Narrowed
    <1> QED
        BY <1>0, <1>2, <1>5, StartKeeps

LEMMA TokenFiresKeep ==
    ASSUME FireInv, NEW t \in Tokens,
           \/ \E j \in SavedIds : pinned_fire(t, j)
           \/ \E job \in S.asks : unpinned_fire(t, job)
    PROVE  FireInv'
    <1>0. FireTypeOK /\ TypeOK
        BY DEF FireInv, FireTypeOK
    <1>1. CASE \E j \in SavedIds : pinned_fire(t, j)
        <2>1. PICK j \in SavedIds : pinned_fire(t, j)
            BY <1>1
        <2>2. saved[j] \in Job /\ token[t].pin = j /\ j # None
            BY <1>0, <2>1, NoneAssumption DEF pinned_fire, FireTypeOK
        <2> QED
            BY <2>1, <2>2, TokenKeeps DEF pinned_fire
    <1>2. CASE \E job \in S.asks : unpinned_fire(t, job)
        <2>1. PICK job \in S.asks : unpinned_fire(t, job)
            BY <1>2
        <2>2. job \in Job
            BY <1>0, FireSituationIs DEF TypeOK
        <2> QED
            BY <2>1, <2>2, TokenKeeps DEF unpinned_fire
    <1> QED
        BY <1>1, <1>2


\* What a request knows of its caller is among what it has met.
LEMMA KnownIsMet ==
    ASSUME fire # None, Met(fire), Read(fire), fire.phase = "narrow", ~fire.fleet,
           fire.memoised \in BOOLEAN
    PROVE  /\ ~FleetAmong(Known(fire), "job.run")
           /\ MinionsAmong(Known(fire), "job.run") \subseteq fire.held
    <1>1. Known(fire) \subseteq fire.had
        <2>1. CASE fire.memoised
            <3>1. fire.memo # {} /\ fire.memo \subseteq fire.had
                BY <2>1 DEF Read
            <3>2. Known(fire) = fire.memo
                BY <2>1, <3>1 DEF Known, EffectiveFrom
            <3> QED
                BY <3>1, <3>2
        <2>2. CASE ~fire.memoised
            <3>1. Known(fire) = Effective(fire.by)
                BY <2>2 DEF Known, Effective
            <3> QED
                BY <3>1 DEF Met
        <2> QED
            BY <2>1, <2>2
    <1>2. /\ MinionsAmong(Known(fire), "job.run") \subseteq MinionsAmong(fire.had, "job.run")
          /\ FleetAmong(Known(fire), "job.run") => FleetAmong(fire.had, "job.run")
        BY <1>1, MinionsMonotone
    <1> QED
        BY <1>2 DEF Met

LEMMA LaunchKeeps ==
    ASSUME FireInv, launch PROVE FireInv'
    <1>0. /\ FireTypeOK /\ TypeOK /\ LoneInv /\ PinHolds
          /\ fire # None /\ fire.phase = "narrow" /\ fire \in Fire
          /\ Met(fire) /\ Read(fire) /\ Narrowed(fire)
        BY DEF FireInv, FireTypeOK, FireHolds, launch
    <1>1. UNCHANGED vars /\ UNCHANGED <<saved, token, rows, fires, minted>>
        BY DEF launch
    <1>2. LoneInv' /\ TypeOK' /\ S' = S /\ users' = users
        BY <1>0, <1>1, VarsStay
    <1>3. PinHolds'
        BY <1>0, <1>1 DEF PinHolds
    <1> DEFINE tgts == IF mode = "scoped" THEN constrain_target(Known(fire), fire.tgt)
                       ELSE {fire.tgt}
               tgt == CHOOSE x \in tgts : TRUE
               next == [fire EXCEPT !.phase = "publish", !.tgt = tgt]
    <1>4. fire' = IF tgts = {} THEN None ELSE next
        BY DEF launch
    <1>5. CASE tgts = {}
        <2>1. fire' = None
            BY <1>4, <1>5
        <2>2. FireTypeOK' /\ FireHolds'
            BY <1>0, <1>1, <1>2, <2>1 DEF FireTypeOK, FireHolds
        <2> QED
            BY <1>2, <1>3, <2>2 DEF FireInv
    <1>6. CASE tgts # {}
        <2>1. fire' = next /\ tgt \in tgts
            BY <1>4, <1>6
        <2>2. fire.tgt \in Target /\ fire.memoised \in BOOLEAN /\ fire.legacy \in BOOLEAN
              /\ fire.fleet \in BOOLEAN
            BY <1>0 DEF Fire
        <2>3. tgt \in Target
            <3> HIDE DEF tgt
            <3> QED
                BY <1>0, <2>1, <2>2, ConstrainType
        <2>4. ASSUME ~fire.legacy, ~fire.fleet
              PROVE  tgt.kind = "list" /\ tgt.ids \subseteq fire.held
            <3>1. mode = "scoped"
                BY <1>0, <2>4 DEF Met
            <3>2. tgt \in constrain_target(Known(fire), fire.tgt)
                BY <2>1, <3>1
            <3>3. /\ ~FleetAmong(Known(fire), "job.run")
                  /\ MinionsAmong(Known(fire), "job.run") \subseteq fire.held
                BY <1>0, <2>2, <2>4, KnownIsMet
            <3> HIDE DEF tgt, tgts
            <3>4. PICK ids : tgt = ListOf(ids) /\ ids \subseteq MinionsAmong(Known(fire), "job.run")
                BY <3>2, <3>3, ConstrainIs
            <3> QED
                BY <3>3, <3>4, TargetFields
        <2> HIDE DEF tgt, tgts
        <2>5. /\ next \in Fire /\ next.phase = "publish" /\ next.tgt = tgt
              /\ next.by = fire.by /\ next.via = fire.via /\ next.job = fire.job
              /\ next.memo = fire.memo /\ next.memoised = fire.memoised
              /\ next.mint = fire.mint /\ next.had = fire.had /\ next.held = fire.held
              /\ next.fleet = fire.fleet /\ next.legacy = fire.legacy
            BY <1>0, <2>3 DEF Fire
        <2> HIDE DEF next
        <2>6. Met(fire)'
            BY <1>0, <1>1, <2>1, <2>5, VarsStay DEF Met
        <2>7. Read(fire)'
            BY <1>0, <2>1, <2>5 DEF Read
        <2>8. Narrowed(fire)'
            BY <1>0, <2>1, <2>4, <2>5 DEF Narrowed
        <2>9. FireTypeOK'
            BY <1>0, <1>1, <1>2, <2>1, <2>5 DEF FireTypeOK
        <2> QED
            BY <1>2, <1>3, <2>6, <2>7, <2>8, <2>9 DEF FireInv, FireHolds
    <1> QED
        BY <1>5, <1>6

\* The end of a request: a save fills a free name, so no pinned job changes.
LEMMA PublishKeeps ==
    ASSUME FireInv, publish \/ FireDies PROVE FireInv'
    <1>0. FireTypeOK /\ TypeOK /\ LoneInv /\ PinHolds /\ fire \in Fire
        BY DEF FireInv, FireTypeOK, publish, FireDies
    <1>1. fire' = None /\ UNCHANGED vars /\ UNCHANGED <<token, fires, minted>>
        BY DEF publish, FireDies
    <1>2. LoneInv' /\ TypeOK' /\ S' = S /\ users' = users
        BY <1>0, <1>1, VarsStay
    <1>3. fire.tgt \in Target /\ fire.job \in Job /\ fire.save \in SavedIds \cup {None}
        BY <1>0 DEF Fire
    <1>4. rows' \subseteq Target
        <2>1. Delivery(fire.tgt) \subseteq Minions \/ fire.tgt.kind # "group"
            BY <1>0, PublishedType DEF Delivery
        <2>2. JobRow(fire) \in Target
            BY <1>3, <2>1, ListType DEF JobRow
        <2>3. rows' \subseteq rows \cup {JobRow(fire)}
            BY DEF publish, FireDies
        <2> QED
            BY <1>0, <2>2, <2>3 DEF FireTypeOK
    <1>5. /\ saved' \in [SavedIds -> Job \cup {None}]
          /\ \A j \in SavedIds : saved[j] # None => saved'[j] = saved[j]
        <2>1. saved' = saved \/ saved' = Saved(fire)
            BY DEF publish, FireDies
        <2>2. saved \in [SavedIds -> Job \cup {None}]
            BY <1>0 DEF FireTypeOK
        <2> QED
            BY <1>3, <2>1, <2>2 DEF Saved
    <1>6. FireTypeOK'
        <2>1. \A t \in Tokens : token[t] # None /\ token[t].pin # None => token[t].pin \in SavedIds
            BY <1>0 DEF FireTypeOK, Token
        <2> QED
            BY <1>0, <1>1, <1>2, <1>4, <1>5, <2>1 DEF FireTypeOK
    <1>7. PinHolds'
        <2>1. \A t \in Tokens : token[t] # None /\ token[t].pin # None =>
                 token[t].pin \in SavedIds /\ saved[token[t].pin] # None
            BY <1>0 DEF FireTypeOK, Token
        <2> QED
            BY <1>0, <1>1, <1>5, <2>1 DEF PinHolds
    <1>8. FireHolds'
        BY <1>1 DEF FireHolds
    <1> QED
        BY <1>2, <1>6, <1>7, <1>8 DEF FireInv

LEMMA FiringKeeps ==
    ASSUME FireInv, Firing PROVE FireInv'
    BY RunKeeps, KillKeeps, TokenFiresKeep, LaunchKeeps, PublishKeeps DEF Firing


-----------------------------------------------------------------------------
(* Saved jobs, service accounts and tokens.                                 *)

\* A write that leaves accounts and grants alone leaves the request under way.
LEMMA QuietWrite ==
    ASSUME FireInv, UNCHANGED checkVars, UNCHANGED <<req, setup, recordVars>>,
           writes' = writes \/ (writes < S.writes /\ writes' = writes + 1), fire' = fire
    PROVE  LoneInv' /\ TypeOK' /\ S' = S /\ users' = users /\ FireHolds'
    <1>1. TypeOK /\ LoneInv /\ FireHolds
        BY DEF FireInv, FireTypeOK
    <1>2. writes' \in 0..S.writes
        BY <1>1, SituationIs DEF TypeOK
    <1>3. LoneInv'
        BY <1>1, <1>2, QuietLone
    <1>4. /\ UNCHANGED <<mode, fallback, users, members, claims, role, grants>>
          /\ UNCHANGED <<mappings, oidcRole, row, nodes, snapshot>>
          /\ S' = S
        BY SetupStays DEF checkVars, flagVars, dirVars, idpVars, fleetVars
    <1>5. /\ \A u : Effective(u)' = Effective(u)
          /\ \A entries, p : MinionsAmong(entries, p)' = MinionsAmong(entries, p)
        BY <1>4, EffectiveStays, ResolveStays DEF checkVars
    <1>6. FireHolds'
        BY <1>1, <1>4, <1>5 DEF FireHolds, Met, Read, Narrowed
    <1>7. TypeOK'
        BY <1>3 DEF LoneInv, AuthInv
    <1> QED
        BY <1>3, <1>4, <1>6, <1>7

LEMMA TokenWrites ==
    ASSUME FireInv, NEW t \in Tokens,
           \/ TokenExpires(t)
           \/ \E a \in users : revoke_token(a, t)
           \/ \E a \in users, u \in Users, pin \in SavedIds \cup {None} : create_token(a, t, u, pin)
    PROVE  FireInv'
    <1>0. FireTypeOK /\ PinHolds /\ token \in [Tokens -> Token \cup {None}]
        BY DEF FireInv, FireTypeOK
    <1>1. /\ UNCHANGED checkVars /\ UNCHANGED <<req, setup, recordVars>>
          /\ writes' = writes \/ (writes < S.writes /\ writes' = writes + 1)
          /\ UNCHANGED <<saved, fire, rows, fires>>
        BY DEF TokenExpires, revoke_token, create_token, AdminWrite, Begin, vars, checkVars
    <1>2. LoneInv' /\ TypeOK' /\ S' = S /\ users' = users /\ FireHolds'
        BY <1>1, QuietWrite
    <1>3. ASSUME token' \in [Tokens -> Token \cup {None}],
                 minted' \in [Tokens -> Job \cup {None}],
                 \A s \in Tokens : token'[s] # None =>
                    /\ token'[s].owner \in S.service \cap users
                    /\ token'[s].pin # None => saved[token'[s].pin] # None
                    /\ minted'[s] = IF token'[s].pin = None THEN None ELSE saved[token'[s].pin]
          PROVE  FireInv'
        <2>1. FireTypeOK'
            BY <1>0, <1>1, <1>2, <1>3 DEF FireTypeOK
        <2>2. PinHolds'
            BY <1>1, <1>3 DEF PinHolds
        <2> QED
            BY <1>2, <2>1, <2>2 DEF FireInv
    <1>4. CASE TokenExpires(t) \/ \E a \in users : revoke_token(a, t)
        <2>1. token[t] # None /\ token' = [token EXCEPT ![t] = [token[t] EXCEPT !.live = FALSE]]
              /\ minted' = minted
            BY <1>4 DEF TokenExpires, revoke_token
        <2>2. token[t] \in Token
            BY <1>0, <2>1
        <2> DEFINE x == [token[t] EXCEPT !.live = FALSE]
        <2>3. x \in Token /\ x.owner = token[t].owner /\ x.pin = token[t].pin
            BY <2>2 DEF Token
        <2> HIDE DEF x
        <2>4. token' = [token EXCEPT ![t] = x]
            BY <2>1 DEF x
        <2>5. token' \in [Tokens -> Token \cup {None}]
            BY <1>0, <2>3, <2>4
        <2>6. ASSUME NEW s \in Tokens, token'[s] # None
              PROVE  token[s] # None /\ token'[s].owner = token[s].owner
                     /\ token'[s].pin = token[s].pin
            BY <1>0, <2>1, <2>3, <2>4, <2>6
        <2>7. \A s \in Tokens : token'[s] # None =>
                    /\ token'[s].owner \in S.service \cap users
                    /\ token'[s].pin # None => saved[token'[s].pin] # None
                    /\ minted'[s] = IF token'[s].pin = None THEN None ELSE saved[token'[s].pin]
            BY <1>0, <2>1, <2>6 DEF FireTypeOK, PinHolds
        <2>8. minted' \in [Tokens -> Job \cup {None}]
            BY <1>0, <2>1 DEF FireTypeOK
        <2> QED
            BY <1>3, <2>5, <2>7, <2>8
    <1>5. CASE \E a \in users, u \in Users, pin \in SavedIds \cup {None} : create_token(a, t, u, pin)
        <2>1. PICK a \in users, u \in Users, pin \in SavedIds \cup {None} : create_token(a, t, u, pin)
            BY <1>5
        <2> DEFINE x == [owner |-> u, pin |-> pin, live |-> TRUE]
                   job == IF pin = None THEN None ELSE saved[pin]
        <2>2. /\ u \in S.service \cap users /\ (pin # None => saved[pin] # None)
              /\ token' = [token EXCEPT ![t] = x]
              /\ minted' = [minted EXCEPT ![t] = job]
            BY <2>1 DEF create_token
        <2>3. x \in Token /\ x.owner = u /\ x.pin = pin
            BY DEF Token
        <2>4. job \in Job \cup {None}
            BY <1>0 DEF FireTypeOK
        <2>5. minted \in [Tokens -> Job \cup {None}]
            BY <1>0 DEF FireTypeOK
        <2>6. job = IF pin = None THEN None ELSE saved[pin]
            OBVIOUS
        <2> HIDE DEF x, job
        <2>7. token' \in [Tokens -> Token \cup {None}] /\ minted' \in [Tokens -> Job \cup {None}]
            BY <1>0, <2>2, <2>3, <2>4, <2>5
        <2>8. ASSUME NEW s \in Tokens, token'[s] # None
              PROVE  /\ token'[s].owner \in S.service \cap users
                     /\ token'[s].pin # None => saved[token'[s].pin] # None
                     /\ minted'[s] = IF token'[s].pin = None THEN None ELSE saved[token'[s].pin]
            <3>1. CASE s = t
                <4>1. token'[s] = x /\ minted'[s] = job
                    BY <1>0, <2>2, <2>5, <3>1
                <4> QED
                    BY <2>2, <2>3, <2>6, <4>1
            <3>2. CASE s # t
                <4>1. token'[s] = token[s] /\ minted'[s] = minted[s]
                    BY <1>0, <2>2, <2>5, <3>2
                <4> QED
                    BY <1>0, <2>8, <4>1 DEF FireTypeOK, PinHolds
            <3> QED
                BY <3>1, <3>2
        <2> QED
            BY <1>3, <2>7, <2>8
    <1> QED
        BY <1>4, <1>5

LEMMA SavedWrites ==
    ASSUME FireInv, NEW a \in users, NEW j \in SavedIds, delete_saved(a, j)
    PROVE  FireInv'
    <1>0. FireTypeOK /\ PinHolds /\ saved \in [SavedIds -> Job \cup {None}]
        BY DEF FireInv, FireTypeOK
    <1>1. /\ UNCHANGED checkVars /\ UNCHANGED <<req, setup, recordVars>>
          /\ writes < S.writes /\ writes' = writes + 1
          /\ UNCHANGED <<token, fire, rows, fires, minted>>
          /\ saved' = [saved EXCEPT ![j] = None]
          /\ \A t \in Tokens : token[t] # None => token[t].pin # j
        BY DEF delete_saved, Begin, checkVars
    <1>2. LoneInv' /\ TypeOK' /\ S' = S /\ users' = users /\ FireHolds'
        BY <1>1, QuietWrite
    <1>3. saved' \in [SavedIds -> Job \cup {None}]
          /\ \A i \in SavedIds \ {j} : saved'[i] = saved[i]
        BY <1>0, <1>1
    <1>4. \A t \in Tokens : token[t] # None /\ token[t].pin # None =>
             token[t].pin \in SavedIds /\ saved'[token[t].pin] = saved[token[t].pin]
        BY <1>0, <1>1, <1>3 DEF FireTypeOK, Token
    <1>5. FireTypeOK'
        BY <1>0, <1>1, <1>2, <1>3, <1>4 DEF FireTypeOK
    <1>6. PinHolds'
        BY <1>0, <1>1, <1>4 DEF PinHolds
    <1> QED
        BY <1>2, <1>5, <1>6 DEF FireInv


\* A new service account has no grant, and its role column says so.
LEMMA AccountWrites ==
    ASSUME FireInv, NEW a \in users, NEW u \in Users, create_service_account(a, u)
    PROVE  FireInv'
    <1>0. FireTypeOK /\ TypeOK /\ PinHolds /\ FireHolds /\ AuthInv /\ AdminHolds /\ RoleHolds
          /\ BackfillFollowsSettings
        BY DEF FireInv, FireTypeOK, LoneInv
    <1>1. /\ AllIdle /\ writes < S.writes /\ writes' = writes + 1
          /\ u \in S.service \ users
          /\ users' = users \cup {u}
          /\ role' = [role EXCEPT ![u] = "none"]
          /\ UNCHANGED <<mode, fallback, members, claims, grants, mappings, oidcRole>>
          /\ UNCHANGED <<env, row, nodes, snapshot, req, setup, granted, stale, settled>>
          /\ UNCHANGED <<saved, token, fire, rows, fires, minted>>
        BY DEF create_service_account, AdminWrite, Begin, flagVars, idpVars, fleetVars, fireVars,
            recordVars
    <1>2. S' = S
        BY <1>1, SetupStays
    <1>3. TypeOK'
        <2>1. writes' \in 0..S.writes
            BY <1>0, <1>1, SituationIs DEF TypeOK
        <2>2. role' \in [Users -> Ladder \cup {"scoped", "none"}]
            BY <1>0, <1>1 DEF TypeOK
        <2>3. members' \in [LocalGroups -> SUBSET users']
            BY <1>0, <1>1 DEF TypeOK
        <2>4. \A g \in grants' : g.subject \in Users => g.subject \in users'
            BY <1>0, <1>1 DEF TypeOK
        <2> QED
            BY <1>0, <1>1, <1>2, <2>1, <2>2, <2>3, <2>4 DEF TypeOK
    <1>4. \A w : Entries(w)' = Entries(w)
        BY <1>1, EntriesStay
    <1>5. Entries(u) = {}
        <2>1. \A h \in grants : h.subject # u
            BY <1>0, <1>1 DEF TypeOK
        <2>2. \A g \in LocalGroups : u \notin members[g]
            BY <1>0, <1>1 DEF TypeOK
        <2>3. claims[u] = {}
            BY <1>0, <1>1 DEF RoleHolds
        <2>4. ASSUME NEW e PROVE e \notin Entries(u)
            BY <2>1, <2>2, <2>3, EntriesAre DEF Entries
        <2> QED
            BY <2>4
    <1>6. AuthInv'
        <2>1. \A b \in Users : req'[b] = Idle
            BY <1>1 DEF AllIdle
        <2> QED
            BY <1>3, <2>1 DEF AuthInv, ReqHolds, OneHolds, CheckedHolds, Checked
    <1>7. BackfillFollowsSettings'
        BY <1>0, <1>1 DEF BackfillFollowsSettings
    <1>8. AdminHolds'
        <2> SUFFICES ASSUME Guarded' PROVE AdminHolds'
            BY DEF AdminHolds
        <2>1. Guarded
            BY <1>2 DEF Guarded
        <2>2. \E g \in grants' : AdminRow(g)'
            BY <1>0, <1>1, <2>1, AdminRowStays DEF AdminHolds
        <2> QED
            BY <1>0, <1>1, <2>1, <2>2 DEF AdminHolds
    <1>9. RoleHolds'
        <2>1. \A w \in Users \ users' : claims'[w] = {}
            BY <1>0, <1>1 DEF RoleHolds
        <2>2. \A b \in Users : ~Checked(b)'
            BY <1>1 DEF AllIdle, Checked
        <2>3. ASSUME mode' = "scoped", NEW w \in users' \ stale'
              PROVE  Fresh(w)'
            <3>1. CASE w = u
                <4>1. role'[u] = "none"
                    BY <1>0, <1>1 DEF TypeOK
                <4>2. CachedRole({}) = "none"
                    BY DEF CachedRole
                <4> QED
                    BY <1>4, <1>5, <3>1, <4>1, <4>2 DEF Fresh
            <3>2. CASE w # u
                <4>1. role'[w] = role[w] /\ w \in users \ stale
                    BY <1>0, <1>1, <2>3, <3>2 DEF TypeOK
                <4>2. Fresh(w)
                    BY <1>0, <1>1, <2>3, <4>1 DEF RoleHolds, AllIdle, Due
                <4> QED
                    BY <1>4, <4>1, <4>2 DEF Fresh
            <3> QED
                BY <3>1, <3>2
        <2> QED
            BY <1>2, <2>1, <2>2, <2>3 DEF RoleHolds
    <1>10. FireHolds'
        <2>1. \A w : Effective(w)' \subseteq Effective(w)
            <3> SUFFICES ASSUME NEW w PROVE Effective(w)' \subseteq Effective(w)
                OBVIOUS
            <3>1. CASE Entries(w) # {}
                BY <1>4, <3>1 DEF Effective, EffectiveFrom
            <3>2. CASE Entries(w) = {} /\ role'[w] = role[w]
                BY <1>1, <1>4, <3>2 DEF Effective, EffectiveFrom
            <3>3. CASE Entries(w) = {} /\ role'[w] # role[w]
                <4>1. w \in Users => role'[w] = "none"
                    BY <1>0, <1>1, <3>3 DEF TypeOK
                <4>2. role' \in [Users -> Ladder \cup {"scoped", "none"}] /\ role \in [Users -> Ladder \cup {"scoped", "none"}]
                    BY <1>0, <1>3 DEF TypeOK
                <4>3. w \in Users
                    BY <1>1, <3>3, <4>2
                <4> QED
                    BY <1>4, <3>3, <4>1, <4>3 DEF Effective, EffectiveFrom, Ladder
            <3> QED
                BY <3>1, <3>2, <3>3
        <2>2. \A entries, p : MinionsAmong(entries, p)' = MinionsAmong(entries, p)
            BY <1>1, ResolveStays DEF fleetVars
        <2>3. ASSUME fire # None PROVE Met(fire)' /\ Read(fire)' /\ Narrowed(fire)'
            <3>1. Met(fire) /\ Read(fire) /\ Narrowed(fire)
                BY <1>0, <2>3 DEF FireHolds
            <3>2. Met(fire)'
                BY <1>1, <2>1, <2>2, <3>1 DEF Met
            <3> QED
                BY <1>1, <3>1, <3>2 DEF Read, Narrowed
        <2> QED
            BY <1>1, <2>3 DEF FireHolds
    <1>11. FireTypeOK'
        BY <1>0, <1>1, <1>2, <1>3 DEF FireTypeOK
    <1>12. PinHolds'
        BY <1>0, <1>1 DEF PinHolds
    <1> QED
        BY <1>6, <1>7, <1>8, <1>9, <1>10, <1>11, <1>12 DEF FireInv, LoneInv

LEMMA ManagingKeeps ==
    ASSUME FireInv, Managing PROVE FireInv'
    BY TokenWrites, SavedWrites, AccountWrites DEF Managing

-----------------------------------------------------------------------------
(* A step of Authz beside the request under way.                            *)

LEMMA EffectiveTypeNext ==
    ASSUME TypeOK', NEW u PROVE Effective(u)' \subseteq Entry
    <1>1. Entries(u)' \subseteq Entry
        BY EntriesFromType DEF Entries, TypeOK
    <1>2. CASE (Entries(u)' = {} /\ fallback' /\ role'[u] \in Ladder)
        <2>1. role'[u] \in Roles /\ Fleet \in Scopes
            BY <1>2, RolesAre DEF Scopes
        <2>2. [role |-> role'[u], scope |-> Fleet] \in Entry
            BY <2>1 DEF Entry
        <2>3. Effective(u)' = {[role |-> role'[u], scope |-> Fleet]}
            BY <1>2 DEF Effective, EffectiveFrom
        <2> QED
            BY <2>2, <2>3
    <1>3. CASE ~(Entries(u)' = {} /\ fallback' /\ role'[u] \in Ladder)
        BY <1>1, <1>3 DEF Effective, EffectiveFrom
    <1> QED
        BY <1>2, <1>3

LEMMA MinionsTypeNext ==
    ASSUME TypeOK', NEW entries, NEW p PROVE MinionsAmong(entries, p)' \subseteq Minions
    <1>1. snapshot' \subseteq Minions
        BY DEF TypeOK
    <1>2. ASSUME NEW s PROVE Resolve(s)' \subseteq snapshot'
        <2>1. CASE s.kind = "match"
            BY <2>1 DEF Resolve
        <2>2. CASE s.kind = "group"
            BY <2>2 DEF Resolve
        <2>3. CASE s.kind # "match" /\ s.kind # "group"
            BY <2>3 DEF Resolve
        <2> QED
            BY <2>1, <2>2, <2>3
    <1> QED
        BY <1>1, <1>2 DEF MinionsAmong

LEMMA DirectoryKeeps ==
    ASSUME FireInv, Directory PROVE FireInv'
    <1>0. FireTypeOK /\ TypeOK /\ PinHolds /\ FireHolds /\ LoneInv
        BY DEF FireInv, FireTypeOK
    <1>1. /\ OneAtATime
          /\ token' = [t \in Tokens |->
                IF token[t] # None /\ token[t].owner \notin users' THEN None ELSE token[t]]
          /\ UNCHANGED <<saved, rows, fires, minted>>
        BY DEF Directory
    <1>2. LoneInv' /\ TypeOK' /\ S' = S
        <2>1. LoneInv'
            BY <1>0, <1>1, StepLone
        <2>2. setup' = setup
            BY <1>1 DEF OneAtATime, Records
        <2> QED
            BY <2>1, <2>2, SetupStays DEF LoneInv, AuthInv
    <1>3. /\ token' \in [Tokens -> Token \cup {None}]
          /\ \A t \in Tokens : token'[t] # None => token'[t] = token[t] /\ token[t].owner \in users'
        BY <1>0, <1>1 DEF FireTypeOK
    <1>4. PinHolds'
        BY <1>0, <1>1, <1>3 DEF PinHolds
    <1>5. ASSUME fire' \in Fire \cup {None} PROVE FireTypeOK'
        BY <1>0, <1>1, <1>2, <1>3, <1>5 DEF FireTypeOK
    <1>6. CASE fire = None
        <2>1. fire' = None
            BY <1>6 DEF Directory
        <2> QED
            BY <1>2, <1>4, <1>5, <2>1 DEF FireInv, FireHolds
    <1>7. CASE fire # None
        <2>0. /\ fire \in Fire /\ Met(fire) /\ Read(fire) /\ Narrowed(fire)
            BY <1>0, <1>7 DEF FireTypeOK, FireHolds
        <2>1. PICK u \in {fire.by} : \E h \in {fire.had \cup Effective(u)'} :
                fire' = [fire EXCEPT !.had = h,
                                     !.held = @ \cup MinionsAmong(h, "job.run")',
                                     !.fleet = @ \/ FleetAmong(h, "job.run"),
                                     !.legacy = @ \/ mode' = "legacy"]
            BY <1>7 DEF Directory
        <2>2. PICK had \in {fire.had \cup Effective(u)'} :
                fire' = [fire EXCEPT !.had = had,
                                     !.held = @ \cup MinionsAmong(had, "job.run")',
                                     !.fleet = @ \/ FleetAmong(had, "job.run"),
                                     !.legacy = @ \/ mode' = "legacy"]
            BY <2>1
        <2>3. u = fire.by /\ had = fire.had \cup Effective(u)'
            BY <2>1, <2>2
        <2>4. Effective(u)' \subseteq Entry
            BY <1>2, EffectiveTypeNext
        <2> DEFINE minions == MinionsAmong(had, "job.run")'
                   fleet == FleetAmong(had, "job.run")
        <2>5. minions \subseteq Minions
            BY <1>2, MinionsTypeNext
        <2>6. fleet \in BOOLEAN /\ (mode' = "legacy") \in BOOLEAN
            BY DEF FleetAmong
        <2>7. FleetAmong(had, "job.run")' = fleet
            BY DEF FleetAmong
        <2>8. MinionsAmong(had, "job.run")' = minions
            OBVIOUS
        <2> HIDE DEF minions, fleet
        <2> DEFINE held == fire.held \cup minions
                   reached == fire.fleet \/ fleet
                   legacy == fire.legacy \/ mode' = "legacy"
        <2>9. fire' = [fire EXCEPT !.had = had, !.held = held, !.fleet = reached,
                                   !.legacy = legacy]
            BY <2>2 DEF minions, fleet
        <2>10. /\ fire' \in Fire
               /\ fire'.had = had /\ fire'.held = held
               /\ fire'.fleet = reached /\ fire'.legacy = legacy
               /\ fire'.by = fire.by /\ fire'.via = fire.via /\ fire'.job = fire.job
               /\ fire'.memo = fire.memo /\ fire'.memoised = fire.memoised
               /\ fire'.mint = fire.mint /\ fire'.tgt = fire.tgt /\ fire'.phase = fire.phase
            <3>1. reached \in BOOLEAN /\ legacy \in BOOLEAN
                OBVIOUS
            <3>2. held \subseteq Minions /\ had \subseteq Entry
                BY <2>0, <2>3, <2>4, <2>5 DEF Fire
            <3> HIDE DEF held, reached, legacy
            <3> QED
                BY <2>0, <2>9, <3>1, <3>2 DEF Fire
        <2>11. fire.fleet \in BOOLEAN /\ fire.legacy \in BOOLEAN /\ fire.memoised \in BOOLEAN
            BY <2>0 DEF Fire
        <2>12. Met(fire)'
            <3>1. Effective(fire.by)' \subseteq fire'.had
                BY <2>3, <2>10
            <3>2. MinionsAmong(fire.had, "job.run")' \subseteq fire'.held
                BY <2>8, <2>10
            <3>3. FleetAmong(fire.had, "job.run")' => fire'.fleet
                BY <2>7, <2>10, <2>11
            <3>4. ~fire'.legacy => mode' = "scoped"
                BY <1>2, <2>10, <2>11 DEF TypeOK
            <3> QED
                BY <3>1, <3>2, <3>3, <3>4 DEF Met
        <2>13. Read(fire)'
            BY <2>0, <2>3, <2>10, <2>11 DEF Read
        <2>14. Narrowed(fire)'
            <3>1. ASSUME fire'.phase = "publish", ~fire'.legacy, ~fire'.fleet
                  PROVE  fire'.tgt.kind = "list" /\ fire'.tgt.ids \subseteq fire'.held
                BY <2>0, <2>10, <2>11, <3>1 DEF Narrowed
            <3>2. fire'.via # None =>
                     IF fire'.mint = None THEN fire'.job.fun = "read" ELSE fire'.job = fire'.mint
                BY <2>0, <2>10 DEF Narrowed
            <3> QED
                BY <3>1, <3>2 DEF Narrowed
        <2> QED
            BY <1>2, <1>4, <1>5, <2>10, <2>12, <2>13, <2>14 DEF FireInv, FireHolds
    <1> QED
        BY <1>6, <1>7

LEMMA RestartsKeep ==
    ASSUME FireInv, RestartsAll PROVE FireInv'
    <1>1. LoneInv' /\ users' = users /\ S' = S
        BY RedeployLone DEF FireInv, RestartsAll
    <1>2. UNCHANGED <<saved, token, fire, rows, fires, minted>> /\ fire = None
        BY DEF RestartsAll, fireVars
    <1>3. FireTypeOK'
        BY <1>1, <1>2 DEF FireInv, FireTypeOK, LoneInv, AuthInv
    <1>4. PinHolds' /\ FireHolds'
        BY <1>2 DEF FireInv, PinHolds, FireHolds
    <1> QED
        BY <1>1, <1>3, <1>4 DEF FireInv

-----------------------------------------------------------------------------
(* The specification.                                                       *)

LEMMA FireStarts ==
    ASSUME FireInit PROVE FireInv
    <1>1. LoneInv /\ TypeOK
        BY InitLone DEF FireInit, LoneInv, AuthInv
    <1>2. /\ saved = S.saved /\ fire = None /\ rows = S.running /\ fires = 0
          /\ users = S.users
          /\ token = [t \in Tokens |->
                IF S.pins[t] = None THEN None
                ELSE [owner |-> CHOOSE u \in S.service \cap S.users : TRUE, pin |-> S.pins[t],
                      live |-> TRUE]]
          /\ minted = [t \in Tokens |-> IF S.pins[t] = None THEN None ELSE S.saved[S.pins[t]]]
        BY DEF FireInit, Init
    <1>3. /\ S.service \subseteq Users
          /\ S.saved \in [SavedIds -> Job \cup {None}]
          /\ S.pins \in [Tokens -> SavedIds \cup {None}]
          /\ \A t \in Tokens : S.pins[t] # None =>
                S.saved[S.pins[t]] # None /\ S.service \cap S.users # {}
          /\ S.running \subseteq Target /\ S.fires \in Nat
        BY <1>1, FireSituationIs DEF TypeOK
    <1> DEFINE owner == CHOOSE u \in S.service \cap S.users : TRUE
    <1>4. S.service \cap S.users # {} => owner \in S.service \cap S.users
        OBVIOUS
    <1> HIDE DEF owner
    <1>5. ASSUME NEW t \in Tokens
          PROVE  /\ token[t] \in Token \cup {None} /\ minted[t] \in Job \cup {None}
                 /\ token[t] # None =>
                       /\ token[t].owner \in S.service \cap users
                       /\ token[t].pin # None => saved[token[t].pin] # None
                       /\ minted[t] = IF token[t].pin = None THEN None ELSE saved[token[t].pin]
        <2>1. CASE S.pins[t] = None
            BY <1>2, <2>1
        <2>2. CASE S.pins[t] # None
            <3>1. /\ token[t] = [owner |-> owner, pin |-> S.pins[t], live |-> TRUE]
                  /\ minted[t] = saved[S.pins[t]] /\ S.pins[t] \in SavedIds
                BY <1>2, <1>3, <2>2 DEF owner
            <3>2. owner \in S.service \cap users /\ owner \in Users
                BY <1>2, <1>3, <1>4, <2>2
            <3>3. token[t] \in Token /\ token[t].owner = owner /\ token[t].pin = S.pins[t]
                BY <3>1, <3>2 DEF Token
            <3> QED
                BY <1>2, <1>3, <2>2, <3>1, <3>2, <3>3
        <2> QED
            BY <2>1, <2>2
    <1>6. token \in [Tokens -> Token \cup {None}] /\ minted \in [Tokens -> Job \cup {None}]
        BY <1>2, <1>5
    <1>7. FireTypeOK
        BY <1>1, <1>2, <1>3, <1>5, <1>6 DEF FireTypeOK
    <1>8. PinHolds /\ FireHolds
        BY <1>2, <1>5 DEF PinHolds, FireHolds
    <1> QED
        BY <1>1, <1>7, <1>8 DEF FireInv

LEMMA FireStutters ==
    ASSUME FireInv, UNCHANGED <<vars, fireVars>> PROVE FireInv'
    <1>1. UNCHANGED vars /\ UNCHANGED <<saved, token, fire, rows, fires, minted>>
        BY DEF fireVars
    <1>2. LoneInv' /\ TypeOK' /\ S' = S /\ users' = users /\ FireHolds'
        BY <1>1, QuietWrite, VarsStay
    <1> QED
        BY <1>1, <1>2 DEF FireInv, FireTypeOK, PinHolds

LEMMA FireSteps ==
    ASSUME FireInv, [FireNext]_<<vars, fireVars>> PROVE FireInv'
    BY DirectoryKeeps, RestartsKeep, FiringKeeps, ManagingKeeps, FireStutters DEF FireNext

\* The inductive invariant: what every step of a request relies on.
THEOREM FireInvHolds == FireSpec => []FireInv
    <1>1. FireInit => FireInv
        BY FireStarts
    <1>2. FireInv /\ [FireNext]_<<vars, fireVars>> => FireInv'
        BY FireSteps
    <1> QED
        BY <1>1, <1>2, PTL DEF FireSpec

\* Accounts, grants, requests, saved jobs, tokens and fired jobs have their
\* types, and no row refers to an account or a saved job that is gone.
THEOREM FireTypeCorrect == FireSpec => []FireTypeOK
    <1>1. FireInv => FireTypeOK
        BY DEF FireInv
    <1> QED
        BY <1>1, FireInvHolds, PTL

\* Whatever grants, groups, accounts, the inventory and rbac_mode do between the
\* check, the narrowing and the publish of a request (run, kill, launch,
\* run_job), it reaches only minions that a grant of its caller covered
\* meanwhile, and a token's fires the job it was minted for.
THEOREM FiresAuthorised == FireSpec => []FiresStayAuthorised
    <1>1. FireInv => FiresStayAuthorised
        BY FireHoldsIsEnough
    <1> QED
        BY <1>1, FireInvHolds, PTL

\* With the guards of set_role, delete and delete_grant, no sequence of requests
\* leaves a guarded installation without a fleet admin.
THEOREM AdminsRemain == FireSpec => []AdminRemains
    <1>1. FireInv => AdminRemains
        BY LoneInvIsEnough DEF FireInv
    <1> QED
        BY <1>1, FireInvHolds, PTL

\* Between requests the role column is what refresh_role_cache would compute, but
\* where it was last computed from a self-edit's memo, where a worker died between
\* the commit of the grants and its recomputation (set_role, create_grant and the
\* others), and where RBAC_MODE brought scoped mode in.
THEOREM RolesFollowGrants == FireSpec => []RoleFollowsGrants
    <1>1. FireInv => RoleFollowsGrants
        BY LoneInvIsEnough DEF FireInv
    <1> QED
        BY <1>1, FireInvHolds, PTL

\* A mapping that backfill_rbac or _save_rbac_control wrote gives its group, in a
\* scoped mode entered on the settings page, the role of the OIDC group settings,
\* however often rbac_mode was switched there and whatever the environment did
\* before; after it, until a redeployment changes the lists.
THEOREM BackfillsFollowSettings == FireSpec => []BackfillFollowsSettings
    <1>1. FireInv => BackfillFollowsSettings
        BY DEF FireInv, LoneInv
    <1> QED
        BY <1>1, FireInvHolds, PTL

\* A delegate's commit (users.py) changes nothing outside the delegate's scope
\* and gives no more than the delegate has (delegate_grant_error,
\* delegate_group_error).
THEOREM DelegatesStayInside == FireSpec => DelegationIsSubset
    <1>1. ASSUME FireInv, [FireNext]_<<vars, fireVars>>
          PROVE  [\A a \in Users : DelegateCommits(a) => InsideScope(a)]_vars
        <2>1. CASE Directory
            BY <1>1, <2>1, StepDelegation DEF FireInv, LoneInv, Directory
        <2>2. ASSUME req' = req, NEW a \in Users PROVE ~DelegateCommits(a)
            BY <2>2 DEF DelegateCommits
        <2>3. CASE Firing \/ UNCHANGED <<vars, fireVars>>
            <3>1. UNCHANGED vars
                BY <2>3 DEF Firing, run, kill, pinned_fire, unpinned_fire, Starts, launch,
                    publish, FireDies
            <3> QED
                BY <3>1
        <2>4. CASE Managing
            <3>1. req' = req
                BY <2>4 DEF Managing, TokenExpires, delete_saved, create_service_account,
                    create_token, revoke_token, vars
            <3> QED
                BY <2>2, <3>1
        <2>5. CASE RestartsAll
            <3>1. req' = req
                BY <2>5 DEF RestartsAll, Redeployment, Redeploys
            <3> QED
                BY <2>2, <3>1
        <2> QED
            BY <1>1, <2>1, <2>3, <2>4, <2>5 DEF FireNext
    <1>2. FireInv /\ [FireNext]_<<vars, fireVars>> =>
             [\A a \in Users : DelegateCommits(a) => InsideScope(a)]_vars
        BY <1>1
    <1> QED
        BY <1>2, FireInvHolds, PTL DEF FireSpec, DelegationIsSubset, InsideScope
=============================================================================
