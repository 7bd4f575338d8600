------------------------------- MODULE JobSync -------------------------------
(***************************************************************************)
(* How a Salt job's returns become stored returns, a completed job row and *)
(* per-minion conformity verdicts.                                         *)
(*                                                                         *)
(* The masters' returner writes salt_returns; every page view, stream poll *)
(* or wave poll calls sync_job() (jobs_service.py), which reads the job    *)
(* row and the returner rows, asks the master what it still knows of the   *)
(* JID, and writes jobs, job_returns and, through apply_sync_verdicts()    *)
(* (states.py), the minions' conformity and its history.  Requests run     *)
(* concurrently over one Postgres at READ COMMITTED, so a sync is three    *)
(* steps: SyncRead (the reads before the salt-api call), SyncStamp (the    *)
(* master's answer and the reads of the verdict loop) and SyncCommit (the  *)
(* transaction's writes, or its rollback on a constraint).                 *)
(*                                                                         *)
(* Time is abstracted to the two questions the code asks of the clock: is  *)
(* the job row older than COMPLETE_AFTER_SECONDS (aged) and is the         *)
(* youngest return (quiet).                                                *)
(***************************************************************************)
EXTENDS Naturals, FiniteSets, Sequences

CONSTANTS
    LaunchJids,     \* jids published by launch(); a jid is a timestamp
    OutsideJids,    \* jids fired outside the UI (master CLI, schedules)
    Minions,
    Target,         \* Target[j]: the ids the target expression of job j matches
    Sls,            \* SLS names that may be watched
    Payloads,       \* the state returns a minion may send
    NoRow,          \* a row that does not exist
    Syncers,        \* concurrent requests that call sync_job
    HistoryLimit,   \* HISTORY_LIMIT
    MaxClock        \* bound: ranks of started_at given out

Jids == LaunchJids \cup OutsideJids

Payload == [success: BOOLEAN, clean: SUBSET Sls, dirty: SUBSET Sls]

ASSUME JidsAreTimestamps == Jids \subseteq Nat \ {0}
ASSUME JidsAreDisjoint == LaunchJids \cap OutsideJids = {}
ASSUME TargetAssumption == Target \in [Jids -> SUBSET Minions]
ASSUME PayloadsAssumption == Payloads \subseteq Payload /\ NoRow \notin Payloads
ASSUME HistoryLimitAssumption == HistoryLimit \in Nat \ {0}
ASSUME MaxClockAssumption == MaxClock \in Nat

VARIABLES
    fleet,          \* minions whose key the masters have accepted
    sent,           \* jids the masters have published
    covered,        \* covered[j]: the minions job j was published to
    heard,          \* heard[j]: minions whose return reached a master
    forgot,         \* jids the masters' job cache has expired
    salt_returns,   \* the returner's transport table
    jobs,           \* jobs[j]: no row, a running row or a complete row
    tgt,            \* the target column of the job row
    started,        \* started_at, as a rank
    clock,          \* the last rank given out
    aged,           \* now - started_at > COMPLETE_AFTER_SECONDS
    quiet,          \* now - youngest alter_time > COMPLETE_AFTER_SECONDS
    job_returns,    \* the stored returns
    snapshot,       \* ids with a row in the minions table
    conformity,     \* the conformity column of those rows
    history,        \* state_conformity_history, oldest first
    watched,        \* the watched_states table
    syncs           \* the running sync_job calls

saltVars == <<fleet, sent, covered, heard, forgot, salt_returns>>
jobVars == <<jobs, tgt, started, clock, job_returns>>
timeVars == <<aged, quiet>>
stateVars == <<snapshot, conformity, history>>
vars == <<saltVars, jobVars, timeVars, stateVars, watched, syncs>>

-----------------------------------------------------------------------------
Row == Payloads \cup {NoRow}
NoRows == [m \in Minions |-> NoRow]
Recorded(rows) == {m \in Minions : rows[m] # NoRow}

Status == {"ok", "drifted", "unreachable"}
Verdict == [status: Status \cup {"unknown"}, jid: Jids \cup {0}]
NoVerdict == [status |-> "unknown", jid |-> 0]

\* A sync_job call.  "asking": it holds what it read and waits for the
\* master; "stamping": it holds what it will write.  seen is the part of the
\* minions table the verdict loop found.
Sync == [phase: {"idle", "asking", "stamping"}, jid: Jids \cup {0},
         job: {"absent", "running", "complete"}, rows: [Minions -> Row],
         stored: SUBSET Minions, start: 0..MaxClock, aged: BOOLEAN, quiet: BOOLEAN,
         complete: BOOLEAN, stamps: [Minions -> Status \cup {"skip"}],
         seen: SUBSET Minions]

\* The pruned trail of one minion.
Trail == {t \in Seq(Verdict) : Len(t) <= HistoryLimit}

NoStamps == [m \in Minions |-> "skip"]

Idle == [phase |-> "idle", jid |-> 0, job |-> "absent", rows |-> NoRows,
         stored |-> {}, start |-> 0, aged |-> FALSE, quiet |-> FALSE,
         complete |-> FALSE, stamps |-> NoStamps, seen |-> {}]

TypeOK ==
    /\ fleet \subseteq Minions
    /\ sent \subseteq Jids
    /\ covered \in [Jids -> SUBSET Minions]
    /\ heard \in [Jids -> SUBSET Minions]
    /\ forgot \subseteq Jids
    /\ salt_returns \in [Jids -> [Minions -> Row]]
    /\ jobs \in [Jids -> {"absent", "running", "complete"}]
    /\ tgt \in [Jids -> SUBSET Minions]
    /\ started \in [Jids -> 0..MaxClock]
    /\ clock \in 0..MaxClock
    /\ aged \in [Jids -> BOOLEAN]
    /\ quiet \in [Jids -> BOOLEAN]
    /\ job_returns \in [Jids -> [Minions -> Row]]
    /\ snapshot \subseteq Minions
    /\ conformity \in [Minions -> Verdict]
    /\ history \in [Minions -> Trail]
    /\ watched \subseteq Sls
    /\ syncs \in [Syncers -> Sync]

Init ==
    /\ fleet \in SUBSET Minions
    /\ sent = {}
    /\ covered = [j \in Jids |-> {}]
    /\ heard = [j \in Jids |-> {}]
    /\ forgot = {}
    /\ salt_returns = [j \in Jids |-> NoRows]
    /\ jobs = [j \in Jids |-> "absent"]
    /\ tgt = [j \in Jids |-> {}]
    /\ started = [j \in Jids |-> 0]
    /\ clock = 0
    /\ aged = [j \in Jids |-> FALSE]
    /\ quiet = [j \in Jids |-> FALSE]
    /\ job_returns = [j \in Jids |-> NoRows]
    /\ snapshot \in SUBSET fleet
    /\ conformity = [m \in Minions |-> NoVerdict]
    /\ history = [m \in Minions |-> <<>>]
    /\ watched = {}
    /\ syncs = [s \in Syncers |-> Idle]

-----------------------------------------------------------------------------
(* Publishing.  launch() publishes on every pod and only then inserts the   *)
(* job row, whose started_at is the transaction's start (server default     *)
(* now()), i.e. before the publish.  The masters match the target           *)
(* expression against the minions they have then; the row keeps the         *)
(* expression.                                                              *)

\* Job j goes out to the minions of the fleet that its expression matches.
Publish(j) ==
    /\ j \notin sent
    /\ \A k \in sent : k < j
    /\ sent' = sent \cup {j}
    /\ covered' = [covered EXCEPT ![j] = Target[j] \cap fleet]

LaunchPublish(j) ==
    /\ j \in LaunchJids
    /\ Publish(j)
    /\ clock < MaxClock
    /\ clock' = clock + 1
    /\ started' = [started EXCEPT ![j] = clock + 1]
    /\ UNCHANGED <<fleet, heard, forgot, salt_returns, jobs, tgt, job_returns,
                   timeVars, stateVars, watched, syncs>>

\* The insert.  When a sync discovered the jid first the insert violates the
\* primary key and the launch ends in an error page: nothing changes.
LaunchRecord(j) ==
    /\ j \in LaunchJids \cap sent
    /\ jobs[j] = "absent"
    /\ jobs' = [jobs EXCEPT ![j] = "running"]
    /\ tgt' = [tgt EXCEPT ![j] = Target[j]]
    /\ UNCHANGED <<saltVars, started, clock, job_returns, timeVars, stateVars,
                   watched, syncs>>

FireOutside(j) ==
    /\ j \in OutsideJids
    /\ Publish(j)
    /\ UNCHANGED <<fleet, heard, forgot, salt_returns, jobVars, timeVars,
                   stateVars, watched, syncs>>

-----------------------------------------------------------------------------
(* The masters.  pgjsonb_upsert writes one row per (jid, minion): the first *)
(* writer wins and the copies the cluster bus replicates are absorbed, so   *)
(* an existing row never changes.  With Postgres unavailable the return is  *)
(* dropped although the master has heard it.                                *)

returner(j, m, p) ==
    /\ j \in sent
    /\ m \in covered[j] \ heard[j]
    /\ heard' = [heard EXCEPT ![j] = @ \cup {m}]
    /\ salt_returns' = [salt_returns EXCEPT ![j][m] = p]
    /\ quiet' = [quiet EXCEPT ![j] = FALSE]
    /\ UNCHANGED <<fleet, sent, covered, forgot, jobVars, aged, stateVars,
                   watched, syncs>>

ReturnerDrops(j, m) ==
    /\ j \in sent
    /\ m \in covered[j] \ heard[j]
    /\ heard' = [heard EXCEPT ![j] = @ \cup {m}]
    /\ UNCHANGED <<fleet, sent, covered, forgot, salt_returns, jobVars, timeVars,
                   stateVars, watched, syncs>>

\* keep_jobs expires the jid from the job cache.
MasterForgets(j) ==
    /\ j \in sent \ forgot
    /\ forgot' = forgot \cup {j}
    /\ UNCHANGED <<fleet, sent, covered, heard, salt_returns, jobVars, timeVars,
                   stateVars, watched, syncs>>

\* COMPLETE_AFTER_SECONDS go by for a job row, or for its youngest return.
JobAges(j) ==
    /\ jobs[j] # "absent"
    /\ ~aged[j]
    /\ aged' = [aged EXCEPT ![j] = TRUE]
    /\ UNCHANGED <<saltVars, jobVars, quiet, stateVars, watched, syncs>>

ReturnsGoQuiet(j) ==
    /\ salt_returns[j] # NoRows
    /\ ~quiet[j]
    /\ quiet' = [quiet EXCEPT ![j] = TRUE]
    /\ UNCHANGED <<saltVars, jobVars, aged, stateVars, watched, syncs>>

\* What _master_minions(jid) may answer: nothing when the master is silent,
\* has forgotten the jid or has no return for it, else the ids it heard.
MasterAnswer(j) ==
    {{}} \cup (IF j \in forgot THEN {} ELSE {heard[j]})

-----------------------------------------------------------------------------
(* Verdicts.                                                                *)

\* _narrow_to_watched and its whole-job fallback: the verdict of a return.
ReturnStatus(p, wanted) ==
    LET matched == (p.clean \cup p.dirty) \cap wanted IN
    IF wanted # {} /\ matched # {}
    THEN IF p.dirty \cap wanted # {} THEN "drifted" ELSE "ok"
    ELSE IF p.success THEN "ok" ELSE "drifted"

\* Mutant: verdicts are written in the order syncs finish.
NobodyHoldsTheFloor(m, j, start) == FALSE

\* A newer job already has the floor.
HoldsTheFloor(m, j, start) ==
    LET e == conformity[m].jid IN
    /\ m \in snapshot
    /\ e \notin {0, j}
    /\ jobs[e] # "absent"
    /\ started[e] > start

\* Mutant: returns are judged only when the job completes.
VerdictsAtCompletion(j, start, target, rows, complete) ==
    [m \in Minions |->
        IF ~complete \/ HoldsTheFloor(m, j, start) THEN "skip"
        ELSE IF rows[m] # NoRow THEN ReturnStatus(rows[m], watched)
        ELSE IF m \in target \cap snapshot THEN "unreachable"
        ELSE "skip"]

\* The verdict loop of apply_sync_verdicts: for each touched minion the
\* status it will write, "skip" for the others.
apply_sync_verdicts(j, start, target, rows, complete) ==
    LET roster == target \cap snapshot
    IN  [m \in Minions |->
            IF HoldsTheFloor(m, j, start) THEN "skip"
            ELSE IF rows[m] # NoRow THEN ReturnStatus(rows[m], watched)
            ELSE IF complete /\ m \in roster THEN "unreachable"
            ELSE "skip"]

\* Mutant: nothing is pruned.
AppendHistory(trail, v) == Append(trail, v)

\* _record_history: append, then prune to the newest HISTORY_LIMIT.
RecordHistory(trail, v) ==
    LET t == Append(trail, v)
        n == Len(t)
    IN  IF n > HistoryLimit THEN SubSeq(t, n - HistoryLimit + 1, n) ELSE t

-----------------------------------------------------------------------------
(* sync_job                                                                 *)

\* Mutant: a complete job is synced like a running one.
SyncReadAlways(s, j) ==
    /\ syncs[s].phase = "idle"
    /\ salt_returns[j] # NoRows \/ jobs[j] = "running"
    /\ jobs[j] # "absent"
    /\ syncs' = [syncs EXCEPT ![s] =
                    [Idle EXCEPT !.phase = "asking", !.jid = j, !.job = jobs[j],
                                 !.rows = salt_returns[j],
                                 !.stored = Recorded(job_returns[j]),
                                 !.start = started[j],
                                 !.aged = aged[j], !.quiet = quiet[j]]]
    /\ UNCHANGED <<saltVars, jobVars, timeVars, stateVars, watched>>

\* Up to the call of _master_minions.  The early returns change nothing: no
\* returner row and either no job row or a complete one; or a complete job
\* with no new return.  A jid without a job row will get one that starts now.
SyncRead(s, j) ==
    LET rows == salt_returns[j]
        stored == Recorded(job_returns[j])
        found == jobs[j] = "absent"
        start == IF found THEN clock + 1 ELSE started[j]
    IN  /\ syncs[s].phase = "idle"
        /\ IF rows = NoRows
           THEN jobs[j] = "running"
           ELSE jobs[j] # "complete" \/ ~(Recorded(rows) \subseteq stored)
        /\ syncs' = [syncs EXCEPT ![s] =
                        [Idle EXCEPT !.phase = "asking", !.jid = j,
                                     !.job = jobs[j], !.rows = rows,
                                     !.stored = stored, !.start = start,
                                     !.aged = aged[j], !.quiet = quiet[j]]]
        /\ found => clock < MaxClock
        /\ clock' = IF found THEN clock + 1 ELSE clock
        /\ UNCHANGED <<saltVars, jobs, tgt, started, job_returns, timeVars,
                       stateVars, watched>>

\* Mutant: a job without returns waits for them.
CompletesOnReturns(y, known) ==
    /\ y.rows # NoRows
    /\ known \subseteq (y.stored \cup Recorded(y.rows))
    /\ y.quiet

\* Whether the job is complete once the master has answered.  Without
\* returner rows a job that is not done stays as it is.
Completes(y, known) ==
    IF y.rows = NoRows
    THEN known = {} /\ y.aged
    ELSE known \subseteq (y.stored \cup Recorded(y.rows)) /\ y.quiet

\* Mutant: a discovered job is taken to have targeted everyone.
TargetedAll(y) == IF y.job = "absent" THEN Minions ELSE tgt[y.jid]

\* The target expression of the loaded job row, as the ids it matches; the
\* verdict loop matches it against the minions table of that moment
\* (resolve_batch_roster), not against the minions it was published to.  A job
\* discovered from its returns has tgt "", which no minion id matches.
Targeted(y) == IF y.job = "absent" THEN {} ELSE tgt[y.jid]

\* The master's answer and the reads of the verdict loop.
SyncStamp(s) ==
    LET y == syncs[s]
    IN  /\ y.phase = "asking"
        /\ \E known \in MasterAnswer(y.jid) :
             LET done == Completes(y, known) IN
             syncs' = [syncs EXCEPT ![s] =
                IF y.rows = NoRows /\ ~done
                THEN Idle
                ELSE [y EXCEPT !.phase = "stamping", !.complete = done,
                        !.aged = FALSE, !.quiet = FALSE,
                        !.stamps = apply_sync_verdicts(y.jid, y.start,
                                            Targeted(y), y.rows, done),
                        !.seen = snapshot]]
        /\ UNCHANGED <<saltVars, jobVars, timeVars, stateVars, watched>>

Stamped(y) == {m \in Minions : y.stamps[m] # "skip"}
NewReturns(y) == Recorded(y.rows) \ y.stored

\* The insert of the job row or of a return hits a row another request
\* committed; the insert of a minion row hits one; or the update of a minion
\* row finds it deleted.
Conflicts(y) ==
    \/ y.job = "absent" /\ jobs[y.jid] # "absent"
    \/ \E m \in NewReturns(y) : job_returns[y.jid][m] # NoRow
    \/ \E m \in Stamped(y) : (m \in y.seen) # (m \in snapshot)

\* The flushes and the commit.  The ORM writes complete only when it differs
\* from the value the session loaded.
SyncCommit(s) ==
    LET y == syncs[s]
        j == y.jid
        verdict(m) == [status |-> y.stamps[m], jid |-> j]
    IN  /\ y.phase = "stamping"
        /\ ~Conflicts(y)
        /\ jobs' = [jobs EXCEPT ![j] =
                        IF y.complete = (y.job = "complete") /\ y.job # "absent"
                        THEN @
                        ELSE IF y.complete THEN "complete" ELSE "running"]
        /\ started' = [started EXCEPT ![j] = y.start]
        /\ job_returns' = [job_returns EXCEPT ![j] =
               [m \in Minions |-> IF y.rows[m] # NoRow THEN y.rows[m] ELSE @[m]]]
        /\ snapshot' = snapshot \cup Stamped(y)
        /\ conformity' = [m \in Minions |->
               IF m \in Stamped(y) THEN verdict(m) ELSE conformity[m]]
        /\ history' = [m \in Minions |->
               IF m \in Stamped(y) THEN RecordHistory(history[m], verdict(m))
               ELSE history[m]]
        /\ syncs' = [syncs EXCEPT ![s] = Idle]
        /\ UNCHANGED <<saltVars, tgt, clock, timeVars, watched>>

\* Mutant: the verdicts are committed on their own and survive the rollback.
SyncAbortKeepsVerdicts(s) ==
    LET y == syncs[s] IN
    /\ y.phase = "stamping"
    /\ Conflicts(y)
    /\ conformity' = [m \in Minions |->
           IF m \in Stamped(y) \cap snapshot
           THEN [status |-> y.stamps[m], jid |-> y.jid] ELSE conformity[m]]
    /\ syncs' = [syncs EXCEPT ![s] = Idle]
    /\ UNCHANGED <<saltVars, jobVars, timeVars, snapshot, history, watched>>

\* IntegrityError or StaleDataError: the whole transaction rolls back.
SyncAbort(s) ==
    /\ syncs[s].phase = "stamping"
    /\ Conflicts(syncs[s])
    /\ syncs' = [syncs EXCEPT ![s] = Idle]
    /\ UNCHANGED <<saltVars, jobVars, timeVars, stateVars, watched>>

-----------------------------------------------------------------------------
(* The States page and the minions table.                                   *)

watch(sls) ==
    /\ sls \notin watched
    /\ watched' = watched \cup {sls}
    /\ UNCHANGED <<saltVars, jobVars, timeVars, stateVars, syncs>>

unwatch(sls) ==
    /\ sls \in watched
    /\ watched' = watched \ {sls}
    /\ UNCHANGED <<saltVars, jobVars, timeVars, stateVars, syncs>>

\* Replays the stored returns of the most recently started state job.
recompute_conformity ==
    LET rowed == {j \in Jids : jobs[j] # "absent"} IN
    \E j \in rowed :
        LET returned == Recorded(job_returns[j])
            verdict(m) == [status |-> ReturnStatus(job_returns[j][m], watched),
                           jid |-> j]
        IN  /\ \A k \in rowed : started[k] <= started[j]
            /\ returned # {}
            /\ snapshot' = snapshot \cup returned
            /\ conformity' = [m \in Minions |->
                   IF m \in returned THEN verdict(m) ELSE conformity[m]]
            /\ history' = [m \in Minions |->
                   IF m \in returned THEN RecordHistory(history[m], verdict(m))
                   ELSE history[m]]
            /\ UNCHANGED <<saltVars, jobVars, timeVars, watched, syncs>>

\* A master accepts the key of a new minion.
MinionJoins(m) ==
    /\ m \notin fleet
    /\ fleet' = fleet \cup {m}
    /\ UNCHANGED <<sent, covered, heard, forgot, salt_returns, jobVars, timeVars,
                   stateVars, watched, syncs>>

\* The grains refresh creates the row of an accepted minion; a key delete
\* removes it with the key.
refresh_snapshots(m) ==
    /\ m \in fleet \ snapshot
    /\ snapshot' = snapshot \cup {m}
    /\ UNCHANGED <<saltVars, jobVars, timeVars, conformity, history, watched,
                   syncs>>

DeleteMinionRow(m) ==
    /\ m \in snapshot
    /\ fleet' = fleet \ {m}
    /\ snapshot' = snapshot \ {m}
    /\ conformity' = [conformity EXCEPT ![m] = NoVerdict]
    /\ UNCHANGED <<sent, covered, heard, forgot, salt_returns, jobVars, timeVars,
                   history, watched, syncs>>

-----------------------------------------------------------------------------
JobStep(j) ==
    \/ LaunchPublish(j) \/ LaunchRecord(j) \/ FireOutside(j)
    \/ \E m \in Minions, p \in Payloads : returner(j, m, p)
    \/ \E m \in Minions : ReturnerDrops(j, m)
    \/ MasterForgets(j) \/ JobAges(j) \/ ReturnsGoQuiet(j)

SyncStep(s) ==
    \/ \E j \in Jids : SyncRead(s, j)
    \/ SyncStamp(s) \/ SyncCommit(s) \/ SyncAbort(s)

PageStep ==
    \/ \E sls \in Sls : watch(sls) \/ unwatch(sls)
    \/ recompute_conformity
    \/ \E m \in Minions : MinionJoins(m) \/ refresh_snapshots(m) \/ DeleteMinionRow(m)

Next ==
    \/ \E j \in Jids : JobStep(j)
    \/ \E s \in Syncers : SyncStep(s)
    \/ PageStep

Spec == Init /\ [][Next]_vars

\* The same steps with requests served one at a time: a page that writes
\* verdicts never runs inside a sync.  Jobs and returns still interleave.
OneAtATime ==
    \/ \E j \in Jids : JobStep(j)
    \/ \E s \in Syncers : SyncStep(s)
    \/ (\A s \in Syncers : syncs[s].phase = "idle") /\ PageStep

LoneSpec == Init /\ [][OneAtATime]_vars

(***************************************************************************)
(* Fairness.  Clocks advance and keep_jobs expires.  The jobs page syncs   *)
(* the running jobs it lists on every view (jobs.py index) and a job page  *)
(* streams until its job completes, so a running job is read again and     *)
(* again; a complete one is not.  A request that has read goes on to its   *)
(* end, and constraint conflicts do not roll back every attempt for ever.  *)
(***************************************************************************)
PollRunning(j) == jobs[j] = "running" /\ \E s \in Syncers : SyncRead(s, j)

Fairness ==
    /\ \A j \in Jids : /\ WF_vars(JobAges(j))
                       /\ WF_vars(ReturnsGoQuiet(j))
                       /\ WF_vars(MasterForgets(j))
                       /\ SF_vars(PollRunning(j))
    /\ \A s \in Syncers : /\ WF_vars(SyncStamp(s))
                          /\ SF_vars(SyncCommit(s))
                          /\ WF_vars(SyncAbort(s))

FairLoneSpec == LoneSpec /\ Fairness

-----------------------------------------------------------------------------
(* Properties.                                                              *)

\* An ok or drifted verdict is backed by a stored return of that minion in
\* the job it links to: the return and the verdict land in one transaction
\* or not at all, whatever other requests commit in between.
VerdictBacked ==
    \A m \in Minions :
        conformity[m].status \in {"ok", "drifted"} =>
            LET r == job_returns[conformity[m].jid][m]
            IN  /\ r # NoRow
                /\ \E w \in SUBSET Sls : conformity[m].status = ReturnStatus(r, w)

\* "Only minions with a return in this job -- or provably targeted by it"
\* (apply_sync_verdicts), as far as the code keeps it: the job of an ok or
\* drifted verdict was published to the minion, and the job of an unreachable
\* one was published with a target expression that matches it; for jobs
\* discovered from their returns as well.  The second half does not say the
\* job was published to the minion: the expression is matched again when the
\* job completes, and a minion that joined since is called unreachable.
ChecksOnlyItsTarget ==
    \A m \in Minions :
        conformity[m] # NoVerdict =>
            LET j == conformity[m].jid
            IN  /\ j \in sent
                /\ m \in Target[j]
                /\ conformity[m].status \in {"ok", "drifted"} => m \in covered[j]
                /\ conformity[m].status = "unreachable" => m \in tgt[j]

\* "Once complete it stays sticky unless new minions report in" (sync_job): a
\* step that reopens a job also stores a return it did not have, even when
\* the reopening request read the job before others changed it.
StickyComplete ==
    [][\A j \in Jids :
          jobs[j] = "complete" /\ jobs'[j] # "complete" =>
              \E m \in Minions : job_returns[j][m] = NoRow /\ job_returns'[j][m] # NoRow]_vars

\* "Unreachable: the job targeted this minion but no return arrived"
\* (docs/guides/user.md): a minion whose return in a job is stored does not
\* keep that job's unreachable verdict.
ReturnedNotUnreachable ==
    \A m \in Minions :
        conformity[m].status = "unreachable" =>
            job_returns[conformity[m].jid][m] = NoRow

\* A step puts job k's verdict on a minion in place of job j's.
Supersedes(m, j, k) ==
    /\ conformity[m] # NoVerdict /\ conformity[m].jid = j
    /\ conformity'[m] # NoVerdict /\ conformity'[m].jid = k

\* "A verdict stamped by a newer job is never overwritten by an older job
\* completing out of order" (apply_sync_verdicts), in the order of started_at
\* that the code compares.
NewerVerdictKept ==
    [][\A m \in Minions, j, k \in Jids :
          Supersedes(m, j, k) => started[j] <= started[k]']_vars

\* Every job row completes for good: lost returns, a returner that drops rows
\* and a silent master delay sync_job's completion but never prevent it.
EventuallyComplete ==
    \A j \in Jids : jobs[j] # "absent" ~> [](jobs[j] = "complete")
=============================================================================
