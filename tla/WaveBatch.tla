------------------------------ MODULE WaveBatch ------------------------------
(***************************************************************************)
(* Gated wave batches: run_batched() (jobs_service.py) pins the roster,    *)
(* commits a parent row and queues run_wave_batch() (tasks_batch.py) on an *)
(* RQ worker, or runs it inside the request when Redis is down.  Each wave *)
(* checks the cancel flag, re-checks the defining user's grants, publishes *)
(* to every master pod, waits for the wave's returns and adds to a failure *)
(* count that stops the batch.                                             *)
(*                                                                         *)
(* An enqueue whose reply is lost leaves two processes with the same batch *)
(* (the twin): both publish the first wave, and the one that comes second  *)
(* ends at the insert of that wave's row.  The twin is followed that far:  *)
(* when only one of the two publishes fails the rows do not collide, and   *)
(* what the twin then does with the later waves is not modelled.           *)
(*                                                                         *)
(* The other actors are the user who cancels, the administrator who        *)
(* revokes grants, Redis, the minions, and what ends the process: the RQ   *)
(* job timeout, the gunicorn request timeout and crashes.  Time is counted *)
(* in ticks of the wave's polling loop.                                    *)
(***************************************************************************)
EXTENDS Naturals, FiniteSets, Sequences

CONSTANTS
    Setups,         \* the situations a batch may start in: rbac_mode(), the
                    \* minions the target matches in order, the batch settings
                    \* the form may ask for, whether Redis may be up, down,
                    \* whether the reply to an enqueue may be lost and whether
                    \* somebody may cancel
    Failing,        \* the minions whose return is a failure
    WaveTimeout,    \* wave_timeout, in ticks
    JobTimeout,     \* the RQ job timeout, in ticks
    RequestTimeout, \* the gunicorn worker timeout, in ticks
    CancelTTL,      \* BATCH_CANCEL_TTL, in ticks
    Crashes         \* whether the process may crash

RosterIds(roster) == {roster[i] : i \in 1..Len(roster)}
Minions == UNION {RosterIds(s.roster) : s \in Setups}
Batch == [mode: {"count", "percent"}, size: Nat \ {0}, stop_after: Nat \ {0}]

ASSUME SetupsAssumption ==
    \A s \in Setups :
        /\ s.mode \in {"legacy", "scoped"}
        /\ s.batches \subseteq Batch
        /\ s.redis \subseteq BOOLEAN
        /\ s.lossy \in BOOLEAN /\ s.cancels \in BOOLEAN
        /\ s.roster \in Seq(Minions)
        /\ \A i, k \in 1..Len(s.roster) : s.roster[i] = s.roster[k] => i = k
ASSUME FleetAssumption == IsFiniteSet(Minions)
ASSUME FailingAssumption == Failing \subseteq Minions
ASSUME TimeoutsAssumption ==
    WaveTimeout \in Nat /\ JobTimeout \in Nat /\ RequestTimeout \in Nat
ASSUME CancelTTLAssumption == CancelTTL \in Nat \ {0}
ASSUME CrashesAssumption == Crashes \in BOOLEAN

VARIABLES
    setup,      \* the situation the batch starts in; it does not change
    redis,      \* whether Redis answers
    flag,       \* the cancel flag in Redis
    age,        \* ticks since it was stored, CancelTTL once it has lapsed
    parked,     \* those of them the batch spent in the queue
    exists,     \* whether the defining user still exists
    run_grant,  \* minions_with(user, publish_perm(fun)), from the tables
    batch_grant,\* minions_with(user, "job.batch")
    batch_fleet,\* has_fleet(user, "job.batch")
    pc,         \* where the batch is
    inline,     \* runs inside the request: grants are read from flask.g
    memo,       \* the grants flask.g holds
    batch,      \* the settings asked for
    waves,      \* the pinned waves
    num,        \* the wave the loop is at
    targets,    \* the targets of that wave after the re-check
    waited,     \* ticks since the wave was published
    elapsed,    \* ticks since the process started
    failures, missing_total, status,    \* locals of run_wave_batch
    parent,     \* the parent row
    children,   \* the wave rows
    twin,       \* the second process of an enqueue whose reply was lost
    sent,       \* sent[n]: minions wave n was published to
    again,      \* minions the twin published the first wave to
    landed,     \* landed[n]: minions with a returner row under wave n's jid
    revoked,    \* revoked[m]: last wave that may reach m; 0 none, no limit Len+1
    late,       \* waves the process published since a cancel was acknowledged
    outage      \* Redis failed since the cancel was acknowledged

envVars == <<setup, redis, exists, run_grant, batch_grant, batch_fleet>>
cancelVars == <<flag, age, parked>>
runVars == <<inline, memo, batch, waves>>
loopVars == <<num, targets, waited, elapsed, failures, missing_total, status>>
rowVars == <<parent, children>>
saltVars == <<sent, landed>>
twinVars == <<twin, again>>
auxVars == <<revoked, late, outage>>
vars == <<envVars, cancelVars, pc, runVars, loopVars, rowVars, saltVars, twinVars,
          auxVars>>

mode == setup.mode
Roster == setup.roster
Targeted == RosterIds(Roster)

-----------------------------------------------------------------------------
Ceil(a, b) == (a + b - 1) \div b
AtLeastOne(n) == IF n < 1 THEN 1 ELSE n

\* The place of x in an ordered set of positions, and the positions in a slice.
Rank(kept, x) == Cardinality({y \in kept : y <= x})
Slice(kept, low, high) == {x \in kept : low < Rank(kept, x) /\ Rank(kept, x) <= high}

\* The size of a wave: a percentage rounds up.
WaveSize(n, how, size) ==
    AtLeastOne(IF how = "percent" THEN Ceil(n * size, 100) ELSE size)

\* Mutant: the slices share their boundary.
OverlappingSplit(roster, kept, how, size) ==
    LET n == Cardinality(kept)
        w == WaveSize(n, how, size)
    IN  [i \in 1..Ceil(n, w) |-> {roster[k] : k \in Slice(kept, ((i - 1) * w) - 1, i * w)}]

\* Mutant: the last, short slice is lost.
FloorSplit(roster, kept, how, size) ==
    LET n == Cardinality(kept)
        w == WaveSize(n, how, size)
    IN  [i \in 1..AtLeastOne(n \div w) |->
            {roster[k] : k \in Slice(kept, (i - 1) * w, i * w)}]

\* split_roster: slices of the ordered roster, the minions at the positions
\* that are kept of the target's.
split_roster(roster, kept, how, size) ==
    LET n == Cardinality(kept)
        w == WaveSize(n, how, size)
    IN  [i \in 1..Ceil(n, w) |-> {roster[k] : k \in Slice(kept, (i - 1) * w, i * w)}]

MaxWaves == Cardinality(Minions)
WaveNums == 1..MaxWaves
Statuses == {"running", "complete", "stopped", "cancelled"}
NoParent == [row |-> FALSE, complete |-> FALSE, status |-> "running",
             failures |-> 0, missing |-> 0, waves_done |-> 0]

TypeOK ==
    /\ setup \in Setups
    /\ redis \in BOOLEAN /\ flag \in BOOLEAN /\ exists \in BOOLEAN
    /\ batch_fleet \in BOOLEAN /\ inline \in BOOLEAN /\ outage \in BOOLEAN
    /\ run_grant \subseteq Minions /\ batch_grant \subseteq Minions /\ targets \subseteq Minions
    /\ memo \in [run: SUBSET Minions, batch: SUBSET Minions, fleet: BOOLEAN]
    /\ batch \in Batch
    /\ pc \in {"form", "saving", "queued", "wave", "publish", "polling",
               "finish", "returned", "raised", "killed"}
    /\ age \in 0..CancelTTL /\ parked \in 0..CancelTTL
    /\ twin \in {"none", "pending", "checked", "done"}
    /\ again \subseteq Minions
    /\ waves \in Seq(SUBSET Minions)
    /\ num \in 1..MaxWaves + 1
    /\ waited \in 0..WaveTimeout /\ elapsed \in Nat
    /\ failures \in 0..MaxWaves /\ missing_total \in 0..MaxWaves
    /\ status \in Statuses
    /\ parent \in [row: BOOLEAN, complete: BOOLEAN, status: Statuses,
                   failures: 0..MaxWaves, missing: 0..MaxWaves,
                   waves_done: 0..MaxWaves]
    /\ children \in [WaveNums -> {"none", "running", "failed"}]
    /\ sent \in [WaveNums -> SUBSET Minions]
    /\ landed \in [WaveNums -> SUBSET Minions]
    /\ revoked \in [Minions -> 0..MaxWaves + 1]
    /\ late \in 0..MaxWaves

Init ==
    /\ setup \in Setups
    /\ redis \in setup.redis
    /\ flag = FALSE /\ age = 0 /\ parked = 0 /\ exists = TRUE
    /\ twin = "none" /\ again = {}
    /\ run_grant \in SUBSET Targeted /\ batch_grant \in SUBSET Targeted
    /\ batch_fleet \in BOOLEAN
    /\ batch_fleet => batch_grant = Targeted
    /\ mode = "legacy" => batch_fleet /\ run_grant = Targeted
    /\ pc = "form"
    /\ inline = FALSE
    /\ memo = [run |-> {}, batch |-> {}, fleet |-> FALSE]
    /\ batch = [mode |-> "count", size |-> 1, stop_after |-> 1]
    /\ waves = <<>>
    /\ num = 1 /\ targets = {} /\ waited = 0 /\ elapsed = 0
    /\ failures = 0 /\ missing_total = 0 /\ status = "complete"
    /\ parent = NoParent
    /\ children = [n \in WaveNums |-> "none"]
    /\ sent = [n \in WaveNums |-> {}]
    /\ landed = [n \in WaveNums |-> {}]
    /\ revoked = [m \in Minions |-> MaxWaves + 1]
    /\ late = 0 /\ outage = FALSE

-----------------------------------------------------------------------------
(* run_batched                                                              *)

\* The roster, as positions among the target's minions: in scoped mode of
\* those the caller may run the function on.
PinnedRoster ==
    {i \in 1..Len(Roster) : mode = "scoped" => Roster[i] \in run_grant}

\* Up to the commit of the parent row.
run_batched(b) ==
    LET pinned == {Roster[i] : i \in PinnedRoster}
        split == split_roster(Roster, PinnedRoster, b.mode, b.size)
    IN  /\ pc = "form"
        /\ pinned # {}
        /\ mode = "scoped" => batch_fleet \/ pinned \subseteq batch_grant
        /\ batch' = b
        /\ waves' = split
        /\ parent' = [NoParent EXCEPT !.row = TRUE]
        /\ memo' = [run |-> run_grant, batch |-> batch_grant,
                    fleet |-> batch_fleet]
        /\ pc' = "saving"
        /\ UNCHANGED <<envVars, cancelVars, inline, loopVars, children, saltVars,
                       twinVars, auxVars>>

\* save_as names a saved job there is: the insert raises after the parent row
\* was committed and the request ends in an error page.
SaveAsConflict ==
    /\ pc = "saving"
    /\ pc' = "raised"
    /\ UNCHANGED <<envVars, cancelVars, runVars, loopVars, rowVars, saltVars,
                   twinVars, auxVars>>

\* queue_or_none: the job is queued, or Redis does not answer and the request
\* runs the batch itself.
queue_or_none ==
    /\ pc = "saving"
    /\ inline' = ~redis
    /\ pc' = IF redis THEN "queued" ELSE "wave"
    /\ UNCHANGED <<envVars, cancelVars, memo, batch, waves, loopVars, rowVars,
                   saltVars, twinVars, auxVars>>

\* The job is pushed and the reply lost: the request runs the batch, and so
\* does the worker that takes it.  Here the process is the one that commits
\* the row of the first wave, and the twin the other one.
EnqueueReplyLost ==
    /\ pc = "saving" /\ setup.lossy
    /\ \/ inline' = TRUE /\ pc' = "wave"
       \/ inline' = FALSE /\ pc' = "queued"
    /\ twin' = "pending"
    /\ UNCHANGED <<envVars, cancelVars, memo, batch, waves, loopVars, rowVars,
                   saltVars, again, auxVars>>

\* An RQ worker takes the job.
run_wave_batch_task ==
    /\ pc = "queued" /\ redis
    /\ pc' = "wave"
    /\ UNCHANGED <<envVars, cancelVars, runVars, loopVars, rowVars, saltVars,
                   twinVars, auxVars>>

-----------------------------------------------------------------------------
(* run_wave_batch                                                           *)

\* The process is alive: RQ and gunicorn end it at their timeouts.
Limit == IF inline THEN RequestTimeout ELSE JobTimeout
Alive == elapsed < Limit

Wave == waves[num]

\* minions_with for the defining user.  In a request _grant_entries keeps the
\* grants on flask.g, so an inline batch sees those of the request's start.
AllowedRun == IF ~exists THEN {} ELSE IF inline THEN memo.run ELSE run_grant
AllowedBatch == IF inline THEN memo.batch ELSE batch_grant
FleetBatch == IF inline THEN memo.fleet ELSE batch_fleet

batch_cancelled == redis /\ flag

\* A tick goes by: the flag lapses BATCH_CANCEL_TTL after it was stored.
FlagAges ==
    /\ age' = IF flag THEN age + 1 ELSE age
    /\ flag' = (flag /\ age + 1 < CancelTTL)

\* A cancel was acknowledged, whether or not its flag still stands.
Acknowledged == flag \/ age > 0

WaveCancelled ==
    /\ pc = "wave" /\ num <= Len(waves) /\ Alive
    /\ batch_cancelled
    /\ status' = "cancelled"
    /\ pc' = "finish"
    /\ UNCHANGED <<envVars, cancelVars, runVars, num, targets, waited, elapsed, failures,
                   missing_total, rowVars, saltVars, twinVars, auxVars>>

\* The scoped re-check stops the batch: the user is gone or lost the
\* permission everywhere, or a target left the user's job.batch scope.
WaveDenied ==
    /\ pc = "wave" /\ num <= Len(waves) /\ Alive
    /\ ~batch_cancelled
    /\ mode = "scoped"
    /\ \/ AllowedRun = {}
       \/ /\ Wave \cap AllowedRun # {}
          /\ ~FleetBatch
          /\ AllowedBatch = {} \/ ~(Wave \subseteq AllowedBatch)
    /\ status' = "stopped"
    /\ pc' = "finish"
    /\ UNCHANGED <<envVars, cancelVars, runVars, num, targets, waited, elapsed, failures,
                   missing_total, rowVars, saltVars, twinVars, auxVars>>

\* Every target of the wave left the user's scope: the next wave.
WaveSkipped ==
    /\ pc = "wave" /\ num <= Len(waves) /\ Alive
    /\ ~batch_cancelled
    /\ mode = "scoped"
    /\ AllowedRun # {} /\ Wave \cap AllowedRun = {}
    /\ num' = num + 1
    /\ UNCHANGED <<envVars, cancelVars, pc, runVars, targets, waited, elapsed, failures,
                   missing_total, status, rowVars, saltVars, twinVars, auxVars>>

\* Mutant: only the run permission is re-checked.
WaveKeptOnRunGrant ==
    /\ pc = "wave" /\ num <= Len(waves) /\ Alive
    /\ ~batch_cancelled
    /\ mode = "scoped" => Wave \cap AllowedRun # {}
    /\ targets' = IF mode = "scoped" THEN Wave \cap AllowedRun ELSE Wave
    /\ pc' = "publish"
    /\ UNCHANGED <<envVars, cancelVars, runVars, num, waited, elapsed, failures,
                   missing_total, status, rowVars, saltVars, twinVars, auxVars>>

\* Mutant: the cancel flag is not looked at.
WaveKeptOnCancel ==
    /\ pc = "wave" /\ num <= Len(waves) /\ Alive
    /\ mode = "scoped" =>
         /\ Wave \cap AllowedRun # {}
         /\ FleetBatch \/ Wave \subseteq AllowedBatch
    /\ targets' = IF mode = "scoped" THEN Wave \cap AllowedRun ELSE Wave
    /\ pc' = "publish"
    /\ UNCHANGED <<envVars, cancelVars, runVars, num, waited, elapsed, failures,
                   missing_total, status, rowVars, saltVars, twinVars, auxVars>>

\* The wave goes ahead with the targets still in scope.
WaveKept ==
    /\ pc = "wave" /\ num <= Len(waves) /\ Alive
    /\ ~batch_cancelled
    /\ mode = "scoped" =>
         /\ Wave \cap AllowedRun # {}
         /\ FleetBatch \/ Wave \subseteq AllowedBatch
    /\ targets' = IF mode = "scoped" THEN Wave \cap AllowedRun ELSE Wave
    /\ pc' = "publish"
    /\ UNCHANGED <<envVars, cancelVars, runVars, num, waited, elapsed, failures,
                   missing_total, status, rowVars, saltVars, twinVars, auxVars>>

\* publish_all_async reached at least one pod, and so the minions attached to
\* the pods that answered; the wave's row is committed.
WavePublished ==
    /\ pc = "publish" /\ Alive
    /\ \E reached \in SUBSET targets : sent' = [sent EXCEPT ![num] = reached]
    /\ late' = IF Acknowledged THEN late + 1 ELSE late
    /\ children' = [children EXCEPT ![num] = "running"]
    /\ waited' = 0
    /\ pc' = "polling"
    /\ UNCHANGED <<envVars, cancelVars, runVars, num, targets, elapsed, failures,
                   missing_total, status, parent, landed, twinVars, revoked, outage>>

\* The gate after a wave: stop, or go on to the next one.
Gate(charged) ==
    IF charged >= batch.stop_after
    THEN status' = "stopped" /\ pc' = "finish" /\ num' = num
    ELSE status' = status /\ pc' = "wave" /\ num' = num + 1

\* Mutant: a failed publish is counted but does not stop the batch.
WaveFailedGoesOn ==
    /\ pc = "publish" /\ Alive
    /\ children' = [children EXCEPT ![num] = "failed"]
    /\ failures' = failures + Cardinality(targets)
    /\ num' = num + 1 /\ pc' = "wave"
    /\ UNCHANGED <<envVars, cancelVars, runVars, targets, waited, elapsed, missing_total,
                   status, parent, saltVars, twinVars, auxVars>>

\* No pod answered.  A publish that timed out may still have reached Salt.
WaveFailed ==
    /\ pc = "publish" /\ Alive
    /\ \E reached \in SUBSET targets :
          /\ sent' = [sent EXCEPT ![num] = reached]
          /\ late' = IF Acknowledged /\ reached # {} THEN late + 1 ELSE late
    /\ children' = [children EXCEPT ![num] = "failed"]
    /\ failures' = failures + Cardinality(targets)
    /\ Gate(failures + Cardinality(targets))
    /\ UNCHANGED <<envVars, cancelVars, runVars, targets, waited, elapsed, missing_total,
                   parent, landed, twinVars, revoked, outage>>

\* A minion's return is stored by the masters under the wave's jid.
ReturnLands(n, m) ==
    /\ m \in sent[n] \ landed[n]
    /\ landed' = [landed EXCEPT ![n] = @ \cup {m}]
    /\ UNCHANGED <<envVars, cancelVars, pc, runVars, loopVars, rowVars, sent, twinVars, auxVars>>

\* The stored returns of a wave.  They are copied by sync_job, which returns
\* before it reads any row when the jid starts with a synthetic prefix, and
\* a wave's jid is batch-{group}-w{num}.
SyntheticPrefixes == {"batch", "orch", "ssh", "sync"}
WavePrefix == "batch"
WaveReturns(n) == IF WavePrefix \in SyntheticPrefixes THEN {} ELSE landed[n]

\* Mutant: the loop only ends when every return is stored.
WaveWaitsForAll ==
    /\ pc = "polling" /\ Alive
    /\ Cardinality(WaveReturns(num)) < Cardinality(targets)
    /\ waited' = waited + 1
    /\ elapsed' = elapsed + 1
    /\ FlagAges
    /\ UNCHANGED <<envVars, parked, pc, runVars, num, targets, failures, missing_total,
                   status, rowVars, saltVars, twinVars, auxVars>>

\* One turn of the polling loop: sync, count, sleep.
WaveWaits ==
    /\ pc = "polling" /\ Alive
    /\ Cardinality(WaveReturns(num)) < Cardinality(targets)
    /\ waited < WaveTimeout
    /\ waited' = waited + 1
    /\ elapsed' = elapsed + 1
    /\ FlagAges
    /\ UNCHANGED <<envVars, parked, pc, runVars, num, targets, failures, missing_total,
                   status, rowVars, saltVars, twinVars, auxVars>>

\* The wave is over: every return is stored or the deadline passed.  Stored
\* failures and targets without a stored return are charged alike.
WaveSettled ==
    LET missing == Cardinality(targets) - Cardinality(WaveReturns(num))
        wave_failures == Cardinality(WaveReturns(num) \cap Failing)
        charged == failures + wave_failures + missing
    IN
    /\ pc = "polling" /\ Alive
    /\ missing = 0 \/ waited >= WaveTimeout
    /\ missing_total' = missing_total + missing
    /\ failures' = charged
    /\ parent' = [parent EXCEPT !.failures = charged,
                                !.missing = missing_total + missing,
                                !.waves_done = num, !.status = "running"]
    /\ Gate(charged)
    /\ UNCHANGED <<envVars, cancelVars, runVars, targets, waited, elapsed, children,
                   saltVars, twinVars, auxVars>>

\* Mutant: only a batch that ran through completes its parent row.
BatchFinishedIfComplete ==
    /\ \/ pc = "finish"
       \/ pc = "wave" /\ num > Len(waves)
    /\ Alive
    /\ parent' = IF status = "complete"
                 THEN [parent EXCEPT !.complete = TRUE, !.status = status]
                 ELSE parent
    /\ pc' = "returned"
    /\ UNCHANGED <<envVars, cancelVars, runVars, loopVars, children, saltVars, twinVars, auxVars>>

\* The waves are through, or the loop was left.
BatchFinished ==
    /\ \/ pc = "finish"
       \/ pc = "wave" /\ num > Len(waves)
    /\ Alive
    /\ parent' = [parent EXCEPT !.complete = TRUE, !.status = status,
                                !.failures = failures, !.missing = missing_total]
    /\ pc' = "returned"
    /\ UNCHANGED <<envVars, cancelVars, runVars, loopVars, children, saltVars, twinVars, auxVars>>

Running == pc \in {"saving", "wave", "publish", "polling", "finish"}

\* The job timeout, the request timeout or a crash ends the process where it
\* is; nothing takes the batch up again.
Killed ==
    /\ Running
    /\ ~Alive \/ Crashes
    /\ pc' = "killed"
    /\ UNCHANGED <<envVars, cancelVars, runVars, loopVars, rowVars, saltVars, twinVars, auxVars>>

-----------------------------------------------------------------------------
(* The other actors                                                         *)

\* cancel_batch, when Redis stored the flag.  A repeat while it stands only
\* puts off the lapse and is left out.
request_batch_cancel ==
    /\ setup.cancels
    /\ parent.row /\ redis /\ ~flag
    /\ flag' = TRUE /\ age' = 0 /\ parked' = 0
    /\ late' = 0 /\ outage' = FALSE
    /\ UNCHANGED <<envVars, pc, runVars, loopVars, rowVars, saltVars, twinVars,
                   revoked>>

\* No worker takes the queued batch for a tick; the flag ages.
QueueWaits ==
    /\ pc = "queued" /\ flag
    /\ FlagAges
    /\ parked' = parked + 1
    /\ UNCHANGED <<envVars, pc, runVars, loopVars, rowVars, saltVars, twinVars,
                   auxVars>>

RedisFails ==
    /\ redis /\ parent.row
    /\ redis' = FALSE
    /\ outage' = (outage \/ flag)
    /\ UNCHANGED <<setup, cancelVars, exists, run_grant, batch_grant, batch_fleet,
                   pc, runVars, loopVars, rowVars, saltVars, twinVars, revoked,
                   late>>

RedisReturns ==
    /\ ~redis /\ parent.row
    /\ redis' = TRUE
    /\ UNCHANGED <<setup, cancelVars, exists, run_grant, batch_grant, batch_fleet,
                   pc, runVars, loopVars, rowVars, saltVars, twinVars, auxVars>>

\* The twin of a batch finds the cancel flag: it completes the parent row.
TwinCancelled ==
    /\ twin = "pending" /\ batch_cancelled
    /\ parent' = [parent EXCEPT !.complete = TRUE, !.status = "cancelled",
                                !.failures = 0, !.missing = 0]
    /\ twin' = "done"
    /\ UNCHANGED <<envVars, cancelVars, pc, runVars, loopVars, children, saltVars,
                   again, auxVars>>

TwinChecked ==
    /\ twin = "pending" /\ ~batch_cancelled
    /\ twin' = "checked"
    /\ UNCHANGED <<envVars, cancelVars, pc, runVars, loopVars, rowVars, saltVars,
                   again, auxVars>>

\* The twin publishes the first wave too; the insert of the wave's row violates
\* the primary key and the twin ends.
TwinPublished ==
    /\ twin = "checked"
    /\ children[1] # "none"
    /\ again' \in SUBSET waves[1]
    /\ twin' = "done"
    /\ UNCHANGED <<envVars, cancelVars, pc, runVars, loopVars, rowVars, saltVars,
                   auxVars>>

\* Grants only matter in scoped mode.
GrantsMove == parent.row /\ mode = "scoped"

\* The last wave that passed its re-check.
LastChecked == IF pc \in {"form", "saving", "queued", "wave"} THEN num - 1 ELSE num

\* From now on no later wave may reach these minions.
Limited(ms) ==
    [m \in Minions |->
        IF m \in ms /\ revoked[m] > LastChecked THEN LastChecked ELSE revoked[m]]

RevokeRun(m) ==
    /\ GrantsMove /\ m \in run_grant
    /\ run_grant' = run_grant \ {m}
    /\ revoked' = Limited({m})
    /\ UNCHANGED <<setup, redis, cancelVars, exists, batch_grant, batch_fleet, pc,
                   runVars, loopVars, rowVars, saltVars, twinVars, late, outage>>

RevokeBatch(m) ==
    /\ GrantsMove /\ m \in batch_grant /\ ~batch_fleet
    /\ batch_grant' = batch_grant \ {m}
    /\ revoked' = Limited({m})
    /\ UNCHANGED <<setup, redis, cancelVars, exists, run_grant, batch_fleet, pc,
                   runVars, loopVars, rowVars, saltVars, twinVars, late, outage>>

\* A fleet-wide job.batch grant is withdrawn.
RevokeFleet ==
    /\ GrantsMove /\ batch_fleet
    /\ batch_fleet' = FALSE
    /\ batch_grant' = {}
    /\ revoked' = Limited(Minions)
    /\ UNCHANGED <<setup, redis, cancelVars, exists, run_grant, pc, runVars, loopVars,
                   rowVars, saltVars, twinVars, late, outage>>

DeleteUser ==
    /\ GrantsMove /\ exists
    /\ exists' = FALSE
    /\ revoked' = Limited(Minions)
    /\ UNCHANGED <<setup, redis, cancelVars, run_grant, batch_grant, batch_fleet, pc,
                   runVars, loopVars, rowVars, saltVars, twinVars, late, outage>>

-----------------------------------------------------------------------------
Worker ==
    \/ WaveCancelled \/ WaveDenied \/ WaveSkipped \/ WaveKept
    \/ WavePublished \/ WaveFailed \/ WaveWaits \/ WaveSettled
    \/ BatchFinished \/ Killed

Twin == TwinCancelled \/ TwinChecked \/ TwinPublished

Request == SaveAsConflict \/ queue_or_none \/ EnqueueReplyLost

Next ==
    \/ \E b \in setup.batches : run_batched(b)
    \/ Request \/ run_wave_batch_task
    \/ Worker \/ Twin
    \/ \E n \in WaveNums, m \in Minions : ReturnLands(n, m)
    \/ request_batch_cancel \/ QueueWaits \/ RedisFails \/ RedisReturns
    \/ \E m \in Minions : RevokeRun(m) \/ RevokeBatch(m)
    \/ RevokeFleet \/ DeleteUser

Spec == Init /\ [][Next]_vars

\* Redis outages end and a worker takes queued jobs; a request or a process
\* that runs goes on until it returns or is killed.
FairSpec ==
    /\ Spec
    /\ WF_vars(RedisReturns) /\ SF_vars(run_wave_batch_task)
    /\ WF_vars(Request) /\ WF_vars(Worker)

-----------------------------------------------------------------------------
(* Properties                                                               *)

\* "The run pins the matching minions ... and executes wave by wave": no two
\* waves of a batch reach the same minion, whatever publishes failed or timed
\* out, and none reaches one outside the pinned roster.  A minion is published
\* to twice only when the reply to the enqueue was lost and the request and a
\* worker both run the batch.
EachMinionOnce ==
    /\ \A i, k \in WaveNums : i # k => sent[i] \cap sent[k] = {}
    /\ \A i \in WaveNums :
         sent[i] # {} => i <= Len(waves) /\ sent[i] \subseteq waves[i]
    /\ \A i \in WaveNums : sent[i] \cap again # {} => setup.lossy /\ twin # "none"

\* A batch that ends complete outside scoped mode has dealt with its whole
\* roster: every minion was in a wave that was published or recorded failed.
CompleteCoversRoster ==
    parent.complete /\ parent.status = "complete" /\ mode = "legacy" =>
        \A m \in Targeted : \E n \in 1..Len(waves) :
            m \in waves[n] /\ children[n] # "none"

\* "Stops early when failures reach your limit": a batch charges fewer than
\* stop_after failures before its last wave, so at most one wave's worth
\* more, and publishes nothing after that.
GateBoundsFailures ==
    failures > 0 =>
        /\ \E n \in 1..num :
             failures < batch.stop_after + Cardinality(waves[n])
        /\ failures >= batch.stop_after => pc \notin {"wave", "publish", "polling"}

\* "Cancel requested: no new waves will start": with Redis up, at most the one
\* wave that had already passed its check is published after the flag is set
\* by a process (a twin is a second process).  It holds for a flag that
\* was not left in the queue with its batch so long that it may lapse before
\* the process has ended: the flag lives BATCH_CANCEL_TTL, a process no longer
\* than its timeout, but nothing bounds the time in the queue.
CancelStopsWaves ==
    ~outage /\ parked + Limit < CancelTTL => late <= 1

\* "Drop ids that fell out of scope since the batch started": a wave of a
\* queued batch that is checked after a revocation never reaches the minion it
\* concerns.  An inline batch has no such bound: it reads the memoised grants.
RevocationHolds ==
    mode = "scoped" /\ ~inline =>
        \A n \in WaveNums : \A m \in sent[n] : n <= revoked[m]

\* "Silent minions trip the failure gate": a minion whose return landed before
\* its wave was settled is not counted missing.
MissingMeansSilent ==
    [][missing_total' # missing_total =>
          missing_total' <= missing_total + Cardinality(targets \ landed[num])]_vars

\* "The worker owns their completion": the parent row of a started batch is
\* completed unless the process was ended under it, or the request failed
\* between the commit of the row and the enqueue (a save_as name that is
\* taken): then no worker ever gets the batch and its row stays running.
BatchSettles == parent.row ~> parent.complete \/ pc \in {"killed", "raised"}
=============================================================================
