---------------------------- MODULE JobSyncProofs ----------------------------
(***************************************************************************)
(* What JobSync guarantees for any number of jobs, minions and concurrent  *)
(* sync_job calls.                                                         *)
(***************************************************************************)
EXTENDS JobSync, SequenceTheorems, TLAPS

-----------------------------------------------------------------------------
(* Facts about the operators.                                               *)

\* A request that runs no sync is a well-formed one.
LEMMA IdleType == Idle \in Sync
BY MaxClockAssumption DEF Idle, Sync, NoRows, NoStamps, Row

\* The history of a minion stays within HISTORY_LIMIT: _record_history
\* prunes what it appends to.
LEMMA RecordHistoryType ==
    ASSUME NEW t \in Trail, NEW v \in Verdict
    PROVE  RecordHistory(t, v) \in Trail
<1> DEFINE u == Append(t, v)
           n == Len(u)
<1>1. u \in Seq(Verdict) /\ n \in Nat /\ n <= HistoryLimit + 1
  BY HistoryLimitAssumption DEF Trail
<1>2. CASE n > HistoryLimit
  <2>1. \A i \in (n - HistoryLimit + 1)..n : u[i] \in Verdict
    BY <1>1, <1>2, HistoryLimitAssumption
  <2>2. /\ SubSeq(u, n - HistoryLimit + 1, n) \in Seq(Verdict)
        /\ Len(SubSeq(u, n - HistoryLimit + 1, n)) <= HistoryLimit
    <3> HIDE DEF u, n
    <3> QED  BY <1>1, <1>2, <2>1, SubSeqProperties, HistoryLimitAssumption
  <2> QED  BY <1>2, <2>2 DEF RecordHistory, Trail
<1>3. CASE ~(n > HistoryLimit)
  BY <1>1, <1>3, HistoryLimitAssumption DEF RecordHistory, Trail
<1> QED  BY <1>2, <1>3

\* A return is judged ok or drifted.
LEMMA ReturnStatusType ==
    ASSUME NEW p, NEW w
    PROVE  ReturnStatus(p, w) \in {"ok", "drifted"}
BY DEF ReturnStatus

\* The verdict loop writes statuses or skips.
LEMMA StampsType ==
    ASSUME NEW j, NEW start, NEW target, NEW rows, NEW complete
    PROVE  apply_sync_verdicts(j, start, target, rows, complete)
               \in [Minions -> Status \cup {"skip"}]
BY ReturnStatusType DEF apply_sync_verdicts, Status

-----------------------------------------------------------------------------
(* Type correctness.                                                        *)

LEMMA InitType == Init => TypeOK
<1> SUFFICES ASSUME Init PROVE TypeOK
  OBVIOUS
<1>1. NoRows \in [Minions -> Row]
  BY DEF NoRows, Row
<1>2. NoVerdict \in Verdict
  BY DEF NoVerdict, Verdict
<1>3. <<>> \in Trail
  BY HistoryLimitAssumption DEF Trail
<1> QED  BY <1>1, <1>2, <1>3, IdleType, MaxClockAssumption DEF Init, TypeOK

\* Steps of jobs, masters and clocks keep the types.
LEMMA JobStepType ==
    ASSUME TypeOK, NEW j \in Jids, JobStep(j)
    PROVE  TypeOK'
<1> USE DEF saltVars, jobVars, timeVars, stateVars
<1>1. CASE LaunchPublish(j)
  <2>1. /\ sent' = sent \cup {j} /\ fleet' = fleet
        /\ covered' = [covered EXCEPT ![j] = Target[j] \cap fleet]
    BY <1>1 DEF LaunchPublish, Publish
  <2>2. fleet' \subseteq Minions /\ sent' \subseteq Jids /\ covered' \in [Jids -> SUBSET Minions]
    BY <2>1 DEF TypeOK
  <2>3. clock' \in 0..MaxClock /\ started' \in [Jids -> 0..MaxClock]
    <3>1. /\ clock < MaxClock /\ clock' = clock + 1
          /\ started' = [started EXCEPT ![j] = clock + 1]
      BY <1>1 DEF LaunchPublish
    <3> QED  BY <3>1, MaxClockAssumption DEF TypeOK
  <2> QED  BY <1>1, <2>2, <2>3 DEF TypeOK, LaunchPublish
<1>2. CASE LaunchRecord(j)
  BY <1>2, TargetAssumption DEF TypeOK, LaunchRecord
<1>3. CASE FireOutside(j)
  <2>1. /\ sent' = sent \cup {j} /\ fleet' = fleet
        /\ covered' = [covered EXCEPT ![j] = Target[j] \cap fleet]
    BY <1>3 DEF FireOutside, Publish
  <2>2. fleet' \subseteq Minions /\ sent' \subseteq Jids /\ covered' \in [Jids -> SUBSET Minions]
    BY <2>1 DEF TypeOK
  <2> QED  BY <1>3, <2>2 DEF TypeOK, FireOutside
<1>4. ASSUME NEW m \in Minions, NEW p \in Payloads, returner(j, m, p)
      PROVE  TypeOK'
  BY <1>4 DEF TypeOK, returner, Row
<1>5. ASSUME NEW m \in Minions, ReturnerDrops(j, m)
      PROVE  TypeOK'
  BY <1>5 DEF TypeOK, ReturnerDrops
<1>6. CASE MasterForgets(j)
  BY <1>6 DEF TypeOK, MasterForgets
<1>7. CASE JobAges(j)
  BY <1>7 DEF TypeOK, JobAges
<1>8. CASE ReturnsGoQuiet(j)
  BY <1>8 DEF TypeOK, ReturnsGoQuiet
<1> QED  BY <1>1, <1>2, <1>3, <1>4, <1>5, <1>6, <1>7, <1>8 DEF JobStep

\* The steps of sync_job keep the types.
LEMMA SyncStepType ==
    ASSUME TypeOK, NEW s \in Syncers, SyncStep(s)
    PROVE  TypeOK'
<1> USE DEF saltVars, jobVars, timeVars, stateVars
<1> DEFINE y == syncs[s]
<1>y. y \in Sync
  BY DEF TypeOK
<1>1. ASSUME NEW j \in Jids, SyncRead(s, j)
      PROVE  TypeOK'
  <2> DEFINE found == jobs[j] = "absent"
             start == IF found THEN clock + 1 ELSE started[j]
             z == [Idle EXCEPT !.phase = "asking", !.jid = j, !.job = jobs[j],
                               !.rows = salt_returns[j],
                               !.stored = Recorded(job_returns[j]),
                               !.start = start,
                               !.aged = aged[j], !.quiet = quiet[j]]
  <2>1. start \in 0..MaxClock /\ clock' \in 0..MaxClock
    BY <1>1, MaxClockAssumption DEF TypeOK, SyncRead
  <2>2. z \in Sync
    <3>1. Recorded(job_returns[j]) \in SUBSET Minions
      BY DEF Recorded
    <3>2. /\ jobs[j] \in {"absent", "running", "complete"}
          /\ salt_returns[j] \in [Minions -> Row]
          /\ aged[j] \in BOOLEAN /\ quiet[j] \in BOOLEAN
      BY DEF TypeOK
    <3> HIDE DEF start
    <3> QED  BY <2>1, <3>1, <3>2, IdleType DEF Sync
  <2>3. syncs' = [syncs EXCEPT ![s] = z]
    BY <1>1 DEF SyncRead
  <2> HIDE DEF z
  <2> QED  BY <1>1, <2>1, <2>2, <2>3 DEF TypeOK, SyncRead
<1>2. CASE SyncStamp(s)
  <2>1. PICK known \in MasterAnswer(y.jid) :
          LET done == Completes(y, known) IN
          syncs' = [syncs EXCEPT ![s] =
             IF y.rows = NoRows /\ ~done
             THEN Idle
             ELSE [y EXCEPT !.phase = "stamping", !.complete = done,
                     !.aged = FALSE, !.quiet = FALSE,
                     !.stamps = apply_sync_verdicts(y.jid, y.start,
                                         Targeted(y), y.rows, done),
                     !.seen = snapshot]]
    BY <1>2 DEF SyncStamp
  <2> DEFINE done == Completes(y, known)
             stamps == apply_sync_verdicts(y.jid, y.start, Targeted(y), y.rows, done)
             z == [y EXCEPT !.phase = "stamping", !.complete = done,
                     !.aged = FALSE, !.quiet = FALSE,
                     !.stamps = stamps, !.seen = snapshot]
  <2>2. z \in Sync
    <3>1. stamps \in [Minions -> Status \cup {"skip"}]
      BY StampsType
    <3>2. done \in BOOLEAN
      BY <1>y DEF Completes, Sync
    <3>3. snapshot \in SUBSET Minions
      BY DEF TypeOK
    <3> HIDE DEF stamps, done, y
    <3> QED  BY <1>y, <3>1, <3>2, <3>3 DEF Sync
  <2>3. syncs' \in [Syncers -> Sync]
    <3> HIDE DEF z, y
    <3>1. syncs' = [syncs EXCEPT ![s] = IF y.rows = NoRows /\ ~done THEN Idle ELSE z]
      BY <2>1 DEF z, y
    <3> QED  BY <2>2, <3>1, IdleType DEF TypeOK
  <2> QED  BY <1>2, <2>3 DEF TypeOK, SyncStamp
<1>3. CASE SyncCommit(s)
  <2> DEFINE j == y.jid
             verdict(m) == [status |-> y.stamps[m], jid |-> j]
  <2>1. \A m \in Stamped(y) : verdict(m) \in Verdict
    BY <1>y DEF Stamped, Verdict, Sync
  <2>2. history' \in [Minions -> Trail]
    <3>1. history' = [m \in Minions |->
               IF m \in Stamped(y) THEN RecordHistory(history[m], verdict(m))
               ELSE history[m]]
      BY <1>3 DEF SyncCommit
    <3> HIDE DEF y, verdict
    <3> QED  BY <2>1, <3>1, RecordHistoryType DEF TypeOK
  <2>3. conformity' \in [Minions -> Verdict]
    <3>1. conformity' = [m \in Minions |->
               IF m \in Stamped(y) THEN verdict(m) ELSE conformity[m]]
      BY <1>3 DEF SyncCommit
    <3> HIDE DEF y, verdict
    <3> QED  BY <2>1, <3>1 DEF TypeOK
  <2>4. snapshot' \subseteq Minions
    BY <1>3 DEF SyncCommit, TypeOK, Stamped
  <2>5. jobs' \in [Jids -> {"absent", "running", "complete"}]
    BY <1>3 DEF SyncCommit, TypeOK
  <2>6. started' \in [Jids -> 0..MaxClock]
    BY <1>3, <1>y DEF SyncCommit, TypeOK, Sync
  <2>7. job_returns' \in [Jids -> [Minions -> Row]]
    <3>1. job_returns' = [job_returns EXCEPT ![j] =
               [m \in Minions |-> IF y.rows[m] # NoRow THEN y.rows[m] ELSE @[m]]]
      BY <1>3 DEF SyncCommit
    <3>2. \A m \in Minions : y.rows[m] \in Row
      BY <1>y DEF Sync
    <3> HIDE DEF y, j
    <3> QED  BY <3>1, <3>2 DEF TypeOK
  <2>8. syncs' \in [Syncers -> Sync]
    BY <1>3, IdleType DEF SyncCommit, TypeOK
  <2> QED  BY <1>3, <2>2, <2>3, <2>4, <2>5, <2>6, <2>7, <2>8 DEF TypeOK, SyncCommit
<1>4. CASE SyncAbort(s)
  BY <1>4, IdleType DEF TypeOK, SyncAbort
<1> QED  BY <1>1, <1>2, <1>3, <1>4 DEF SyncStep

\* The States page and changes of the minions table keep the types.
LEMMA PageStepType ==
    ASSUME TypeOK, PageStep
    PROVE  TypeOK'
<1> USE DEF saltVars, jobVars, timeVars, stateVars
<1>1. ASSUME NEW sls \in Sls, watch(sls) \/ unwatch(sls)
      PROVE  TypeOK'
  BY <1>1 DEF TypeOK, watch, unwatch
<1>2. CASE recompute_conformity
  <2>1. PICK j \in Jids :
          LET returned == Recorded(job_returns[j])
              verdict(m) == [status |-> ReturnStatus(job_returns[j][m], watched),
                             jid |-> j]
          IN  /\ snapshot' = snapshot \cup returned
              /\ conformity' = [m \in Minions |->
                     IF m \in returned THEN verdict(m) ELSE conformity[m]]
              /\ history' = [m \in Minions |->
                     IF m \in returned THEN RecordHistory(history[m], verdict(m))
                     ELSE history[m]]
              /\ UNCHANGED <<saltVars, jobVars, timeVars, watched, syncs>>
    BY <1>2 DEF recompute_conformity
  <2> DEFINE verdict(m) == [status |-> ReturnStatus(job_returns[j][m], watched),
                            jid |-> j]
  <2>2. \A m : verdict(m) \in Verdict
    BY ReturnStatusType DEF Verdict, Status
  <2>3. history' \in [Minions -> Trail] /\ conformity' \in [Minions -> Verdict]
    <3>1. /\ conformity' = [m \in Minions |->
                 IF m \in Recorded(job_returns[j]) THEN verdict(m) ELSE conformity[m]]
          /\ history' = [m \in Minions |->
                 IF m \in Recorded(job_returns[j])
                 THEN RecordHistory(history[m], verdict(m)) ELSE history[m]]
      BY <2>1
    <3> HIDE DEF verdict
    <3> QED  BY <2>2, <3>1, RecordHistoryType DEF TypeOK
  <2>4. snapshot' \subseteq Minions
    BY <2>1 DEF TypeOK, Recorded
  <2> QED  BY <2>1, <2>3, <2>4 DEF TypeOK
<1>3. ASSUME NEW m \in Minions, refresh_snapshots(m) \/ DeleteMinionRow(m)
      PROVE  TypeOK'
  <2>1. NoVerdict \in Verdict
    BY DEF NoVerdict, Verdict
  <2> QED  BY <1>3, <2>1 DEF TypeOK, refresh_snapshots, DeleteMinionRow
<1>4. ASSUME NEW m \in Minions, MinionJoins(m)
      PROVE  TypeOK'
  BY <1>4 DEF TypeOK, MinionJoins
<1> QED  BY <1>1, <1>2, <1>3, <1>4 DEF PageStep

\* Every step keeps the types.
LEMMA NextType == TypeOK /\ [Next]_vars => TypeOK'
<1>1. ASSUME TypeOK, UNCHANGED vars PROVE TypeOK'
  BY <1>1 DEF TypeOK, vars, saltVars, jobVars, timeVars, stateVars
<1> QED  BY <1>1, JobStepType, SyncStepType, PageStepType DEF Next

\* Type correctness of the sync of returns, whatever requests interleave; it
\* includes that no minion's history outgrows HISTORY_LIMIT.
THEOREM TypeCorrect == Spec => []TypeOK
BY InitType, NextType, PTL DEF Spec

-----------------------------------------------------------------------------
(* The inductive invariant.  Neither VerdictBacked nor ChecksOnlyItsTarget  *)
(* says anything of a sync that has read but not yet written; what makes    *)
(* the write safe is what the request still holds.                          *)

\* A returner row belongs to a minion the job was published to and that was
\* heard.
RowsGenuine ==
    \A j \in Jids, m \in Minions :
        salt_returns[j][m] # NoRow =>
            j \in sent /\ m \in covered[j] /\ m \in heard[j]

\* A stored return is the returner's.
StoredAsReturned ==
    \A j \in Jids, m \in Minions :
        job_returns[j][m] # NoRow => job_returns[j][m] = salt_returns[j][m]

\* A job is published to minions its expression matches, and the recorded
\* expression is the published one.
TargetRecorded ==
    /\ \A j \in Jids : covered[j] \subseteq Target[j]
    /\ \A j \in Jids : \A m \in tgt[j] : j \in sent /\ m \in Target[j]

\* The returns a request holds are still the returner's.
HoldsReturns(y) ==
    y.phase # "idle" =>
        /\ y.jid \in Jids
        /\ \A m \in Minions :
              y.rows[m] # NoRow => y.rows[m] = salt_returns[y.jid][m]

\* A request that loaded a complete job holds a return it did not find stored.
HoldsNews(y) ==
    y.phase # "idle" /\ y.job = "complete" => NewReturns(y) # {}

\* The verdicts a request is about to write are those of the returns it holds
\* or say of a minion the recorded target matches that it is unreachable.
HoldsVerdicts(y) ==
    y.phase = "stamping" =>
        \A m \in Minions :
            /\ y.stamps[m] \in {"ok", "drifted"} =>
                 /\ y.rows[m] # NoRow
                 /\ \E w \in SUBSET Sls : y.stamps[m] = ReturnStatus(y.rows[m], w)
            /\ y.stamps[m] = "unreachable" =>
                 y.jid \in sent /\ m \in Target[y.jid] /\ m \in tgt[y.jid]

SyncsSound ==
    \A s \in Syncers :
        HoldsReturns(syncs[s]) /\ HoldsNews(syncs[s]) /\ HoldsVerdicts(syncs[s])

IInv ==
    /\ TypeOK
    /\ RowsGenuine
    /\ StoredAsReturned
    /\ TargetRecorded
    /\ SyncsSound
    /\ VerdictBacked
    /\ ChecksOnlyItsTarget

LEMMA InitInv == Init => IInv
<1> SUFFICES ASSUME Init PROVE IInv
  OBVIOUS
<1>1. TypeOK
  BY InitType
<1>2. RowsGenuine /\ StoredAsReturned /\ TargetRecorded
  BY DEF Init, RowsGenuine, StoredAsReturned, TargetRecorded, NoRows
<1>3. SyncsSound
  BY DEF Init, SyncsSound, HoldsReturns, HoldsNews, HoldsVerdicts, Idle
<1>4. VerdictBacked /\ ChecksOnlyItsTarget
  BY DEF Init, VerdictBacked, ChecksOnlyItsTarget, NoVerdict
<1> QED  BY <1>1, <1>2, <1>3, <1>4 DEF IInv

\* What every step does to the tables: published jobs stay published, to the
\* same minions, a recorded target is not forgotten and a returner row is never
\* rewritten (ON CONFLICT DO NOTHING).
Grows ==
    /\ sent \subseteq sent'
    /\ \A j \in sent : covered'[j] = covered[j]
    /\ \A j \in Jids : tgt[j] \subseteq tgt'[j]
    /\ \A j \in Jids, m \in Minions :
          salt_returns[j][m] # NoRow => salt_returns'[j][m] = salt_returns[j][m]

\* A request that a step leaves alone stays sound when the tables grow.
LEMMA UntouchedSync ==
    ASSUME IInv, Grows, NEW s \in Syncers, syncs'[s] = syncs[s]
    PROVE  (HoldsReturns(syncs[s]) /\ HoldsNews(syncs[s]) /\ HoldsVerdicts(syncs[s]))'
<1> DEFINE y == syncs[s]
<1>1. HoldsReturns(y) /\ HoldsNews(y) /\ HoldsVerdicts(y)
  BY DEF IInv, SyncsSound
<1>2. HoldsReturns(y)'
  BY <1>1 DEF HoldsReturns, Grows
<1>3. HoldsNews(y)'
  BY <1>1 DEF HoldsNews, NewReturns, Recorded
<1>5. sent \subseteq Jids
  BY DEF IInv, TypeOK
<1>4. HoldsVerdicts(y)'
  BY <1>1, <1>5 DEF HoldsVerdicts, Grows
<1> QED  BY <1>2, <1>3, <1>4

\* An idle request has nothing to be unsound about.
LEMMA IdleSound == HoldsReturns(Idle) /\ HoldsNews(Idle) /\ HoldsVerdicts(Idle)
BY DEF HoldsReturns, HoldsNews, HoldsVerdicts, Idle

\* A verdict that a step leaves alone stays backed and targeted as long as
\* the stored return of its job is kept.
LEMMA UntouchedVerdict ==
    ASSUME IInv, Grows, NEW m \in Minions,
           conformity'[m] = conformity[m],
           \A j \in Jids : job_returns[j][m] # NoRow =>
                               job_returns'[j][m] = job_returns[j][m]
    PROVE  /\ conformity'[m].status \in {"ok", "drifted"} =>
                LET r == job_returns'[conformity'[m].jid][m]
                IN  /\ r # NoRow
                    /\ \E w \in SUBSET Sls : conformity'[m].status = ReturnStatus(r, w)
           /\ conformity'[m] # NoVerdict =>
                /\ conformity'[m].jid \in sent'
                /\ m \in Target[conformity'[m].jid]
                /\ conformity'[m].status \in {"ok", "drifted"} =>
                     m \in covered'[conformity'[m].jid]
                /\ conformity'[m].status = "unreachable" => m \in tgt'[conformity'[m].jid]
<1>1. conformity[m] # NoVerdict =>
          /\ conformity[m].jid \in sent
          /\ m \in Target[conformity[m].jid]
          /\ conformity[m].status \in {"ok", "drifted"} => m \in covered[conformity[m].jid]
          /\ conformity[m].status = "unreachable" => m \in tgt[conformity[m].jid]
  BY DEF IInv, ChecksOnlyItsTarget
<1>3. sent \subseteq Jids
  BY DEF IInv, TypeOK
<1>2. ASSUME conformity[m].status \in {"ok", "drifted"}
      PROVE  LET r == job_returns'[conformity[m].jid][m]
             IN  /\ r # NoRow
                 /\ \E w \in SUBSET Sls : conformity[m].status = ReturnStatus(r, w)
  <2>1. conformity[m] # NoVerdict
    BY <1>2 DEF NoVerdict
  <2>2. conformity[m].jid \in Jids
    BY <1>1, <2>1 DEF IInv, TypeOK
  <2>3. LET r == job_returns[conformity[m].jid][m]
        IN  /\ r # NoRow
            /\ \E w \in SUBSET Sls : conformity[m].status = ReturnStatus(r, w)
    BY <1>2 DEF IInv, VerdictBacked
  <2> QED  BY <2>2, <2>3
<1> QED  BY <1>1, <1>2, <1>3 DEF Grows

\* Steps of jobs, masters and clocks keep the invariant.
LEMMA JobStepInv ==
    ASSUME IInv, NEW j \in Jids, JobStep(j)
    PROVE  IInv'
<1> USE DEF saltVars, jobVars, timeVars, stateVars
<1>t. TypeOK' /\ TypeOK
  BY JobStepType DEF IInv
<1>1. UNCHANGED <<job_returns, conformity, syncs>>
  BY DEF JobStep, LaunchPublish, LaunchRecord, FireOutside, Publish, returner,
         ReturnerDrops, MasterForgets, JobAges, ReturnsGoQuiet
<1>2. Grows
  <2>1. sent \subseteq sent'
    BY DEF JobStep, LaunchPublish, LaunchRecord, FireOutside, Publish, returner,
           ReturnerDrops, MasterForgets, JobAges, ReturnsGoQuiet
  <2>2. ASSUME NEW n \in Minions, NEW p \in Payloads, returner(j, n, p),
               NEW i \in Jids, NEW m \in Minions, salt_returns[i][m] # NoRow
        PROVE  salt_returns'[i][m] = salt_returns[i][m]
    <3>1. ~(i = j /\ m = n)
      BY <2>2 DEF returner, IInv, RowsGenuine
    <3> QED  BY <2>2, <3>1, <1>t DEF returner, TypeOK
  <2>3. (\E n \in Minions, p \in Payloads : returner(j, n, p)) \/ UNCHANGED salt_returns
    BY DEF JobStep, LaunchPublish, LaunchRecord, FireOutside,
           ReturnerDrops, MasterForgets, JobAges, ReturnsGoQuiet
  <2>4. \A i \in sent : covered'[i] = covered[i]
    <3>1. \/ UNCHANGED covered
          \/ j \notin sent /\ covered' = [covered EXCEPT ![j] = Target[j] \cap fleet]
      BY DEF JobStep, LaunchPublish, LaunchRecord, FireOutside, Publish, returner,
             ReturnerDrops, MasterForgets, JobAges, ReturnsGoQuiet
    <3> QED  BY <3>1, <1>t DEF TypeOK
  <2>5. \A i \in Jids : tgt[i] \subseteq tgt'[i]
    <3>1. CASE LaunchRecord(j)
      BY <3>1, <1>t, TargetAssumption DEF LaunchRecord, IInv, TargetRecorded, TypeOK
    <3>2. LaunchRecord(j) \/ UNCHANGED tgt
      BY DEF JobStep, LaunchPublish, FireOutside, returner,
             ReturnerDrops, MasterForgets, JobAges, ReturnsGoQuiet
    <3> QED  BY <3>1, <3>2
  <2> QED  BY <2>1, <2>2, <2>3, <2>4, <2>5 DEF Grows
<1>3. RowsGenuine'
  <2>1. ASSUME NEW n \in Minions, NEW p \in Payloads, returner(j, n, p)
        PROVE  RowsGenuine'
    BY <2>1, <1>t DEF returner, IInv, RowsGenuine, TypeOK
  <2>2. ASSUME UNCHANGED salt_returns
        PROVE  RowsGenuine'
    <3>1. \/ UNCHANGED heard
          \/ \E n \in Minions : heard' = [heard EXCEPT ![j] = @ \cup {n}]
      BY DEF JobStep, LaunchPublish, LaunchRecord, FireOutside, Publish, returner,
             ReturnerDrops, MasterForgets, JobAges, ReturnsGoQuiet
    <3>2. heard \in [Jids -> SUBSET Minions]
      BY <1>t DEF TypeOK
    <3>3. \A i \in Jids : heard[i] \subseteq heard'[i]
      BY <3>1, <3>2
    <3> QED  BY <1>2, <2>2, <3>3 DEF IInv, RowsGenuine, Grows
  <2>3. (\E n \in Minions, p \in Payloads : returner(j, n, p)) \/ UNCHANGED salt_returns
    BY DEF JobStep, LaunchPublish, LaunchRecord, FireOutside,
           ReturnerDrops, MasterForgets, JobAges, ReturnsGoQuiet
  <2> QED  BY <2>1, <2>2, <2>3
<1>4. StoredAsReturned'
  <2> SUFFICES ASSUME NEW i \in Jids, NEW m \in Minions, job_returns[i][m] # NoRow
               PROVE  job_returns[i][m] = salt_returns'[i][m]
    BY <1>1 DEF StoredAsReturned
  <2> QED  BY <1>2 DEF IInv, StoredAsReturned, Grows
<1>5. TargetRecorded'
  <2>1. CASE LaunchRecord(j)
    BY <2>1, <1>t, TargetAssumption DEF LaunchRecord, IInv, TargetRecorded, TypeOK
  <2>2. ASSUME UNCHANGED tgt
        PROVE  \A i \in Jids : \A m \in tgt'[i] : i \in sent' /\ m \in Target[i]
    BY <2>2, <1>2 DEF IInv, TargetRecorded, Grows
  <2>3. LaunchRecord(j) \/ UNCHANGED tgt
    BY DEF JobStep, LaunchPublish, FireOutside, returner,
           ReturnerDrops, MasterForgets, JobAges, ReturnsGoQuiet
  <2>4. \A i \in Jids : covered'[i] \subseteq Target[i]
    <3>1. \/ UNCHANGED covered
          \/ covered' = [covered EXCEPT ![j] = Target[j] \cap fleet]
      BY DEF JobStep, LaunchPublish, LaunchRecord, FireOutside, Publish, returner,
             ReturnerDrops, MasterForgets, JobAges, ReturnsGoQuiet
    <3>2. covered \in [Jids -> SUBSET Minions] /\ \A i \in Jids : covered[i] \subseteq Target[i]
      BY <1>t DEF TypeOK, IInv, TargetRecorded
    <3> QED  BY <3>1, <3>2
  <2> QED  BY <2>1, <2>2, <2>3, <2>4 DEF TargetRecorded
<1>6. SyncsSound'
  BY <1>1, <1>2, UntouchedSync DEF SyncsSound
<1>7. VerdictBacked' /\ ChecksOnlyItsTarget'
  BY <1>1, <1>2, UntouchedVerdict DEF VerdictBacked, ChecksOnlyItsTarget, Grows
<1> QED  BY <1>t, <1>3, <1>4, <1>5, <1>6, <1>7 DEF IInv

\* sync_job reads: the request now holds the returner's rows and, when the
\* job is complete, one that is not stored.
LEMMA SyncReadInv ==
    ASSUME IInv, NEW s \in Syncers, NEW j \in Jids, SyncRead(s, j)
    PROVE  IInv'
<1> USE DEF saltVars, jobVars, timeVars, stateVars
<1>t. TypeOK' /\ TypeOK
  BY SyncStepType DEF IInv, SyncStep
<1>1. UNCHANGED <<sent, covered, heard, salt_returns, tgt, job_returns, conformity>>
  BY DEF SyncRead
<1>2. Grows
  BY <1>1 DEF Grows
<1>3. \A r \in Syncers \ {s} : syncs'[r] = syncs[r]
  BY <1>t DEF SyncRead, TypeOK
<1> DEFINE y == syncs'[s]
<1>4. /\ y.phase = "asking" /\ y.jid = j /\ y.job = jobs[j]
      /\ y.rows = salt_returns[j] /\ y.stored = Recorded(job_returns[j])
  BY <1>t DEF SyncRead, TypeOK, Idle
<1>5. jobs[j] = "complete" => ~(Recorded(salt_returns[j]) \subseteq Recorded(job_returns[j]))
  BY DEF SyncRead
<1>6. (HoldsReturns(syncs[s]) /\ HoldsNews(syncs[s]) /\ HoldsVerdicts(syncs[s]))'
  BY <1>1, <1>4, <1>5 DEF HoldsReturns, HoldsNews, HoldsVerdicts, NewReturns, Recorded
<1>7. SyncsSound'
  BY <1>2, <1>3, <1>6, UntouchedSync DEF SyncsSound
<1>8. VerdictBacked' /\ ChecksOnlyItsTarget'
  BY <1>1, <1>2, UntouchedVerdict DEF VerdictBacked, ChecksOnlyItsTarget, Grows
<1>9. RowsGenuine' /\ StoredAsReturned' /\ TargetRecorded'
  BY <1>1 DEF IInv, RowsGenuine, StoredAsReturned, TargetRecorded
<1> QED  BY <1>t, <1>7, <1>8, <1>9 DEF IInv

\* What the verdict loop writes about a minion comes from its return in hand,
\* or from the recorded target when the job is complete.
LEMMA StampsSound ==
    ASSUME watched \subseteq Sls, NEW j, NEW start, NEW target, NEW rows,
           NEW complete, NEW m \in Minions
    PROVE  LET t == apply_sync_verdicts(j, start, target, rows, complete)[m]
           IN  /\ t \in {"ok", "drifted"} =>
                    /\ rows[m] # NoRow
                    /\ \E w \in SUBSET Sls : t = ReturnStatus(rows[m], w)
               /\ t = "unreachable" => m \in target
<1> DEFINE t == apply_sync_verdicts(j, start, target, rows, complete)[m]
<1>1. t \in {"ok", "drifted"} => rows[m] # NoRow /\ t = ReturnStatus(rows[m], watched)
  BY DEF apply_sync_verdicts
<1>2. t = "unreachable" => m \in target
  BY ReturnStatusType DEF apply_sync_verdicts
<1> QED  BY <1>1, <1>2

\* The master answers: the verdicts the request now holds are sound.
LEMMA SyncStampInv ==
    ASSUME IInv, NEW s \in Syncers, SyncStamp(s)
    PROVE  IInv'
<1> USE DEF saltVars, jobVars, timeVars, stateVars
<1>t. TypeOK' /\ TypeOK
  BY SyncStepType DEF IInv, SyncStep
<1>1. UNCHANGED <<sent, covered, heard, salt_returns, tgt, job_returns, conformity>>
  BY DEF SyncStamp
<1>2. Grows
  BY <1>1 DEF Grows
<1>3. \A r \in Syncers \ {s} : syncs'[r] = syncs[r]
  BY <1>t DEF SyncStamp, TypeOK
<1> DEFINE y == syncs[s]
<1>4. y \in Sync /\ y.phase = "asking" /\ HoldsReturns(y) /\ HoldsNews(y)
  BY <1>t DEF SyncStamp, TypeOK, IInv, SyncsSound
<1>5. PICK known \in MasterAnswer(y.jid) :
        LET done == Completes(y, known) IN
        syncs' = [syncs EXCEPT ![s] =
           IF y.rows = NoRows /\ ~done
           THEN Idle
           ELSE [y EXCEPT !.phase = "stamping", !.complete = done,
                   !.aged = FALSE, !.quiet = FALSE,
                   !.stamps = apply_sync_verdicts(y.jid, y.start,
                                       Targeted(y), y.rows, done),
                   !.seen = snapshot]]
  BY DEF SyncStamp
<1> DEFINE done == Completes(y, known)
           stamps == apply_sync_verdicts(y.jid, y.start, Targeted(y), y.rows, done)
           z == [y EXCEPT !.phase = "stamping", !.complete = done,
                   !.aged = FALSE, !.quiet = FALSE,
                   !.stamps = stamps, !.seen = snapshot]
<1>6. syncs'[s] = IF y.rows = NoRows /\ ~done THEN Idle ELSE z
  <2>1. syncs' = [syncs EXCEPT ![s] = IF y.rows = NoRows /\ ~done THEN Idle ELSE z]
    BY <1>5
  <2> HIDE DEF z, y
  <2> QED  BY <2>1, <1>t DEF TypeOK
<1>7. /\ z.phase = "stamping" /\ z.jid = y.jid /\ z.job = y.job /\ z.rows = y.rows
      /\ z.stored = y.stored /\ z.stamps = stamps
  <2> HIDE DEF stamps, done, y
  <2> QED  BY <1>4 DEF Sync
<1>8. \A m \in Minions : m \in Targeted(y) =>
          y.jid \in sent /\ m \in Target[y.jid] /\ m \in tgt[y.jid]
  BY <1>4 DEF Targeted, IInv, TargetRecorded, HoldsReturns
<1>9. HoldsReturns(z) /\ HoldsNews(z) /\ HoldsVerdicts(z)
  <2>1. HoldsReturns(z)
    <3> HIDE DEF z, y
    <3> QED  BY <1>4, <1>7 DEF HoldsReturns
  <2>2. HoldsNews(z)
    <3> HIDE DEF z, y
    <3> QED  BY <1>4, <1>7 DEF HoldsNews, NewReturns, Recorded
  <2>3. \A m \in Minions :
            /\ stamps[m] \in {"ok", "drifted"} =>
                 /\ y.rows[m] # NoRow
                 /\ \E w \in SUBSET Sls : stamps[m] = ReturnStatus(y.rows[m], w)
            /\ stamps[m] = "unreachable" => m \in Targeted(y)
    <3>1. watched \subseteq Sls
      BY <1>t DEF TypeOK
    <3> HIDE DEF done, y
    <3> QED  BY <3>1, StampsSound
  <2>4. HoldsVerdicts(z)
    <3> HIDE DEF z, y, stamps
    <3> QED  BY <1>7, <1>8, <2>3 DEF HoldsVerdicts
  <2> QED  BY <2>1, <2>2, <2>4
<1>10. (HoldsReturns(syncs[s]) /\ HoldsNews(syncs[s]) /\ HoldsVerdicts(syncs[s]))'
  <2>1. HoldsReturns(syncs'[s]) /\ HoldsNews(syncs'[s]) /\ HoldsVerdicts(syncs'[s])
    <3> HIDE DEF z, y, done
    <3> QED  BY <1>6, <1>9, IdleSound
  <2> HIDE DEF y
  <2> QED  BY <1>1, <2>1 DEF HoldsReturns, HoldsNews, HoldsVerdicts, NewReturns, Recorded
<1>11. SyncsSound'
  BY <1>2, <1>3, <1>10, UntouchedSync DEF SyncsSound
<1>12. VerdictBacked' /\ ChecksOnlyItsTarget'
  BY <1>1, <1>2, UntouchedVerdict DEF VerdictBacked, ChecksOnlyItsTarget, Grows
<1>13. RowsGenuine' /\ StoredAsReturned' /\ TargetRecorded'
  BY <1>1 DEF IInv, RowsGenuine, StoredAsReturned, TargetRecorded
<1> QED  BY <1>t, <1>11, <1>12, <1>13 DEF IInv

\* What the commit of a sync does to the stored returns: it adds the rows the
\* request holds and rewrites none.
LEMMA CommitStores ==
    ASSUME IInv, NEW s \in Syncers, SyncCommit(s)
    PROVE  LET y == syncs[s] IN
           /\ y.jid \in Jids
           /\ \A m \in Minions :
                 y.rows[m] # NoRow => job_returns'[y.jid][m] = y.rows[m]
           /\ \A i \in Jids, m \in Minions :
                 job_returns[i][m] # NoRow => job_returns'[i][m] = job_returns[i][m]
           /\ StoredAsReturned'
<1> USE DEF saltVars, jobVars, timeVars, stateVars
<1> DEFINE y == syncs[s]
           j == y.jid
<1>1. /\ y.phase = "stamping" /\ HoldsReturns(y)
      /\ job_returns \in [Jids -> [Minions -> Row]]
  BY DEF SyncCommit, IInv, SyncsSound, TypeOK
<1>2. /\ j \in Jids
      /\ \A m \in Minions : y.rows[m] # NoRow => y.rows[m] = salt_returns[j][m]
  BY <1>1 DEF HoldsReturns
<1>3. /\ UNCHANGED salt_returns
      /\ job_returns' = [job_returns EXCEPT ![j] =
             [m \in Minions |-> IF y.rows[m] # NoRow THEN y.rows[m] ELSE @[m]]]
  BY DEF SyncCommit
<1>4. StoredAsReturned
  BY DEF IInv
<1> HIDE DEF y, j
<1>5. \A i \in Jids, m \in Minions :
          job_returns'[i][m] = IF i = j /\ y.rows[m] # NoRow THEN y.rows[m]
                               ELSE job_returns[i][m]
  BY <1>1, <1>2, <1>3
<1>6. \A m \in Minions : y.rows[m] # NoRow => job_returns'[j][m] = y.rows[m]
  BY <1>2, <1>5
<1>7. \A i \in Jids, m \in Minions :
          job_returns[i][m] # NoRow => job_returns'[i][m] = job_returns[i][m]
  BY <1>2, <1>4, <1>5 DEF StoredAsReturned
<1>8. StoredAsReturned'
  BY <1>2, <1>3, <1>4, <1>5 DEF StoredAsReturned
<1> QED  BY <1>2, <1>6, <1>7, <1>8 DEF y, j

\* sync_job commits: return and verdict land together.
LEMMA SyncCommitInv ==
    ASSUME IInv, NEW s \in Syncers, SyncCommit(s)
    PROVE  IInv'
<1> USE DEF saltVars, jobVars, timeVars, stateVars
<1>t. TypeOK' /\ TypeOK
  BY SyncStepType DEF IInv, SyncStep
<1> DEFINE y == syncs[s]
           j == y.jid
<1>1. UNCHANGED <<sent, covered, heard, salt_returns, tgt>>
  BY DEF SyncCommit
<1>2. Grows
  BY <1>1 DEF Grows
<1>3. /\ y.phase = "stamping" /\ HoldsReturns(y) /\ HoldsVerdicts(y)
      /\ y.stamps \in [Minions -> Status \cup {"skip"}]
  BY <1>t DEF SyncCommit, IInv, SyncsSound, TypeOK, Sync
<1>4. SyncsSound'
  <2>1. syncs' = [syncs EXCEPT ![s] = Idle]
    BY DEF SyncCommit
  <2>2. syncs'[s] = Idle /\ \A r \in Syncers \ {s} : syncs'[r] = syncs[r]
    BY <2>1, <1>t DEF TypeOK
  <2>3. (HoldsReturns(syncs[s]) /\ HoldsNews(syncs[s]) /\ HoldsVerdicts(syncs[s]))'
    BY <2>2 DEF HoldsReturns, HoldsNews, HoldsVerdicts, Idle
  <2> QED  BY <1>2, <2>2, <2>3, UntouchedSync DEF SyncsSound
<1>5. /\ j \in Jids
      /\ \A m \in Minions : y.rows[m] # NoRow => job_returns'[j][m] = y.rows[m]
      /\ \A i \in Jids, m \in Minions :
            job_returns[i][m] # NoRow => job_returns'[i][m] = job_returns[i][m]
      /\ StoredAsReturned'
  BY CommitStores
<1>6. conformity' = [m \in Minions |->
          IF m \in Stamped(y) THEN [status |-> y.stamps[m], jid |-> j] ELSE conformity[m]]
  BY DEF SyncCommit
<1>7. ASSUME NEW m \in Minions
      PROVE  /\ conformity'[m].status \in {"ok", "drifted"} =>
                  LET r == job_returns'[conformity'[m].jid][m]
                  IN  /\ r # NoRow
                      /\ \E w \in SUBSET Sls : conformity'[m].status = ReturnStatus(r, w)
             /\ conformity'[m] # NoVerdict =>
                  /\ conformity'[m].jid \in sent'
                  /\ m \in Target[conformity'[m].jid]
                  /\ conformity'[m].status \in {"ok", "drifted"} =>
                       m \in covered'[conformity'[m].jid]
                  /\ conformity'[m].status = "unreachable" => m \in tgt'[conformity'[m].jid]
  <2>1. CASE m \notin Stamped(y)
    <3>1. conformity'[m] = conformity[m]
      BY <1>6, <2>1
    <3> QED  BY <1>2, <1>5, <3>1, UntouchedVerdict
  <2>2. CASE m \in Stamped(y)
    <3>1. conformity'[m].status = y.stamps[m] /\ conformity'[m].jid = j
      BY <1>6, <2>2
    <3>2. y.stamps[m] \in {"ok", "drifted"} \/ y.stamps[m] = "unreachable"
      BY <1>3, <2>2 DEF Stamped, Status
    <3>3. CASE y.stamps[m] \in {"ok", "drifted"}
      <4>1. /\ y.rows[m] # NoRow
            /\ \E w \in SUBSET Sls : y.stamps[m] = ReturnStatus(y.rows[m], w)
        BY <1>3, <3>3 DEF HoldsVerdicts
      <4>2. salt_returns[j][m] # NoRow
        BY <1>3, <4>1 DEF HoldsReturns
      <4>3. j \in sent' /\ m \in covered'[j] /\ m \in Target[j]
        BY <1>1, <1>5, <4>2 DEF IInv, RowsGenuine, TargetRecorded
      <4> HIDE DEF y, j
      <4> QED  BY <1>5, <3>1, <3>3, <4>1, <4>3
    <3>4. CASE y.stamps[m] = "unreachable"
      <4>1. j \in sent' /\ m \in Target[j] /\ m \in tgt'[j]
        BY <1>1, <1>3, <3>4 DEF HoldsVerdicts
      <4> HIDE DEF y, j
      <4> QED  BY <3>1, <3>4, <4>1
    <3> QED  BY <3>2, <3>3, <3>4
  <2> QED  BY <2>1, <2>2
<1>8. VerdictBacked' /\ ChecksOnlyItsTarget'
  BY <1>7 DEF VerdictBacked, ChecksOnlyItsTarget
<1>9. RowsGenuine' /\ TargetRecorded'
  BY <1>1 DEF IInv, RowsGenuine, TargetRecorded
<1> QED  BY <1>t, <1>4, <1>5, <1>8, <1>9 DEF IInv

\* A rollback leaves nothing behind.
LEMMA SyncAbortInv ==
    ASSUME IInv, NEW s \in Syncers, SyncAbort(s)
    PROVE  IInv'
<1> USE DEF saltVars, jobVars, timeVars, stateVars
<1>t. TypeOK' /\ TypeOK
  BY SyncStepType DEF IInv, SyncStep
<1>1. UNCHANGED <<sent, covered, heard, salt_returns, tgt, job_returns, conformity>>
  BY DEF SyncAbort
<1>2. Grows
  BY <1>1 DEF Grows
<1>3. syncs'[s] = Idle /\ \A r \in Syncers \ {s} : syncs'[r] = syncs[r]
  BY <1>t DEF SyncAbort, TypeOK
<1>4. (HoldsReturns(syncs[s]) /\ HoldsNews(syncs[s]) /\ HoldsVerdicts(syncs[s]))'
  BY <1>3 DEF HoldsReturns, HoldsNews, HoldsVerdicts, Idle
<1>5. SyncsSound'
  BY <1>2, <1>3, <1>4, UntouchedSync DEF SyncsSound
<1>6. VerdictBacked' /\ ChecksOnlyItsTarget'
  BY <1>1, <1>2, UntouchedVerdict DEF VerdictBacked, ChecksOnlyItsTarget, Grows
<1>7. RowsGenuine' /\ StoredAsReturned' /\ TargetRecorded'
  BY <1>1 DEF IInv, RowsGenuine, StoredAsReturned, TargetRecorded
<1> QED  BY <1>t, <1>5, <1>6, <1>7 DEF IInv

\* The States page replays stored returns only; a deleted minion row takes
\* its verdict with it.
LEMMA PageStepInv ==
    ASSUME IInv, PageStep
    PROVE  IInv'
<1> USE DEF saltVars, jobVars, timeVars, stateVars
<1>t. TypeOK' /\ TypeOK
  BY PageStepType DEF IInv
<1>1. UNCHANGED <<sent, covered, heard, salt_returns, tgt, job_returns, syncs>>
  BY DEF PageStep, watch, unwatch, recompute_conformity, MinionJoins,
         refresh_snapshots, DeleteMinionRow
<1>2. Grows
  BY <1>1 DEF Grows
<1>3. \/ UNCHANGED conformity
      \/ \E n \in Minions : conformity' = [conformity EXCEPT ![n] = NoVerdict]
      \/ \E j \in Jids : conformity' = [m \in Minions |->
             IF m \in Recorded(job_returns[j])
             THEN [status |-> ReturnStatus(job_returns[j][m], watched), jid |-> j]
             ELSE conformity[m]]
  BY DEF PageStep, watch, unwatch, recompute_conformity, MinionJoins,
         refresh_snapshots, DeleteMinionRow
<1>4. ASSUME NEW m \in Minions
      PROVE  /\ conformity'[m].status \in {"ok", "drifted"} =>
                  LET r == job_returns'[conformity'[m].jid][m]
                  IN  /\ r # NoRow
                      /\ \E w \in SUBSET Sls : conformity'[m].status = ReturnStatus(r, w)
             /\ conformity'[m] # NoVerdict =>
                  /\ conformity'[m].jid \in sent'
                  /\ m \in Target[conformity'[m].jid]
                  /\ conformity'[m].status \in {"ok", "drifted"} =>
                       m \in covered'[conformity'[m].jid]
                  /\ conformity'[m].status = "unreachable" => m \in tgt'[conformity'[m].jid]
  <2>1. CASE conformity'[m] = conformity[m]
    BY <1>1, <1>2, <2>1, UntouchedVerdict
  <2>2. CASE conformity'[m] = NoVerdict
    BY <2>2 DEF NoVerdict
  <2>3. ASSUME NEW j \in Jids, m \in Recorded(job_returns[j]),
               conformity'[m] =
                   [status |-> ReturnStatus(job_returns[j][m], watched), jid |-> j]
        PROVE  /\ conformity'[m].status \in {"ok", "drifted"} =>
                    LET r == job_returns'[conformity'[m].jid][m]
                    IN  /\ r # NoRow
                        /\ \E w \in SUBSET Sls : conformity'[m].status = ReturnStatus(r, w)
               /\ conformity'[m] # NoVerdict =>
                    /\ conformity'[m].jid \in sent'
                    /\ m \in Target[conformity'[m].jid]
                    /\ conformity'[m].status \in {"ok", "drifted"} =>
                         m \in covered'[conformity'[m].jid]
                    /\ conformity'[m].status = "unreachable" => m \in tgt'[conformity'[m].jid]
    <3>1. job_returns[j][m] # NoRow
      BY <2>3 DEF Recorded
    <3>2. j \in sent /\ m \in covered[j] /\ m \in Target[j]
      BY <3>1 DEF IInv, StoredAsReturned, RowsGenuine, TargetRecorded
    <3>5. ReturnStatus(job_returns[j][m], watched) # "unreachable"
      BY DEF ReturnStatus
    <3>3. watched \in SUBSET Sls
      BY <1>t DEF TypeOK
    <3>4. /\ conformity'[m].status = ReturnStatus(job_returns[j][m], watched)
          /\ conformity'[m].jid = j
      BY <2>3
    <3> QED  BY <1>1, <3>1, <3>2, <3>3, <3>4, <3>5
  <2>4. \/ conformity'[m] \in {conformity[m], NoVerdict}
        \/ \E j \in Jids :
              /\ m \in Recorded(job_returns[j])
              /\ conformity'[m] =
                     [status |-> ReturnStatus(job_returns[j][m], watched), jid |-> j]
    <3>1. conformity \in [Minions -> Verdict]
      BY <1>t DEF TypeOK
    <3> QED  BY <1>3, <3>1
  <2> QED  BY <2>1, <2>2, <2>3, <2>4
<1>5. VerdictBacked' /\ ChecksOnlyItsTarget'
  BY <1>4 DEF VerdictBacked, ChecksOnlyItsTarget
<1>6. SyncsSound'
  BY <1>1, <1>2, UntouchedSync DEF SyncsSound
<1>7. RowsGenuine' /\ StoredAsReturned' /\ TargetRecorded'
  BY <1>1 DEF IInv, RowsGenuine, StoredAsReturned, TargetRecorded
<1> QED  BY <1>t, <1>5, <1>6, <1>7 DEF IInv

LEMMA NextInv == IInv /\ [Next]_vars => IInv'
<1>1. ASSUME IInv, UNCHANGED vars PROVE IInv'
  BY <1>1 DEF IInv, TypeOK, RowsGenuine, StoredAsReturned, TargetRecorded,
              SyncsSound, HoldsReturns, HoldsNews, HoldsVerdicts, NewReturns,
              Recorded, VerdictBacked, ChecksOnlyItsTarget,
              vars, saltVars, jobVars, timeVars, stateVars
<1>2. ASSUME IInv, NEW s \in Syncers, SyncStep(s) PROVE IInv'
  BY <1>2, SyncReadInv, SyncStampInv, SyncCommitInv, SyncAbortInv DEF SyncStep
<1> QED  BY <1>1, <1>2, JobStepInv, PageStepInv DEF Next

LEMMA Invariance == Spec => []IInv
BY InitInv, NextInv, PTL DEF Spec

\* Every ok or drifted verdict is backed by the stored return it links to, for
\* any number of concurrent sync_job calls, rollbacks, recomputations and
\* deleted minion rows.
THEOREM VerdictsBacked == Spec => []VerdictBacked
<1>1. IInv => VerdictBacked
  BY DEF IInv
<1> QED  BY <1>1, Invariance, PTL

\* An ok or drifted verdict links to a job that was published to the minion, an
\* unreachable one to a published job whose recorded target matches it, for jobs
\* the UI launched and for jobs it discovered alike, whoever joins or leaves.
THEOREM VerdictsOnTarget == Spec => []ChecksOnlyItsTarget
<1>1. IInv => ChecksOnlyItsTarget
  BY DEF IInv
<1> QED  BY <1>1, Invariance, PTL

\* Only a sync that stores a return it did not have reopens a complete job.
LEMMA StepSticky ==
    ASSUME IInv, [Next]_vars, NEW j \in Jids,
           jobs[j] = "complete", jobs'[j] # "complete"
    PROVE  \E m \in Minions : job_returns[j][m] = NoRow /\ job_returns'[j][m] # NoRow
<1> USE DEF saltVars, jobVars, timeVars, stateVars
<1>t. jobs \in [Jids -> {"absent", "running", "complete"}]
  BY DEF IInv, TypeOK
<1>1. PICK s \in Syncers : SyncCommit(s)
  <2>1. ASSUME NEW i \in Jids, JobStep(i) PROVE FALSE
    <3>1. \/ UNCHANGED jobs
          \/ jobs[i] = "absent" /\ jobs' = [jobs EXCEPT ![i] = "running"]
      BY <2>1 DEF JobStep, LaunchPublish, LaunchRecord, FireOutside, Publish, returner,
                  ReturnerDrops, MasterForgets, JobAges, ReturnsGoQuiet
    <3> QED  BY <3>1, <1>t
  <2>2. ASSUME PageStep PROVE FALSE
    BY <2>2 DEF PageStep, watch, unwatch, recompute_conformity, MinionJoins,
                refresh_snapshots, DeleteMinionRow
  <2>3. ASSUME UNCHANGED vars PROVE FALSE
    BY <2>3 DEF vars
  <2>4. ASSUME NEW s \in Syncers, SyncStep(s), ~SyncCommit(s) PROVE FALSE
    BY <2>4 DEF SyncStep, SyncRead, SyncStamp, SyncAbort
  <2> QED  BY <2>1, <2>2, <2>3, <2>4 DEF Next
<1> DEFINE y == syncs[s]
<1>2. /\ y.phase = "stamping" /\ ~Conflicts(y) /\ y.jid \in Jids
      /\ HoldsNews(y)
      /\ \A m \in Minions : y.rows[m] # NoRow => job_returns'[y.jid][m] = y.rows[m]
  BY <1>1, CommitStores DEF SyncCommit, IInv, SyncsSound
<1>3. /\ y.jid = j
      /\ ~(y.complete = (y.job = "complete") /\ y.job # "absent")
      /\ y.complete = FALSE
  <2>1. jobs' = [jobs EXCEPT ![y.jid] =
                    IF y.complete = (y.job = "complete") /\ y.job # "absent"
                    THEN @
                    ELSE IF y.complete THEN "complete" ELSE "running"]
    BY <1>1 DEF SyncCommit
  <2>2. y.complete \in BOOLEAN
    BY DEF IInv, TypeOK, Sync
  <2> HIDE DEF y
  <2> QED  BY <1>t, <1>2, <2>1, <2>2
<1>4. y.job # "absent"
  BY <1>2, <1>3 DEF Conflicts
<1>5. y.job = "complete"
  BY <1>3, <1>4
<1>6. PICK m \in NewReturns(y) : TRUE
  BY <1>2, <1>5 DEF HoldsNews
<1>7. m \in Minions /\ y.rows[m] # NoRow
  BY DEF NewReturns, Recorded
<1>8. job_returns[j][m] = NoRow
  BY <1>2, <1>3 DEF Conflicts
<1> QED  BY <1>2, <1>3, <1>7, <1>8

\* A complete job stays complete unless a new return is stored, also when the
\* sync that reopens it read the job before others changed it.
THEOREM CompleteIsSticky == Spec => StickyComplete
<1> DEFINE A == \A j \in Jids :
          jobs[j] = "complete" /\ jobs'[j] # "complete" =>
              \E m \in Minions : job_returns[j][m] = NoRow /\ job_returns'[j][m] # NoRow
<1>1. IInv /\ [Next]_vars => [A]_vars
  BY StepSticky
<1> QED  BY <1>1, Invariance, PTL DEF Spec, StickyComplete

-----------------------------------------------------------------------------
(* One request at a time.  A sync that nobody overtakes finds on file, when *)
(* it commits, what its verdict loop compared with.                         *)

\* Verdicts are on rows of the minions table and link to rows of the job
\* table; no job starts after the last rank given out.
TablesAgree ==
    /\ \A m \in Minions \ snapshot : conformity[m] = NoVerdict
    /\ \A m \in Minions : conformity[m] # NoVerdict => jobs[conformity[m].jid] # "absent"
    /\ \A j \in Jids : started[j] <= clock
    /\ \A j \in Jids : jobs[j] # "absent" => j \in sent

\* A return that the request did not find is not stored, and its job is no
\* older than it thinks.
ReadStands(y) ==
    y.phase # "idle" =>
        /\ y.jid \in sent
        /\ \A m \in Minions : y.rows[m] = NoRow => job_returns[y.jid][m] = NoRow
        /\ y.job # "absent" => jobs[y.jid] # "absent"
        /\ started[y.jid] <= y.start /\ y.start <= clock

\* A minion it found a return of is skipped for another job's verdict only, and
\* no verdict it replaces is of a newer job.
StampsStand(y) ==
    y.phase = "stamping" =>
        \A m \in Minions :
            /\ y.rows[m] # NoRow /\ y.stamps[m] = "skip" => conformity[m].jid # y.jid
            /\ y.stamps[m] = "unreachable" => y.rows[m] = NoRow
            /\ y.stamps[m] # "skip" /\ conformity[m] # NoVerdict =>
                  started[conformity[m].jid] <= y.start

LoneIInv ==
    /\ IInv /\ TablesAgree /\ ReturnedNotUnreachable
    /\ \A s \in Syncers : ReadStands(syncs[s]) /\ StampsStand(syncs[s])

LEMMA InitLone == Init => LoneIInv
<1> SUFFICES ASSUME Init PROVE LoneIInv
  OBVIOUS
<1>1. TablesAgree /\ ReturnedNotUnreachable
  BY DEF Init, TablesAgree, ReturnedNotUnreachable, NoVerdict
<1>2. \A s \in Syncers : ReadStands(syncs[s]) /\ StampsStand(syncs[s])
  BY DEF Init, ReadStands, StampsStand, Idle
<1> QED  BY <1>1, <1>2, InitInv DEF LoneIInv

\* The job a verdict is of.
LEMMA VerdictJid ==
    ASSUME IInv, NEW m \in Minions, conformity[m] # NoVerdict
    PROVE  conformity[m].jid \in sent /\ conformity[m].jid \in Jids /\ conformity[m].jid # 0
BY JidsAreTimestamps DEF IInv, ChecksOnlyItsTarget, TypeOK

\* A request that a step leaves alone stands while verdicts, stored returns and
\* the start of published jobs do.
LEMMA UntouchedLone ==
    ASSUME LoneIInv, NEW s \in Syncers, syncs'[s] = syncs[s],
           UNCHANGED <<conformity, job_returns>>, sent \subseteq sent',
           \A j \in sent : started'[j] = started[j],
           \A j \in Jids : jobs[j] # "absent" => jobs'[j] # "absent",
           clock \in Nat, clock' \in Nat, clock <= clock'
    PROVE  ReadStands(syncs[s])' /\ StampsStand(syncs[s])'
<1> DEFINE y == syncs[s]
<1>1. ReadStands(y) /\ StampsStand(y)
  BY DEF LoneIInv
<1>2. y.start \in Nat /\ (y.phase # "idle" => y.jid \in Jids)
  BY MaxClockAssumption DEF LoneIInv, IInv, TypeOK, Sync, SyncsSound, HoldsReturns
<1>3. ReadStands(y)'
  <2> HIDE DEF y
  <2>1. y' = y
    BY DEF y
  <2>2. ASSUME y.phase # "idle"
        PROVE  /\ y.jid \in sent' /\ started'[y.jid] <= y.start /\ y.start <= clock'
               /\ \A m \in Minions : y.rows[m] = NoRow => job_returns'[y.jid][m] = NoRow
               /\ y.job # "absent" => jobs'[y.jid] # "absent"
    BY <1>1, <1>2, <2>2 DEF ReadStands
  <2> QED  BY <2>1, <2>2 DEF ReadStands
<1>4. StampsStand(y)'
  <2>1. \A m \in Minions : conformity[m] # NoVerdict =>
           started'[conformity[m].jid] = started[conformity[m].jid]
    BY VerdictJid DEF LoneIInv
  <2> HIDE DEF y
  <2>2. y' = y
    BY DEF y
  <2> QED  BY <1>1, <2>1, <2>2 DEF StampsStand
<1> QED  BY <1>3, <1>4

LEMMA JobStepLone ==
    ASSUME LoneIInv, NEW j \in Jids, JobStep(j)
    PROVE  LoneIInv'
<1> USE DEF saltVars, jobVars, timeVars, stateVars
<1>1. IInv' /\ IInv /\ TypeOK /\ TypeOK'
  BY JobStepInv DEF LoneIInv, IInv
<1>2. UNCHANGED <<conformity, job_returns, snapshot, syncs>> /\ sent \subseteq sent'
  BY DEF JobStep, LaunchPublish, LaunchRecord, FireOutside, Publish, returner, ReturnerDrops,
         MasterForgets, JobAges, ReturnsGoQuiet
<1>3. \/ UNCHANGED <<started, clock>>
      \/ /\ j \notin sent /\ clock' = clock + 1
         /\ started' = [started EXCEPT ![j] = clock + 1]
  BY DEF JobStep, LaunchPublish, LaunchRecord, FireOutside, Publish, returner, ReturnerDrops,
         MasterForgets, JobAges, ReturnsGoQuiet
<1>4. \/ UNCHANGED jobs
      \/ j \in sent /\ jobs' = [jobs EXCEPT ![j] = "running"]
  BY DEF JobStep, LaunchPublish, LaunchRecord, FireOutside, Publish, returner, ReturnerDrops,
         MasterForgets, JobAges, ReturnsGoQuiet
<1>5. /\ clock \in Nat /\ clock' \in Nat /\ clock <= clock'
      /\ \A i \in sent : started'[i] = started[i]
      /\ \A i \in Jids : started'[i] <= clock'
  <2>1. started \in [Jids -> 0..MaxClock] /\ clock \in 0..MaxClock /\ sent \subseteq Jids
    BY <1>1 DEF TypeOK
  <2>2. \A i \in Jids : started[i] <= clock
    BY DEF LoneIInv, TablesAgree
  <2> QED  BY <1>3, <2>1, <2>2, MaxClockAssumption
<1>6. \A i \in Jids : /\ jobs[i] # "absent" => jobs'[i] # "absent"
                      /\ jobs'[i] # "absent" => i \in sent'
  <2>1. jobs \in [Jids -> {"absent", "running", "complete"}]
    BY <1>1 DEF TypeOK
  <2>2. \A i \in Jids : jobs[i] # "absent" => i \in sent
    BY DEF LoneIInv, TablesAgree
  <2> QED  BY <1>2, <1>4, <2>1, <2>2
<1>7. TablesAgree'
  <2>1. \A m \in Minions : conformity[m] # NoVerdict => jobs'[conformity[m].jid] # "absent"
    BY <1>1, <1>6, VerdictJid DEF LoneIInv, TablesAgree
  <2> QED  BY <1>2, <1>5, <1>6, <2>1 DEF LoneIInv, TablesAgree
<1>8. ReturnedNotUnreachable'
  BY <1>2 DEF LoneIInv, ReturnedNotUnreachable
<1>9. \A s \in Syncers : ReadStands(syncs[s])' /\ StampsStand(syncs[s])'
  BY <1>2, <1>5, <1>6, UntouchedLone
<1> QED  BY <1>1, <1>7, <1>8, <1>9 DEF LoneIInv

\* What a sync that reads and stamps leaves alone.
LEMMA QuietSyncLone ==
    ASSUME LoneIInv, IInv', NEW s \in Syncers,
           \A r \in Syncers \ {s} : syncs'[r] = syncs[r],
           UNCHANGED <<sent, jobs, started, job_returns, snapshot, conformity>>,
           clock' \in Nat, clock <= clock',
           ReadStands(syncs[s])', StampsStand(syncs[s])'
    PROVE  LoneIInv'
<1>1. IInv /\ clock \in Nat /\ started \in [Jids -> Nat]
  BY MaxClockAssumption DEF LoneIInv, IInv, TypeOK
<1>2. \A r \in Syncers \ {s} : ReadStands(syncs[r])' /\ StampsStand(syncs[r])'
  BY <1>1, UntouchedLone
<1>3. TablesAgree'
  <2>1. \A j \in Jids : started[j] <= clock'
    BY <1>1 DEF LoneIInv, TablesAgree
  <2> QED  BY <2>1 DEF LoneIInv, TablesAgree
<1>4. ReturnedNotUnreachable'
  BY DEF LoneIInv, ReturnedNotUnreachable
<1> QED  BY <1>2, <1>3, <1>4 DEF LoneIInv

LEMMA SyncReadLone ==
    ASSUME LoneIInv, NEW s \in Syncers, NEW j \in Jids, SyncRead(s, j)
    PROVE  LoneIInv'
<1> USE DEF saltVars, jobVars, timeVars, stateVars
<1>1. IInv' /\ IInv /\ TypeOK /\ TypeOK'
  BY SyncReadInv DEF LoneIInv, IInv
<1> DEFINE found == jobs[j] = "absent"
           start == IF found THEN clock + 1 ELSE started[j]
           z == [Idle EXCEPT !.phase = "asking", !.jid = j, !.job = jobs[j],
                             !.rows = salt_returns[j],
                             !.stored = Recorded(job_returns[j]),
                             !.start = start,
                             !.aged = aged[j], !.quiet = quiet[j]]
<1>2. /\ syncs' = [syncs EXCEPT ![s] = z]
      /\ clock' = IF found THEN clock + 1 ELSE clock
      /\ UNCHANGED <<sent, salt_returns, jobs, started, job_returns, snapshot, conformity>>
  BY DEF SyncRead
<1>3. /\ z.phase = "asking" /\ z.jid = j /\ z.job = jobs[j]
      /\ z.rows = salt_returns[j] /\ z.start = start
  BY DEF Idle
<1>4. /\ started[j] <= start /\ start <= clock' /\ clock' \in Nat /\ clock <= clock'
  <2>1. started[j] \in Nat /\ clock \in Nat /\ started[j] <= clock
    BY <1>1, MaxClockAssumption DEF LoneIInv, TypeOK, TablesAgree
  <2> QED  BY <1>2, <2>1
<1>5. j \in sent
  <2>1. CASE salt_returns[j] = NoRows
    BY <2>1 DEF SyncRead, LoneIInv, TablesAgree
  <2>2. CASE salt_returns[j] # NoRows
    <3>1. salt_returns[j] \in [Minions -> Row]
      BY <1>1 DEF TypeOK
    <3>2. \E m \in Minions : salt_returns[j][m] # NoRow
      BY <2>2, <3>1 DEF NoRows
    <3> QED  BY <1>1, <3>2 DEF IInv, RowsGenuine
  <2> QED  BY <2>1, <2>2
<1>6. \A m \in Minions : salt_returns[j][m] = NoRow => job_returns[j][m] = NoRow
  BY <1>1 DEF IInv, StoredAsReturned
<1> HIDE DEF z, start
<1>7. syncs'[s] = z /\ \A r \in Syncers \ {s} : syncs'[r] = syncs[r]
  BY <1>1, <1>2 DEF TypeOK
<1>8. ReadStands(syncs[s])' /\ StampsStand(syncs[s])'
  BY <1>2, <1>3, <1>4, <1>5, <1>6, <1>7 DEF ReadStands, StampsStand
<1> QED  BY <1>1, <1>2, <1>4, <1>7, <1>8, QuietSyncLone

LEMMA SyncStampLone ==
    ASSUME LoneIInv, NEW s \in Syncers, SyncStamp(s)
    PROVE  LoneIInv'
<1> USE DEF saltVars, jobVars, timeVars, stateVars
<1>1. IInv' /\ IInv /\ TypeOK /\ TypeOK'
  BY SyncStampInv DEF LoneIInv, IInv
<1> DEFINE y == syncs[s]
<1>2. PICK known \in MasterAnswer(y.jid) :
        LET done == Completes(y, known) IN
        syncs' = [syncs EXCEPT ![s] =
           IF y.rows = NoRows /\ ~done
           THEN Idle
           ELSE [y EXCEPT !.phase = "stamping", !.complete = done,
                   !.aged = FALSE, !.quiet = FALSE,
                   !.stamps = apply_sync_verdicts(y.jid, y.start,
                                       Targeted(y), y.rows, done),
                   !.seen = snapshot]]
  BY DEF SyncStamp
<1> DEFINE done == Completes(y, known)
           stamps == apply_sync_verdicts(y.jid, y.start, Targeted(y), y.rows, done)
           z == [y EXCEPT !.phase = "stamping", !.complete = done,
                   !.aged = FALSE, !.quiet = FALSE,
                   !.stamps = stamps, !.seen = snapshot]
<1>3. /\ UNCHANGED <<sent, jobs, started, clock, job_returns, snapshot, conformity>>
      /\ y.phase = "asking" /\ ReadStands(y) /\ y \in Sync /\ HoldsReturns(y)
  BY <1>1 DEF SyncStamp, LoneIInv, TypeOK, IInv, SyncsSound
<1>4. clock \in Nat /\ clock' \in Nat /\ clock <= clock'
  BY <1>1, <1>3, MaxClockAssumption DEF TypeOK
<1>5. /\ z.phase = "stamping" /\ z.jid = y.jid /\ z.job = y.job /\ z.rows = y.rows
      /\ z.start = y.start /\ z.stamps = stamps
  BY <1>3 DEF Sync
<1>6. syncs' = [syncs EXCEPT ![s] = IF y.rows = NoRows /\ ~done THEN Idle ELSE z]
  BY <1>2
<1>7. /\ syncs'[s] = IF y.rows = NoRows /\ ~done THEN Idle ELSE z
      /\ \A r \in Syncers \ {s} : syncs'[r] = syncs[r]
  <2> HIDE DEF z, done
  <2> QED  BY <1>1, <1>6 DEF TypeOK
<1>8. ReadStands(z)
  BY <1>3, <1>5 DEF ReadStands
<1>9. StampsStand(z)
  <2> SUFFICES ASSUME NEW m \in Minions
               PROVE  /\ y.rows[m] # NoRow /\ stamps[m] = "skip" => conformity[m].jid # y.jid
                      /\ stamps[m] = "unreachable" => y.rows[m] = NoRow
                      /\ stamps[m] # "skip" /\ conformity[m] # NoVerdict =>
                            started[conformity[m].jid] <= y.start
    <3> HIDE DEF z, stamps
    <3> QED  BY <1>5 DEF StampsStand
  <2>1. stamps[m] = IF HoldsTheFloor(m, y.jid, y.start) THEN "skip"
                    ELSE IF y.rows[m] # NoRow THEN ReturnStatus(y.rows[m], watched)
                    ELSE IF done /\ m \in Targeted(y) \cap snapshot THEN "unreachable"
                    ELSE "skip"
    BY DEF apply_sync_verdicts
  <2>2. ReturnStatus(y.rows[m], watched) \in {"ok", "drifted"}
    BY ReturnStatusType
  <2>3. ASSUME stamps[m] # "skip", conformity[m] # NoVerdict
        PROVE  started[conformity[m].jid] <= y.start
    <3> DEFINE e == conformity[m].jid
    <3>1. ~HoldsTheFloor(m, y.jid, y.start)
      BY <2>1, <2>3
    <3>2. m \in snapshot /\ jobs[e] # "absent" /\ e # 0 /\ e \in Jids
      BY <1>1, <2>3, VerdictJid DEF LoneIInv, TablesAgree
    <3>3. e = y.jid \/ ~(started[e] > y.start)
      BY <3>1, <3>2 DEF HoldsTheFloor
    <3>4. started[e] \in Nat /\ y.start \in Nat
      BY <1>1, <1>3, <3>2, MaxClockAssumption DEF TypeOK, Sync
    <3>5. started[y.jid] <= y.start
      BY <1>3 DEF ReadStands
    <3> QED  BY <3>3, <3>4, <3>5
  <2>4. ASSUME y.rows[m] # NoRow, stamps[m] = "skip" PROVE conformity[m].jid # y.jid
    BY <2>1, <2>2, <2>4 DEF HoldsTheFloor
  <2>5. ASSUME stamps[m] = "unreachable" PROVE y.rows[m] = NoRow
    BY <2>1, <2>2, <2>5
  <2> QED  BY <2>3, <2>4, <2>5
<1>10. ReadStands(Idle) /\ StampsStand(Idle)
  BY DEF ReadStands, StampsStand, Idle
<1>11. ReadStands(syncs[s])' /\ StampsStand(syncs[s])'
  <2>1. ReadStands(syncs'[s]) /\ StampsStand(syncs'[s])
    <3> HIDE DEF z, done, y
    <3> QED  BY <1>7, <1>8, <1>9, <1>10
  <2> HIDE DEF y
  <2> QED  BY <1>3, <2>1 DEF ReadStands, StampsStand
<1> QED  BY <1>1, <1>3, <1>4, <1>7, <1>11, QuietSyncLone

LEMMA SyncAbortLone ==
    ASSUME LoneIInv, NEW s \in Syncers, SyncAbort(s)
    PROVE  LoneIInv'
<1> USE DEF saltVars, jobVars, timeVars, stateVars
<1>1. IInv' /\ IInv /\ TypeOK
  BY SyncAbortInv DEF LoneIInv, IInv
<1>2. /\ UNCHANGED <<sent, jobs, started, clock, job_returns, snapshot, conformity>>
      /\ syncs'[s] = Idle /\ \A r \in Syncers \ {s} : syncs'[r] = syncs[r]
      /\ clock \in Nat
  BY <1>1, MaxClockAssumption DEF SyncAbort, TypeOK
<1>3. ReadStands(syncs[s])' /\ StampsStand(syncs[s])'
  BY <1>2 DEF ReadStands, StampsStand, Idle
<1>4. clock' \in Nat /\ clock <= clock'
  BY <1>2
<1> QED  BY <1>1, <1>2, <1>3, <1>4, QuietSyncLone

\* The only request commits: what it replaces is what it compared with.
LEMMA SyncCommitLone ==
    ASSUME LoneIInv, NEW s \in Syncers, \A r \in Syncers : r = s, SyncCommit(s)
    PROVE  /\ LoneIInv'
           /\ \A m \in Minions, j, k \in Jids : Supersedes(m, j, k) => started[j] <= started'[k]
<1> USE DEF saltVars, jobVars, timeVars, stateVars
<1>1. IInv' /\ IInv /\ TypeOK /\ TypeOK'
  BY SyncCommitInv DEF LoneIInv, IInv
<1> DEFINE y == syncs[s]
           j == y.jid
<1>2. /\ y.phase = "stamping" /\ y \in Sync /\ ReadStands(y) /\ StampsStand(y)
      /\ ~Conflicts(y)
  BY <1>1 DEF SyncCommit, LoneIInv, TypeOK
<1>3. /\ j \in Jids
      /\ \A m \in Minions : y.rows[m] # NoRow => job_returns'[j][m] = y.rows[m]
  BY <1>1, CommitStores
<1>4. /\ UNCHANGED <<sent, clock>>
      /\ jobs' = [jobs EXCEPT ![j] =
                    IF y.complete = (y.job = "complete") /\ y.job # "absent"
                    THEN @
                    ELSE IF y.complete THEN "complete" ELSE "running"]
      /\ started' = [started EXCEPT ![j] = y.start]
      /\ job_returns' = [job_returns EXCEPT ![j] =
             [m \in Minions |-> IF y.rows[m] # NoRow THEN y.rows[m] ELSE @[m]]]
      /\ snapshot' = snapshot \cup Stamped(y)
      /\ conformity' = [m \in Minions |->
             IF m \in Stamped(y) THEN [status |-> y.stamps[m], jid |-> j] ELSE conformity[m]]
      /\ syncs' = [syncs EXCEPT ![s] = Idle]
  BY DEF SyncCommit
<1>5. /\ y.rows \in [Minions -> Row] /\ y.stamps \in [Minions -> Status \cup {"skip"}]
      /\ y.start \in Nat /\ y.complete \in BOOLEAN
      /\ clock \in Nat /\ started \in [Jids -> Nat] /\ conformity \in [Minions -> Verdict]
      /\ jobs \in [Jids -> {"absent", "running", "complete"}]
      /\ job_returns \in [Jids -> [Minions -> Row]]
  BY <1>1, <1>2, MaxClockAssumption DEF TypeOK, Sync
<1>6. /\ j \in sent /\ started[j] <= y.start /\ y.start <= clock
      /\ y.job # "absent" => jobs[j] # "absent"
      /\ \A m \in Minions : y.rows[m] = NoRow => job_returns[j][m] = NoRow
  BY <1>2 DEF ReadStands
<1>7. \A m \in Minions :
          /\ y.rows[m] # NoRow /\ y.stamps[m] = "skip" => conformity[m].jid # j
          /\ y.stamps[m] = "unreachable" => y.rows[m] = NoRow
          /\ y.stamps[m] # "skip" /\ conformity[m] # NoVerdict =>
                started[conformity[m].jid] <= y.start
  BY <1>2 DEF StampsStand
<1>8. ASSUME NEW m \in Minions
      PROVE  /\ y.stamps[m] = "skip" => conformity'[m] = conformity[m]
             /\ y.stamps[m] # "skip" => /\ m \in snapshot'
                                        /\ conformity'[m].status = y.stamps[m]
                                        /\ conformity'[m].jid = j
  BY <1>4 DEF Stamped
<1> HIDE DEF y, j
<1>9. syncs'[s] = Idle
  BY <1>1, <1>4 DEF TypeOK
<1>10. \A r \in Syncers : ReadStands(syncs[r])' /\ StampsStand(syncs[r])'
  BY <1>9 DEF ReadStands, StampsStand, Idle
<1>11. TablesAgree'
  <2>1. \A i \in Jids : /\ jobs[i] # "absent" => jobs'[i] # "absent"
                        /\ i # j => jobs'[i] = jobs[i] /\ started'[i] = started[i]
    BY <1>3, <1>4, <1>5
  <2>2. jobs'[j] # "absent" /\ started'[j] = y.start
    BY <1>3, <1>4, <1>5, <1>6
  <2>3. TablesAgree
    BY DEF LoneIInv
  <2>4. \A m \in Minions \ snapshot' : conformity'[m] = NoVerdict
    BY <1>4, <1>8, <2>3 DEF TablesAgree
  <2>5. ASSUME NEW m \in Minions, conformity'[m] # NoVerdict
        PROVE  jobs'[conformity'[m].jid] # "absent"
    <3>1. CASE y.stamps[m] = "skip"
      BY <1>1, <1>8, <2>1, <2>3, <2>5, <3>1, VerdictJid DEF TablesAgree
    <3>2. CASE y.stamps[m] # "skip"
      BY <1>8, <2>2, <3>2
    <3> QED  BY <3>1, <3>2
  <2>6. \A i \in Jids : started'[i] <= clock' /\ (jobs'[i] # "absent" => i \in sent')
    BY <1>4, <1>6, <2>1, <2>2, <2>3 DEF TablesAgree
  <2> QED  BY <2>4, <2>5, <2>6 DEF TablesAgree
<1>12. ReturnedNotUnreachable'
  <2> SUFFICES ASSUME NEW m \in Minions, conformity'[m].status = "unreachable"
               PROVE  job_returns'[conformity'[m].jid][m] = NoRow
    BY DEF ReturnedNotUnreachable
  <2>1. CASE y.stamps[m] = "skip"
    <3>1. /\ conformity'[m] = conformity[m]
          /\ job_returns[conformity[m].jid][m] = NoRow
      BY <1>8, <2>1 DEF LoneIInv, ReturnedNotUnreachable
    <3>2. conformity[m] # NoVerdict
      BY <3>1 DEF NoVerdict
    <3>3. conformity[m].jid \in Jids
      BY <1>1, <3>2, VerdictJid
    <3>4. CASE conformity[m].jid # j
      BY <1>3, <1>4, <1>5, <3>1, <3>3, <3>4
    <3>5. CASE conformity[m].jid = j
      <4>1. y.rows[m] = NoRow
        BY <1>7, <2>1, <3>5
      <4> QED  BY <1>3, <1>4, <1>5, <3>1, <3>5, <4>1
    <3> QED  BY <3>4, <3>5
  <2>2. CASE y.stamps[m] # "skip"
    <3>1. conformity'[m].jid = j /\ y.stamps[m] = "unreachable"
      BY <1>8, <2>2
    <3>2. y.rows[m] = NoRow /\ job_returns[j][m] = NoRow
      BY <1>6, <1>7, <3>1
    <3> QED  BY <1>3, <1>4, <1>5, <3>1, <3>2
  <2> QED  BY <2>1, <2>2
<1>13. ASSUME NEW m \in Minions, NEW i \in Jids, NEW k \in Jids, Supersedes(m, i, k)
       PROVE  started[i] <= started'[k]
  <2>1. /\ conformity[m] # NoVerdict /\ conformity[m].jid = i /\ conformity'[m].jid = k
    BY <1>13 DEF Supersedes
  <2>2. started[j] <= started'[j] /\ started'[j] = y.start
    BY <1>3, <1>4, <1>5, <1>6
  <2>3. CASE y.stamps[m] = "skip"
    <3>1. i = k
      BY <1>8, <2>1, <2>3
    <3> QED  BY <1>3, <1>4, <1>5, <2>2, <3>1
  <2>4. CASE y.stamps[m] # "skip"
    <3>1. k = j /\ started[i] <= y.start
      BY <1>7, <1>8, <2>1, <2>4
    <3> QED  BY <2>2, <3>1
  <2> QED  BY <2>3, <2>4
<1> QED  BY <1>1, <1>10, <1>11, <1>12, <1>13 DEF LoneIInv

\* The pages, between requests.
LEMMA PageStepLone ==
    ASSUME LoneIInv, \A s \in Syncers : syncs[s].phase = "idle", PageStep
    PROVE  /\ LoneIInv'
           /\ \A m \in Minions, j, k \in Jids : Supersedes(m, j, k) => started[j] <= started'[k]
<1> USE DEF saltVars, jobVars, timeVars, stateVars
<1>1. IInv' /\ IInv /\ TypeOK /\ TypeOK' /\ TablesAgree /\ ReturnedNotUnreachable
  BY PageStepInv DEF LoneIInv, IInv
<1>2. UNCHANGED <<sent, jobs, started, clock, job_returns, syncs>>
  BY DEF PageStep, watch, unwatch, recompute_conformity, MinionJoins,
         refresh_snapshots, DeleteMinionRow
<1>3. \A s \in Syncers : ReadStands(syncs[s])' /\ StampsStand(syncs[s])'
  BY <1>2 DEF ReadStands, StampsStand
<1>4. started \in [Jids -> Nat] /\ conformity \in [Minions -> Verdict]
  BY <1>1, MaxClockAssumption DEF TypeOK
<1>5. ASSUME \A m \in Minions : conformity'[m] \in {conformity[m], NoVerdict},
             \A m \in Minions \ snapshot' : conformity'[m] = NoVerdict
      PROVE  /\ LoneIInv'
             /\ \A m \in Minions, j, k \in Jids :
                   Supersedes(m, j, k) => started[j] <= started'[k]
  <2>1. TablesAgree' /\ ReturnedNotUnreachable'
    BY <1>1, <1>2, <1>5 DEF TablesAgree, ReturnedNotUnreachable, NoVerdict
  <2>2. \A m \in Minions, j, k \in Jids : Supersedes(m, j, k) => j = k
    BY <1>5 DEF Supersedes
  <2> QED  BY <1>1, <1>2, <1>3, <1>4, <2>1, <2>2 DEF LoneIInv
<1>6. CASE \/ \E sls \in Sls : watch(sls) \/ unwatch(sls)
           \/ \E m \in Minions : MinionJoins(m) \/ refresh_snapshots(m)
  <2>1. conformity' = conformity /\ snapshot \subseteq snapshot'
    BY <1>6 DEF watch, unwatch, MinionJoins, refresh_snapshots
  <2> QED  BY <1>1, <1>5, <2>1 DEF TablesAgree
<1>7. CASE \E m \in Minions : DeleteMinionRow(m)
  <2>1. PICK n \in Minions : DeleteMinionRow(n)
    BY <1>7
  <2>2. conformity' = [conformity EXCEPT ![n] = NoVerdict] /\ snapshot' = snapshot \ {n}
    BY <2>1 DEF DeleteMinionRow
  <2> QED  BY <1>1, <1>4, <1>5, <2>2 DEF TablesAgree
<1>8. CASE recompute_conformity
  <2>1. PICK j \in Jids :
          /\ jobs[j] # "absent"
          /\ \A i \in Jids : jobs[i] # "absent" => started[i] <= started[j]
          /\ snapshot' = snapshot \cup Recorded(job_returns[j])
          /\ conformity' = [m \in Minions |->
                 IF m \in Recorded(job_returns[j])
                 THEN [status |-> ReturnStatus(job_returns[j][m], watched), jid |-> j]
                 ELSE conformity[m]]
    BY <1>8 DEF recompute_conformity
  <2>2. ASSUME NEW m \in Minions
        PROVE  \/ conformity'[m] = conformity[m] /\ (m \in snapshot => m \in snapshot')
               \/ /\ conformity'[m].jid = j /\ m \in snapshot'
                  /\ conformity'[m].status \in {"ok", "drifted"}
    BY <2>1, ReturnStatusType
  <2>3. TablesAgree'
    BY <1>1, <1>2, <2>1, <2>2 DEF TablesAgree
  <2>4. ReturnedNotUnreachable'
    BY <1>1, <1>2, <2>2 DEF ReturnedNotUnreachable
  <2>5. ASSUME NEW m \in Minions, NEW i \in Jids, NEW k \in Jids, Supersedes(m, i, k)
        PROVE  started[i] <= started'[k]
    <3>1. conformity[m] # NoVerdict /\ conformity[m].jid = i /\ conformity'[m].jid = k
      BY <2>5 DEF Supersedes
    <3>2. jobs[i] # "absent"
      BY <1>1, <3>1 DEF TablesAgree
    <3> QED  BY <1>2, <1>4, <2>1, <2>2, <3>1, <3>2
  <2> QED  BY <1>1, <1>3, <2>3, <2>4, <2>5 DEF LoneIInv
<1> QED  BY <1>6, <1>7, <1>8 DEF PageStep

LEMMA LoneSteps ==
    ASSUME LoneIInv, \A r, s \in Syncers : r = s, [OneAtATime]_vars
    PROVE  /\ LoneIInv'
           /\ \A m \in Minions, j, k \in Jids : Supersedes(m, j, k) => started[j] <= started'[k]
<1> USE DEF saltVars, jobVars, timeVars, stateVars
<1>0. started \in [Jids -> Nat] /\ clock \in Nat /\ sent \subseteq Jids /\ TypeOK
  BY MaxClockAssumption DEF LoneIInv, IInv, TypeOK
<1>1. ASSUME UNCHANGED conformity, \A j \in sent : started'[j] = started[j]
      PROVE  \A m \in Minions, j, k \in Jids : Supersedes(m, j, k) => started[j] <= started'[k]
  <2> SUFFICES ASSUME NEW m \in Minions, NEW j \in Jids, NEW k \in Jids, Supersedes(m, j, k)
               PROVE  started[j] <= started'[k]
    OBVIOUS
  <2>1. conformity[m] # NoVerdict /\ conformity[m].jid = j /\ j = k
    BY <1>1 DEF Supersedes
  <2>2. j \in sent
    BY <2>1, VerdictJid DEF LoneIInv
  <2> QED  BY <1>0, <1>1, <2>1, <2>2
<1>2. ASSUME NEW j \in Jids, JobStep(j)
      PROVE  UNCHANGED conformity /\ \A i \in sent : started'[i] = started[i]
  <2>1. UNCHANGED conformity
    BY <1>2 DEF JobStep, LaunchPublish, LaunchRecord, FireOutside, Publish, returner, ReturnerDrops,
         MasterForgets, JobAges, ReturnsGoQuiet
  <2>2. UNCHANGED started \/ (j \notin sent /\ started' = [started EXCEPT ![j] = clock + 1])
    BY <1>2 DEF JobStep, LaunchPublish, LaunchRecord, FireOutside, Publish, returner, ReturnerDrops,
         MasterForgets, JobAges, ReturnsGoQuiet
  <2> QED  BY <1>0, <2>1, <2>2
<1>3. ASSUME NEW s \in Syncers, (\E j \in Jids : SyncRead(s, j)) \/ SyncStamp(s) \/ SyncAbort(s)
      PROVE  UNCHANGED <<conformity, started>>
  BY <1>3 DEF SyncRead, SyncStamp, SyncAbort
<1>4. ASSUME UNCHANGED vars PROVE LoneIInv' /\ UNCHANGED <<conformity, started>>
  <2>1. UNCHANGED <<conformity, started, sent, jobs, clock, job_returns, snapshot, syncs>>
    BY <1>4 DEF vars
  <2>2. IInv'
    BY <1>4, NextInv DEF LoneIInv
  <2>3. \A s \in Syncers : ReadStands(syncs[s])' /\ StampsStand(syncs[s])'
    BY <1>0, <2>1, UntouchedLone
  <2>4. TablesAgree' /\ ReturnedNotUnreachable'
    BY <2>1 DEF LoneIInv, TablesAgree, ReturnedNotUnreachable
  <2> QED  BY <2>1, <2>2, <2>3, <2>4 DEF LoneIInv
<1>5. CASE UNCHANGED vars
  BY <1>1, <1>4, <1>5
<1>6. CASE \E j \in Jids : JobStep(j)
  BY <1>1, <1>2, <1>6, JobStepLone
<1>7. CASE \E s \in Syncers : SyncStep(s)
  <2>1. PICK s \in Syncers : SyncStep(s)
    BY <1>7
  <2>2. CASE SyncCommit(s)
    BY <2>2, SyncCommitLone
  <2>3. CASE (\E j \in Jids : SyncRead(s, j)) \/ SyncStamp(s) \/ SyncAbort(s)
    BY <1>1, <1>3, <2>3, SyncReadLone, SyncStampLone, SyncAbortLone
  <2> QED  BY <2>1, <2>2, <2>3 DEF SyncStep
<1>8. CASE (\A s \in Syncers : syncs[s].phase = "idle") /\ PageStep
  BY <1>8, PageStepLone
<1> QED  BY <1>5, <1>6, <1>7, <1>8 DEF OneAtATime

\* With requests one at a time (one syncer, pages between syncs) a minion whose
\* return sync_job has stored does not keep the unreachable verdict of that
\* job, for any number of jobs, minions, late returns and deleted rows.
THEOREM ReturnedMinionsReachable ==
    ASSUME \A r, s \in Syncers : r = s
    PROVE  LoneSpec => []ReturnedNotUnreachable
<1>1. LoneIInv /\ [OneAtATime]_vars => LoneIInv'
  BY LoneSteps
<1>2. LoneIInv => ReturnedNotUnreachable
  BY DEF LoneIInv
<1> QED  BY <1>1, <1>2, InitLone, PTL DEF LoneSpec

\* With requests one at a time apply_sync_verdicts and recompute_conformity
\* never replace a verdict by one of a job that started earlier; the finding of
\* JobSyncStampRace needs two syncs.
THEOREM NewerVerdictsStay ==
    ASSUME \A r, s \in Syncers : r = s
    PROVE  LoneSpec => NewerVerdictKept
<1> DEFINE A == \A m \in Minions, j, k \in Jids :
                   Supersedes(m, j, k) => started[j] <= started[k]'
<1>1. LoneIInv /\ [OneAtATime]_vars => LoneIInv'
  BY LoneSteps
<1>2. LoneIInv /\ [OneAtATime]_vars => [A]_vars
  BY LoneSteps
<1> QED  BY <1>1, <1>2, InitLone, PTL DEF LoneSpec, NewerVerdictKept
=============================================================================
