# Verification of Overstate

Overstate is a Flask application that operates a Salt fleet of several master
pods: it fires jobs, collects their returns from Postgres, turns them into
conformity verdicts, manages minion keys on every pod, and runs background work
on RQ workers.  This directory holds TLA+ modules translated from the source,
TLC configurations for small instances, and TLAPS proofs for the results that
hold for every size.

## The system and its hard parts

| Part | State | Operations | Interacts through |
|---|---|---|---|
| Job sync and conformity (`jobs_service.py`, `states.py`, `salt-extmods/pgjsonb_upsert.py`, `inventory.py`) | `jobs`, `job_returns`, `salt_returns`, `minions.conformity`, verdict history, watch list | `launch`, `sync_job`, `apply_sync_verdicts`, `recompute_conformity`, `watch`, `unwatch`, the masters' returner | Postgres at READ COMMITTED; salt-api |
| Wave batches (`tasks_batch.py`, `run_batched`, `cancel_batch`) | parent and wave rows, the cancel flag in Redis, locals of the loop | start, wave check, publish, poll, gate, finish, cancel | RQ and Redis, salt-api, grants, `sync_job` |
| Key trust (`keys.py`, `reconcile_cli.py`) | key files of every pod | accept, reject, delete (Keys page, console), reconcile, backfill, the hourly CronJob | wheel calls and execs, one pod at a time |
| Authorisation (`authz.py`, `users.py`, `settings.py`, `groups.py`, `auth.py`) | users, local groups, grants, IdP mappings, the role column, node groups | grant, revoke, delegate, set a role, edit members, switch the mode, sign in | Postgres, `flask.g` |
| Git sync (`git_sync.py`, `file_sync_schedule.py`, `files.py`, `state_repo.py`, `formulas.py`) | the checkout on the shared volume, its `.git`, formula rows, the status of the last sync | sync, save, push, reset, clone, re-clone, repoint, formulas, the minute tick | git commands, the volume, `fileserver.update` on the master |
| Job firing (`jobs.py`, `launch`, `api.py`, `users.py`) | jobs that run, saved jobs, service accounts, API tokens | run, kill, save, delete a saved job, mint, revoke and expire a token, `POST /api/jobs/run` | grants, node groups, the inventory, salt-api |
| Master configuration (`masterconfig.py`, `k8s.py`, `groups.py`, `reactor.py`) | the owned ConfigMap and its history, the StatefulSet and its pods, the restart flag and state | save, revert, restart, node group write, recorded mapping, the rollout thread | Kubernetes API with resource versions; settings rows |
| Minions pages (`minions.py`, `minions_helpers.py`, `fleet.py`) | rosters, presence and pod map cached in Redis, snapshot rows | list, presence poll, detail, refresh, remove | salt-api on every pod, Redis, Postgres |
| Queue and dashboard (`tasks_queue.py`, `tasks_salt.py`, `dashboard.py`) | RQ jobs, the capability cache, the poll of a page | enqueue, probe, poll, check now | Redis |
| Salt client, schedules, event stream, pillar, the rest of the console | see PROJECT.json | | |

What is hard to test here: two requests that sync one job over a database that
serialises nothing; verdicts compared and then written; returns that arrive after
a job was declared over; a worker that is ended inside a batch; grants revoked
while a batch runs; an enqueue whose reply is lost; an accept decided on what a
pod listed a moment ago; a pod that does not answer while a decision is made; a
git killed at its checkout; a delegate's write judged by every grant the group
holds; a re-clone that breaks off with half a checkout; a reset decided on a
tracking ref that a pull moves; a target narrowed to a scope that is revoked
before the publish; two writers of one ConfigMap, and a rollout whose counters are
still those of the one before; a cache filled from half a read; a page that polls
a dead worker.  PROJECT.json lists each at its line under "hazards".

## Modules

- `JobSync`: how returns become stored returns, a completed job and verdicts.
  A `sync_job` call is three steps, because other requests run between them:
  `SyncRead` (the reads before the salt-api call), `SyncStamp` (the master's
  answer and the reads of the verdict loop) and `SyncCommit` or `SyncAbort` (the
  transaction, or its rollback on a constraint).  A publish reaches the minions of
  `fleet` that the expression matches then (`covered`); the job row keeps the
  expression, which `Targeted` matches again, against the minions table of that
  moment, when verdicts are given.  Time is the two questions the
  code asks of the clock: is the job row older than the grace period (`aged`),
  and is its youngest return (`quiet`).  `started` ranks `started_at`.
- `WaveBatch`: one batch from the form to its end.  `pc` is the place in
  `run_wave_batch`, with a place of its own ("saving") between the commit of the
  parent row and the enqueue, where `save_as` may raise; a publish may reach any
  subset of the wave, also when it fails; the waves are slices of the positions of
  the pinned roster; the cancel flag has an `age` and lapses, and `parked` is what
  of it was spent in the queue; `twin` is the second process of an enqueue whose
  reply was lost.  Time is counted in turns of the polling loop, and RQ's and gunicorn's
  timeouts and crashes end the process where it is.
- `KeyTrust`: the key files of one minion id on N pods (every operation treats
  ids separately).  Each wheel call or exec is a step of its own, so pods fail,
  the minion checks in or rotates its key, and other passes run between them.
- `Authz`: users, local groups, IdP mappings, grants and the role column, in
  legacy and in scoped mode.  A write request is `Check` (what the handler
  decides, from the rows as they are), the commit under the handler's name
  (`create_grant`, `set_role`, ...) and one `Refresh` per affected user, because
  `refresh_role_cache` is a transaction of its own (of `set_role` too, whose audit
  entry commits the grants first).  `memo` is the caller's `g.grant_entries`.
  `env` holds the settings without a row, whose value is the environment's; a
  redeployment (`Redeploys`) changes them without a request.  `stale` and `settled`
  are histories: the columns no recomputation of which is known to have read the
  grants as they are, and whether scoped mode was entered on the page over the
  group lists there are.  `Effective`, `Resolve`, `authorize`, `has_fleet` and
  `perm_scope_minions` are the evaluation of `authz.py`; `MayDelegate` and
  `MayEditGroup` its rules for delegates.  Roles and permissions are those that
  the properties tell apart: `ROLE_PERMS` merges permissions that every role
  holds together.
- `GitSync`: the states checkout, the web requests on it and the file-sync
  CronJob beside them.  A step is one git command or one change of the volume or
  the database.  The contents of the states are a version number and a history
  is a set of versions, so "ahead", "behind" and "diverged" are set differences;
  `index` and `disk` are the staged version and the one in the working tree.  The
  checkout is three entries (`.git`, `salt/`, the rest), which a re-clone that
  breaks off leaves in any combination.  git itself is external: `Blocked` and
  `CheckedOut` state what `pull --ff-only` and `reset --hard` do, `HalfCheckedOut`
  and `MayLock` what a git that is killed (by the timeout of `_run` or with its
  worker) leaves: files without their index, an index without its HEAD, and
  `.git/index.lock` (`locked`), which makes every later change fail until `.git` is
  replaced.  `vendored` are the formulas that a request has installed to the end;
  a formula's directory may also be half an install or put there by hand
  (`PlaceByHand`).
- `JobFire` extends `Authz` with the requests that fire jobs: the Run job page,
  the kill button, and service accounts whose tokens are free or pinned to a
  saved job.  A request is checked (`run`, `kill`, `pinned_fire`,
  `unpinned_fire`), narrows its target (`launch`, `constrain_target`) and
  publishes; every step of `Authz` may come in between (`Directory`).  A page
  reads the caller's grants once, a token's request when it narrows.  A target is
  the set of ids Salt would match; `published_snapshot_ids` is what the inventory
  knows of it.  `had`, `held`, `fleet` and `legacy` record for the property what
  the caller had at some point of the request.
- `VersionedConfig`: what the editors of the master configuration promise.  The
  content moves by one edit of what is live, or to a content that was live
  before; a node group write may also take the groups from an earlier content.
- `MasterConfig`: the ConfigMap, its history, the StatefulSet and the restart.
  Each Kubernetes call is a step (`step` of a request); resource versions decide
  whether a PUT is taken.  `Observe`, `Roll` and `Boot` are the controller and
  the pods; a page that may clear the restart flag is three steps (`page`), as
  Kubernetes answers between its read of the generation and its delete;
  `_finish_restart` threads poll beside the requests and die with
  their workers.  `EditsCompose` is the refinement of `VersionedConfig`, with
  `content <- live.data`.
- `Dashboard`: the probes on the queue, the capability cache and the poll of one
  browser page, of which the model keeps what stops it: its clock and what the
  page shows.
- `FleetViews` extends `Dashboard` with the minions pages.  A request reads a
  cache or each pod in turn, where the key list and the presence may fail
  separately, fills the cache and answers (`out`).  `heard` is what of presence was
  told: one reading for each pod that answered.
- `JobSyncProofs`, `WaveBatchProofs`, `KeyTrustProofs`, `AuthzProofs`,
  `JobFireProofs`, `MasterConfigProofs`, `GitSyncProofs`, `FleetViewsProofs`: the
  theorems about the modules they are
  named after, see Proofs.
- `MCJobSync`, `MCWaveBatch`, `MCKeyTrust`, `MCAuthz`, `MCGitSync`,
  `MCMasterConfig`, `MCFleetViews`: the small instances.  `Authz`, `WaveBatch`
  and `FleetViews` take their situation from a constant and choose it in `Init`,
  so that one run covers several.

## Runs

| Run | Shows |
|---|---|
| `JobSyncSequential` | With requests one at a time: a minion whose return is stored does not stay unreachable, a newer job keeps its verdict, every job completes although returns get lost (liveness). |
| `JobSyncConcurrent` | With two syncs interleaved with everything else: verdicts are backed by stored returns, an ok or drifted one links only to a job that was published to the minion and an unreachable one to a job whose expression matches it, whoever joins meanwhile, and a complete job reopens only for a new return. |
| `JobSyncStampRace` (violation) | The verdict on file is compared and then replaced; two syncs can leave the older job's verdict. |
| `WaveBatchGate` | No two waves reach a minion and only a lost enqueue reply publishes to one twice, the whole roster covered, the failure limit, cancel (for a flag that outlives the batch's time in the queue and its process), and the end of the parent row unless the process was ended or `save_as` raised, for all the ways to cut three minions into waves; and revocations between waves hold for a queued batch. |
| `WaveBatchReturns` (violation) | The returns of a wave are never copied: its jid has a synthetic prefix. |
| `KeyTrustLone` | Automation grants only what another pod accepts at that moment, leaves a full delete alone, and completes every split that it may complete (liveness). |
| `KeyTrustDeleteRace` (violation) | Run concurrently with a delete, a pass accepts a key that nobody approved. |
| `AuthzDelegation` | A delegate's writes, through grants and through group members, change nothing outside the delegated scope and add only what the delegate holds; some fleet admin remains whatever admins do to each other, one request at a time; in scoped mode the role column agrees with the grants between requests, except where a worker died between a commit and its recomputation, an account edited itself, or the environment brought scoped mode in; where the settings page brought it in, no backfilled mapping outlives the setting it came from.  With jobs fired beside it: a publish or a kill reaches only minions that a grant its caller had during the request covered at some point of it, and a token fires only the job it was pinned to, whatever is granted, revoked, saved and deleted meanwhile. |
| `AuthzFallback` (violation) | Entering scoped mode recomputes the role column of accounts without grants, so the fallback no longer finds the role it is to keep. |
| `GitSync` | No reset, re-clone or repoint loses a commit that is on no remote unless forced or, for a re-clone, its probe for a checkout got no answer; a save commits what it wrote although the CronJob pulls meanwhile; a cleaning reset keeps every formula that was installed to the end; scheduled runs deliver upstream commits after any failure but a git killed in the middle of a change, and retry a fileserver refresh on record (liveness). |
| `MasterConfig` | Racing saves, node group writes, recorded mappings, reverts and hand edits compose (refinement of `VersionedConfig`); what a writer overwrites is in the history; a restart reports success only after every pod booted with the content it was asked for; a page clears the restart flag only when the pods run what it was set for, unless another generation was recorded while Kubernetes answered; a restart never shows as running for ever (liveness). |
| `FleetViews` | A page shows a minion up only if a pod listed it, dead or down only if a pod answered and none that did listed it, and skips its call only on the word of the default pod; of the pods that had the key all along a removal names all that did not answer, and leaves out only those that answered without applying it; a dashboard stops polling whatever the worker does (liveness). |

### Bounds

`JobSync`: one or two jobs, one or two minions, one or two syncs.  A race between
syncs needs two; a verdict needs one minion, and a second, spared one shows
targets; either may join after the publish; two jobs are enough for an order
between them.  `MaxClock` bounds the ranks given out by jobs and discoveries.
`WaveBatch`: three minions give waves of equal and unequal size and percentages
that round; where grants move or the reply to the enqueue is lost, two minions in
two waves.  `CancelTTL` is longer than a process may run, as an hour is longer
than RQ's 300 s, and short enough for a flag to lapse in the queue.  `KeyTrust`:
two pods, two keys (the rotation), three operator actions (accept, delete and
accept again) and one outage.  `Authz`: three write requests (give the group a
grant, change its scope's members or the lead's own grant, use it), an admin, a
lead and a third account, two minions of which the lead has one, one local group
and one node group; for the switch two accounts and one IdP group, as mappings of
different groups never meet, once with a local group in its place, once with every
setting in the database and once with all of them from the environment; where
workers die, two requests.  Leads that are made and unmade and the roles of the
other accounts are situations of their own. `JobFire`: one request beside two
writes where grants, groups and the mode move, at the fleet or, with the group's
members moving too, at a node group; two requests beside four writes (delete the
token, the saved job, save and mint again) where tokens and saved jobs do.
`MasterConfig`: two admins, two pods, one node group, one mapping and one line of
the other file, a history of two (a third snapshot drops one); three requests on a
cluster at rest, or two beside two rollouts (one rollout to be superseded by the
next), and one page at a time between its read and its delete. `FleetViews`: two
pods (one answers, one does not) and two minions for the lists, one minion
elsewhere; two requests only for removals that meet; one or two surrounding events
(a key change, a reconnect, a Redis outage) per behaviour; a page that gives up
after one tick and is loaded once more. `GitSync`: two remotes for repoints and
foreign re-clones; three versions make a local and an upstream commit diverge; two
requests on the states, or three on one formula (add it, re-clone, reset), beside
an unbounded CronJob; one request dies or breaks off.  Cleaning resets and the
page's "sync now" (the CronJob runs the same function) belong to the formula's
subject, where directories may also be put by hand.  Others commit to the remote
that origin is at (`OffOrigin`): one that has gone on before it is turned to is
met right after. `MaxVersions` and `MaxRequests` depend on `subject`, which is
chosen in `Init`, because edits of the states and formula requests meet only in
the requests that both subjects allow (sync, reset, clone, re-clone).

CHECK_DEADLOCK is off except for `FleetViews`: when all jobs, batches and bounded
actions are through nothing more has to happen.

### Fairness

`JobSync`: clocks advance, the master's job cache expires, the jobs page and the
job stream poll running jobs (and only those), a request that has read goes on,
and constraint conflicts do not roll back every attempt for ever.  `WaveBatch`:
Redis outages end, a worker takes queued jobs, a process runs until it returns
or is ended.  `KeyTrust`: outages end, the CronJob starts a pass whenever the
last one ended, a request goes on, and an exec on a pod that is up does not fail
for ever.  `GitSync`: a slot of the schedule comes and the tick starts a run, a
pod that has begun goes on, and (strong fairness, as they answer some calls and
not others) a remote and a master asked again and again answer some time.  Web
requests have no fairness: nobody has to ask for anything.  `MasterConfig`:
time passes, and a restart thread that is alive goes on; pods, the controller and
requests have none, so `RestartSettles` also covers a rollout that hangs.
`FleetViews`: the browser's timer fires and time passes; nothing is assumed of the
worker or of Redis.  `Authz` and `JobFire` have no liveness property and assume no
fairness.

## Proofs

A proof module extends the module it is about, has no model of its own, and holds
for every value of the constants that the module's named assumptions allow.  In
each the properties are not inductive as they stand: they speak of tables, while
what makes a step safe is what a request, a pass, a loop or a thread that is under
way still holds.  The inductive invariant says what that is.

- `JobSyncProofs`, for every set of jobs, minions, payloads and concurrent syncs.
  `IInv`: the transport table only holds rows of minions the job was published to
  (`RowsGenuine`); a stored return equals the transport row, which never changes
  once written, so a stale copy in a session is still right (`StoredAsReturned`);
  a job is published to minions its expression matches, and the recorded
  expression is the published one or empty (`TargetRecorded`); and of a
  session (`SyncsSound`) that its rows are transport rows, that on a complete job
  it has a return its read did not find stored, and that its verdicts rest on
  rows it will store and on its target.  `SyncCommitInv` is the heart: without a
  conflict the commit stores every row its verdicts rest on.
  For requests one at a time (`LoneSpec` and at most one syncer, the hypothesis
  of the theorems) `LoneIInv` adds that a verdict is on a row of the minions table
  and of a job with a row (`TablesAgree`), that what a sync did not find is still
  not stored (`ReadStands`), and that what its verdict loop compared with is what
  it replaces (`StampsStand`): `ReturnedMinionsReachable`, `NewerVerdictsStay`.
  The run `JobSyncStampRace` shows that the hypothesis is needed.
- `KeyTrustProofs`, for any number of pods, keys and passes.  `TypeInv` holds for
  every interleaving; the other theorems are about `LoneSpec`, where requests and
  passes do not overlap: `ViewHolds` and `PlanHolds` tie what a pass has read and
  decided to the files as they are, `FanOutHolds` says how far a delete has got.
  `LonePassesInventNoTrust` is the counterpart of the violation that
  `KeyTrustDeleteRace` finds with overlap.
- `WaveBatchProofs`, for a finite fleet of any size (`FleetAssumption`), every
  wave size, limit and timeout.  `SplitIsPartition` says that the waves are
  disjoint and cover the roster; the split is stated on the positions of a
  roster, so that it is one arithmetic fact (`Slice`) and no recursion.
  `BatchInv` relates the loop (`num`, `pc`) to what was published, charged and
  recorded: failures are bounded by the waves charged before this one
  (`FailuresHold`), a wave reaches minions of its own slice (`SentHolds`), a
  cancel or a revocation is ordered against the last check (`CancelHolds`,
  `RevokedHolds`), where a flag's age bounds how long it may still stand
  (`FlagHolds`, `FlagStands`), and the twin keeps to the first wave (`TwinHolds`).
- `MasterConfigProofs`, for any number of admins, pods, node groups, lines and
  history limit.  `RestartInv`: a pod of the revision of a generation has booted
  since the content of that generation was live (`StampedAt`, `BootedSince`), for
  every restart under way, every thread and the restart flag; this gives
  `RestartsApply`.  `PageInv` carries it over the time in which a page waits for
  Kubernetes: the rollout it was told of is newer than the generation it read, and
  a generation recorded meanwhile is another one; this gives `HealingIsSound`.
  `WriterInv`: what a writer will put is one edit of the content its resource
  version stands for, and its snapshot is in the history unless pushed out; this
  gives the refinement of `VersionedConfig` (`ConfigRefinesStore`, with `content
  <- live.data`) and `OverwritesAreKept`.
- `AuthzProofs` and `JobFireProofs`, for any accounts, groups, scopes, minions and
  situations that `SetupsAssumption` and `FireSetupsAssumption` allow (they say
  what the database enforces: a grant's user exists, a pin names a saved job,
  tokens belong to service accounts).  `LoneInv`: with requests one at a time what
  a check saw is what its commit finds (`CheckedHolds`); a column is the one its
  grants give, or its recomputation is due, or it is among the `stale`
  (`RoleHolds`); in a guarded situation
  admin comes from one's own fleet grant and somebody has one (`AdminHolds`).
  `CommitStaysInside` is the subset rule: the entries that a delegate's commit
  gives or takes are on scopes inside the delegated one.  `FireInv` adds the job
  under way: the grants and minions its caller has are among those it has met,
  what it has read too (`Met`, `Read`), a narrowed target is inside them
  (`Narrowed`), and a live token stands for the job that was saved when it was
  minted (`PinHolds`), because a pinned job is neither deleted nor overwritten.

- `GitSyncProofs`, for every set of remotes and formulas and every bound on
  versions and requests (`RemotesAssumption`, `FormulasAssumption`,
  `BoundsAssumption`) and wherever others
  push (`OffOrigin`). `IInv` says which request may be at which step (`Placed`)
  and what it relies on there: no version is known before it is written (`Known`,
  with the lemma that a history that is not empty has a tip); a checkout that is
  gone holds no commit, and only then is a clone moved in (`GoneIsEmpty`); the
  file a save has written is still its own when it commits, because `pull
  --ff-only` refuses over it (`EditStands`); what an ahead check let pass is still
  upstream when the reset or the re-clone comes, although the scheduled run may
  pull in between (`NothingAhead`); and every formula that was installed to the
  end is on disk and excluded, through requests that are cut short and re-clones,
  which replace the list (`VendoredExcluded`).  This gives `EditsReachCommits`,
  `UnpushedCommitsSurvive` and `CleansKeepFormulas`.
- `FleetViewsProofs`, for any number of minions, pods and workers and any setup of
  `FleetAssumption` (who may do what to which minions).  A page is honest because
  of what was cached long before it, so `IInv` follows a roster from its reads to
  the page: a roster that claims presence says what the readings of the pods that
  answered say, of the default pod if it is the sticky one (`Heard`,
  `StickyHeard`), while a request holds it (`Placed`), in its cache (`CacheOK`)
  and in the labels that everybody may be shown (`PresenceOK`).  For removals
  `StillNamed` says that a pod that has had the key all along is still to be
  asked, or is one the report will name, or has answered a delete it did not
  apply, at every step of the confirmation and of the fan-out:
  `RemovalReportsAreHonest`. `FleetTypeCorrect` includes the dashboard, which
  polls through the same Redis.

Attempts to prove `Authz` corrected it.  `DelegationIsSubset` was false for an
account that lives on the migration fallback, which its first grant ends, and
`FiresStayAuthorised` for a page that reads its caller's grants at the check and
resolves them against the inventory later: a grant withdrawn in between still
reaches a minion that joined after it was withdrawn.  Both properties now say what
the code does, and `MCAuthz` has situations in which TLC reaches these cases.

They also corrected how the modules are written.  A `CASE` whose guards overlap
leaves open which branch is meant, and TLC takes the first: nothing follows from it
where two guards hold.  The role shown for an account, the provisioning of OIDC
users, the narrowing of a target, the tabs of the keys page, the labels of minions
and the state of a dashboard job now test one condition after the other, as the
code does.  `FleetAssumption` says that a setup is made of operations, minions and
workers of the model, and the type of a request names its steps.

Only model-checked: the liveness properties (`EventuallyComplete`, `BatchSettles`,
`TrustConverges`, `SyncDelivers`, `RefreshRetried`, `RestartSettles`,
`PollingStops`), which are beyond the prover.

## Known divergences without a run of their own

- `jobs_service.py:100`: two syncs of one job, of which the first read no
  return, can leave a returned minion unreachable (docs/guides/user.md:257).
- `jobs_service.py:103`: a job fired outside the UI starts, for the order of
  verdicts, when it is first seen; found late it replaces a newer verdict.
- `jobs_service.py:698` and `states.py:129`: at completion the recorded expression
  is matched against the minions there are then, so a minion that joined after the
  publish is called unreachable on a job it never got.  `ChecksOnlyItsTarget` says
  "published to" of ok and drifted only.
- `jobs.py:192`: the poll takes the ten most recent running jobs.  The fairness of
  `EventuallyComplete` has it reach every running one.
- `jobs.py:194`: complete jobs are no longer polled, so a late return stays in
  the transport table (docs/guides/user.md:261 says verdicts update themselves).
- `tasks_queue.py:22`: the RQ job timeout (300 s) and gunicorn's (90 s) are
  shorter than one wave's wait (600 s); an ended process leaves the parent row
  running.  `BatchSettles` therefore excludes it.
- `jobs_service.py:828`: the parent row is committed before the saved job is
  inserted; a `save_as` name that is taken (`models.py:264`) raises before the
  enqueue, and the row stays running with no process.  `BatchSettles` sets it aside.
- `tasks_queue.py:95`: an enqueue whose reply is lost runs the batch in the request
  and on a worker, and the first wave is published twice.  `EachMinionOnce` names the
  case.  The twin is followed to the insert of the first wave's row, where it ends;
  if only one of the two publishes fails the rows do not collide, and what the second
  process does with later waves is not modelled.
- `tasks_batch.py:33`: the cancel flag lapses after 3600 s.  A process is ended long
  before that, but nothing bounds the time in the queue: a batch cancelled there may
  run after all.  `CancelStopsWaves` sets flags aside that may lapse so.
- `authz.py:468`: an inline batch re-checks grants memoised at the start of its
  request.  `RevocationHolds` is stated for queued batches.
- `keys.py:296`: a pass only sees pods that answer, so a reject on a pod that is
  down does not hold it back; and it looks at the first tab of an id, so a denied
  key beside an accepted one is not seen (`keys.py:397`).
- `keys.py:867`: reject moves pending keys only; the accepted key survives it
  and is copied on (docs/guides/user.md:174).
- `users.py:561`: `set_role` writes its audit entry before it recomputes the column,
  which commits the grants (`audit.py:42`); a worker that dies in between leaves the
  old column.  `RoleFollowsGrants` excepts it until the next recomputation.
- `authz.py:318` and `settings.py:169`: `RBAC_MODE`, `RBAC_ROLE_FALLBACK` and the
  OIDC group lists may come from the environment.  Scoped mode entered so rebuilds no
  mapping and recomputes no column (docs/reference/rbac.md:176 lists the variable as
  an equal of the setting), and a save afterwards finds scoped mode in force and does
  neither (`settings.py:587`).  `RoleFollowsGrants` and `BackfillFollowsSettings` are
  stated for a mode entered on the page.  A redeployment is one step here, between
  requests; old and new replicas side by side are not modelled, and the lists of
  admins and operators are one setting.
- `users.py:1079`: the subset rule is checked before the write of line 1098 commits.
  `DelegationIsSubset` is checked with write requests one at a time.
- `authz.py:471`: an admin who removes the last source of their own role keeps
  it in the role column, which is recomputed from the memo of the request
  (docs say that deleting a mapping drops the access at once).
- `authz.py:822`: a scope that matches no minion is a subset of every scope; a
  grant on it grows with the inventory.  `delegate_group_error` looks at the
  scopes of a group's grants and not at their permissions, so adding a member may
  confer more than the delegate holds on minions in the delegated scope.
- `authz.py:512`: an account without grants lives on its role column while the
  fallback is on, and its first grant ends that: a delegate who grants anything to
  such an account takes its fleet role away.  `DelegationIsSubset` excepts it.
- `authz.py:466`: a page resolves the scopes of grants it read at its check
  against the inventory and the node groups at the publish.  `FiresStayAuthorised`
  therefore speaks of what these grants cover until then.
- Two admins who demote each other at the same moment, or admins by a local
  group, can leave none: `AdminRemains` is checked with requests one at a time
  and without groups that confer admin.
- In legacy mode writes to grants and groups overwrite the ladder column, and
  demotions leave the backfilled grants that return with scoped mode.
- `groups.py`: saving a matcher other than a list removes a node group that
  grants refer to; only the delete is refused.
- `git_sync.py:57`: the lock that serialises git writes belongs to one process,
  while four workers on two replicas and the CronJob share the volume.  A commit
  of one web worker between another's ahead check and its reset is destroyed.
  `UnpushedSurvive` is checked for one web request at a time beside the CronJob.
- `files.py:679`: the check of a save's base and its write are two steps; what
  is pulled or saved in between is overwritten.
- `file_sync_schedule.py:211`: only the status row remembers that a refresh
  failed.  A sync that fails, or one that read the row earlier, overwrites it,
  and the refresh is not retried on the next run as docs/guides/admin.md:214
  says.  `RefreshRetried` sets failed syncs aside.
- `git_sync.py:190`: a git that is killed, by its 30 s limit, with its worker or at
  the Job's deadline, may leave `.git/index.lock` or half a checkout.  No code removes
  them: every later pull that has something to change fails until a re-clone, or for
  half a checkout a reset.  `SyncDelivers` is stated for a checkout without them.
  Locks on refs and on the config are not modelled apart.
- `git_sync.py:209`: `_is_checkout` is also false when `rev-parse` fails or times
  out; an unforced re-clone then skips the ahead check (`git_sync.py:948`) and loses
  unpushed commits.  `UnpushedSurvive` excepts such re-clones.
- `git_sync.py:1003`: a repoint is refused when the old origin does not answer,
  which is when it has moved.
- `git_sync.py:1436` and `git_sync.py:962`: "Nothing changed" is also reported
  after the old tree was deleted and the new one could not be moved in.
- `formulas.py:280`: tracking a directory that was put there by hand adds no exclude
  pattern, and an install that fails half-way (`git_sync.py:1290`, `1324`) or whose
  worker dies before the exclude leaves a directory without one.  A cleaning reset
  deletes them, tracked or not; `CleanKeepsFormulas` is about formulas whose install
  came to its end.
- `jobs_service.py:491`: `api.py:4` says that a token can never ride the legacy ladder,
  but `launch` reads `rbac_mode` again after `_authenticate` has committed: an
  admin who switches to legacy in between lets the request publish its target as
  it stands.  `FiresStayAuthorised` sets requests aside that met legacy mode.
- `authz.py:682`: a scoped kill is judged on the ids the inventory knows, so it
  may reach a part of the job it is sent to.
- A round trip through legacy mode, in which an account is made admin by its role
  column and the last account with a fleet admin grant is deleted, leaves none:
  `AdminRemains` is checked where the mode stays.
- `masterconfig.py:502` and `groups.py:123`: the thread of a restart clears the
  flag without asking what was saved since; a save during the rollout loses its
  banner.  Between `set_restart_needed` and the recorded generation a page may
  also clear it, and `kubectl scale` supersedes a generation without restarting
  a pod.
- `groups.py:70`: a page reads the recorded generation, asks Kubernetes
  (`groups.py:78`, up to 10 s) and then deletes whatever flag there is
  (`groups.py:123`): a save in between loses its banner although no pod has booted
  with it.  `HealIsSound` speaks of flags whose generation is still the one read.
- `groups.py:145`: a node group write reads the file twice, and a group saved in
  between is dropped; it takes no snapshot.
- `masterconfig.py:365`: a save refused by a conflict leaves a snapshot behind;
  and what is saved between a revert's snapshot and its second read is
  overwritten without one (`OverwrittenIsKept` sets it aside).
- `minions_helpers.py:444`: presence counts as read once any pod answered it, so the
  minions of a pod whose presence failed are shown, and cached for everybody, as dead;
  `minions_helpers.py:279` says "never derive from a read that did not happen".
  `ViewsTellWhatWasRead` says no more than that none of the pods that answered listed
  the minion.
- `minions.py:593`: a pod whose presence answered and whose key list did not
  counts as reachable, so a removal may say that a minion is unknown whose key
  the pod has.  Without `delete_key` the same answer comes from a cached roster.
- `minions.py:603`: a removal does not look at what `key.delete` answered, which the
  Keys page does (`keys.py:64`, `868`): a pod that answers 200 and keeps the key
  goes unnamed in "Salt key deleted".  `RemoveIsHonest` excepts the pods of both
  cases.
- `fleet.py:76`: without known pods only the default client is asked, by lists and
  removals alike; what they say is about that pod, and about no other.
- `minions_helpers.py:410`: in the same case an empty status map is cached.
- `tasks_queue.py:372`: clearing the key caches does not reach a request that has
  read before and fills the cache after, leaves the presence cache, and does
  nothing while Redis is away.
- `minions.py:599`: a `key.delete` that timed out may have been carried out
  although the page says that nothing changed; a refresh under way can bring a
  removed row back; the cached scan of a removed minion stays.
- `dashboard.py:312`: a viewer who has lost every grant gets 403 and keeps polling.

## Not modelled

- Salt itself, git, Kubernetes, RQ and Redis are external: the modules have what
  the code can observe of them.
- The salt-ssh and orchestration paths of `launch`, the inner function of
  `schedule.add`, the rate limits of sign-in and tokens, passwords and sessions.
- The live reactor mapping, schedules and the event stream: one call each to the
  master with no state of their own.
- Pillar secrets, pillar editors, `mine.py`, `vulns.py`: file or call wrappers
  (the scan a removal leaves behind is in `FleetViews`).
- The console's `salt` and `salt-run` lines, and its shells on the pods.
- Cron expressions (`file_sync_schedule.py`): a slot comes or it does not.
- `salt_client.py`: one request and one login retry; its failures are the
  unanswered calls of the other modules.  The cluster bootstrap is shell code and
  patches of Salt.

## Plan

Every safety and action property that a passing run checks is now a theorem as
well.  Next: the lemmas that liveness rests on and that need no fairness (that the
waves left, the pods a pass has still to read and the steps of a restart only
decrease), and the typing of `JobFire` and `Dashboard` apart from the modules that
compose them.
