------------------------------ MODULE Dashboard ------------------------------
(***************************************************************************)
(* The dashboard's live panels (dashboard.py) over the RQ queue            *)
(* (tasks_queue.py, tasks_salt.py): the shell queues one probe per panel,  *)
(* and the browser polls until every probe is settled or the poll is stale *)
(* -- with Redis, the worker and the viewer's grants changing in between.  *)
(***************************************************************************)
EXTENDS Naturals, FiniteSets

CONSTANTS
    Panels,             \* the panels with a probe of their own
    CapsPanel,          \* the one whose result is also cached
    POLL_STALE_AFTER,   \* POLL_STALE_AFTER_S, in ticks
    MaxLoads            \* bound: loads of the page

ASSUME PanelsAssumption ==
    CapsPanel \in Panels /\ POLL_STALE_AFTER \in Nat /\ MaxLoads \in Nat

VARIABLES
    redis,      \* Redis answers
    job,        \* job[p]: the RQ job the page knows as panel p
    recheck,    \* a capability probe no panel waits for
    caps,       \* the capability cache holds a result
    viewer,     \* whether the viewer has any grant, and the panels they may probe
    inFlight,   \* the numbers from the database, as far as the page shows them
    page,       \* the page in the browser: polling, its clock, what it shows
    loads       \* loads of the page so far

dashVars == <<job, recheck, caps, viewer, inFlight, page, loads>>

JobStates == {"none", "queued", "started", "finished", "failed", "expired"}
Viewers == {v \in [access: BOOLEAN, fleet: SUBSET Panels] : v.access \/ v.fleet = {}}
Shown == [panels: SUBSET Panels, in_flight: BOOLEAN]

DashTypeOK ==
    /\ redis \in BOOLEAN
    /\ job \in [Panels -> JobStates]
    /\ recheck \in BOOLEAN /\ caps \in BOOLEAN /\ inFlight \in BOOLEAN
    /\ viewer \in Viewers
    /\ page \in [probing: BOOLEAN, age: 0..POLL_STALE_AFTER + 1, seen: Shown]
    /\ loads \in 0..MaxLoads

DashInit ==
    /\ redis = TRUE
    /\ job = [p \in Panels |-> "none"]
    /\ recheck = FALSE /\ caps = FALSE /\ inFlight = FALSE
    /\ viewer = [access |-> TRUE, fleet |-> Panels]
    /\ page = [probing |-> FALSE, age |-> 0,
               seen |-> [panels |-> {}, in_flight |-> FALSE]]
    /\ loads = 0

-----------------------------------------------------------------------------
(* What a request computes.                                                 *)

\* read_capability_cache: a Redis error is a miss.
read_capability_cache == redis /\ caps

\* _fingerprint over collect_stats: what the client will show.
fingerprint(live) ==
    [panels |-> live \cup {p \in {CapsPanel} : p \in viewer.fleet /\ read_capability_cache},
     in_flight |-> inFlight]

\* describe_job: an unknown, failed or unreachable job is gone.
describe_job(p) ==
    IF ~redis \/ job[p] \in {"none", "failed", "expired"} THEN "gone"
    ELSE IF job[p] = "finished" THEN "ready" ELSE "waiting"

\* queue_or_none: no job when Redis does not answer.
queue_or_none(p) == IF redis /\ p \in viewer.fleet THEN "queued" ELSE "none"

-----------------------------------------------------------------------------
(* The routes.                                                              *)

\* Mutant: the poll clock starts again with every rendering.
ClockRestarts == 0

\* _poll_started: the clock of the query string is handed on to the next poll.
poll_started == page.age

\* index: one probe per panel the viewer may see, the page polls if any was queued.
index ==
    /\ loads < MaxLoads /\ loads' = loads + 1
    /\ job' = [p \in Panels |-> queue_or_none(p)]
    /\ page' = [probing |-> \E p \in Panels : queue_or_none(p) = "queued",
                age |-> 0, seen |-> fingerprint({})]

LoadPage == index /\ UNCHANGED <<redis, recheck, caps, viewer, inFlight>>

\* check_now: one more capability probe, then the redirect to the page.
check_now ==
    /\ CapsPanel \in viewer.fleet
    /\ recheck' = (recheck \/ redis)
    /\ index
    /\ UNCHANGED <<redis, caps, viewer, inFlight>>

\* panels: settled panels are shown, a poll past its clock is the last one, and
\* a rendering like the one before is a 204.  A viewer without a grant gets a 403,
\* which leaves the page as it is.
panels ==
    LET state == [p \in viewer.fleet |-> describe_job(p)]
        seen == fingerprint({p \in viewer.fleet : state[p] = "ready"})
        waiting == \E p \in viewer.fleet : state[p] = "waiting"
        probing == waiting /\ page.age <= POLL_STALE_AFTER
    IN  /\ page.probing /\ viewer.access
        /\ IF probing /\ seen = page.seen
           THEN UNCHANGED page
           ELSE page' = [probing |-> probing, age |-> poll_started, seen |-> seen]
        /\ UNCHANGED <<redis, job, recheck, caps, viewer, inFlight, loads>>

-----------------------------------------------------------------------------
(* The worker.  Nothing makes it go on: it may die in the middle of a job.  *)

\* fleet_keys_task, fleet_presence_task and fleet_versions_task raise when no
\* master answers.
fleet_task(answered) == IF answered THEN "finished" ELSE "failed"

StartJob(p) ==
    /\ redis /\ job[p] = "queued"
    /\ job' = [job EXCEPT ![p] = "started"]
    /\ UNCHANGED <<redis, recheck, caps, viewer, inFlight, page, loads>>

FleetTask(p) ==
    /\ redis /\ p # CapsPanel /\ job[p] = "started"
    /\ \E answered \in BOOLEAN : job' = [job EXCEPT ![p] = fleet_task(answered)]
    /\ UNCHANGED <<redis, recheck, caps, viewer, inFlight, page, loads>>

\* capabilities_task: every door reports whatever the masters answer, and the
\* result is cached, then returned.
capabilities_task ==
    /\ redis /\ job[CapsPanel] = "started"
    /\ caps' = TRUE
    /\ job' = [job EXCEPT ![CapsPanel] = "finished"]
    /\ UNCHANGED <<redis, recheck, viewer, inFlight, page, loads>>

RecheckTask ==
    /\ redis /\ recheck
    /\ recheck' = FALSE /\ caps' = TRUE
    /\ UNCHANGED <<redis, job, viewer, inFlight, page, loads>>

-----------------------------------------------------------------------------
(* The surroundings.                                                        *)

\* RESULT_TTL and CAPABILITY_TTL run out; a job past JOB_TIMEOUT is failed.
ResultExpires(p) ==
    /\ job[p] \in {"finished", "failed"}
    /\ job' = [job EXCEPT ![p] = "expired"]
    /\ UNCHANGED <<redis, recheck, caps, viewer, inFlight, page, loads>>

CapsExpire ==
    /\ caps /\ caps' = FALSE
    /\ UNCHANGED <<redis, job, recheck, viewer, inFlight, page, loads>>

GrantsMove ==
    /\ viewer' \in Viewers
    /\ UNCHANGED <<redis, job, recheck, caps, inFlight, page, loads>>

JobsMove ==
    /\ inFlight' = ~inFlight
    /\ UNCHANGED <<redis, job, recheck, caps, viewer, page, loads>>

Tick ==
    /\ page.probing /\ page.age <= POLL_STALE_AFTER
    /\ page' = [page EXCEPT !.age = @ + 1]
    /\ UNCHANGED <<redis, job, recheck, caps, viewer, inFlight, loads>>

DashNext ==
    \/ LoadPage \/ check_now \/ panels
    \/ \E p \in Panels : StartJob(p) \/ FleetTask(p) \/ ResultExpires(p)
    \/ capabilities_task \/ RecheckTask \/ CapsExpire
    \/ GrantsMove \/ JobsMove \/ Tick

-----------------------------------------------------------------------------
\* A poll ends: whatever the worker, Redis and the numbers on the page do, the
\* page stops polling (describe_job: "so polling always terminates";
\* POLL_STALE_AFTER_S: the spinner would otherwise spin forever), unless the
\* viewer has lost every grant, whose 403 leaves the page polling.
PollingStops == page.probing ~> (~page.probing \/ ~viewer.access)
==============================================================================
