---------------------------- MODULE MasterConfig ----------------------------
(***************************************************************************)
(* The owned salt-master ConfigMap and the restart that applies it:        *)
(* masterconfig.py (edit, save, revert, restart), the node groups page     *)
(* (groups.py) and the "record in master.conf" of the reactor page         *)
(* (reactor.py), on the Kubernetes API (k8s.py).                           *)
(*                                                                         *)
(* A request is a sequence of API calls; other requests, hand edits with   *)
(* kubectl, the StatefulSet controller and the restart threads run in      *)
(* between, and an API error or the end of the worker may stop it after    *)
(* any of them.  The content is a set of items: the node groups, the       *)
(* reactor mappings and the other lines of the two files.                  *)
(***************************************************************************)
EXTENDS Naturals, FiniteSets, Sequences, SequencesExt

CONSTANTS
    Admins,             \* who send requests
    Pods,               \* the pods of the StatefulSet
    Groups,             \* node groups of master.conf
    Mappings,           \* reactor mappings of master.conf
    ApiLines,           \* lines of api.conf
    HISTORY_LIMIT,
    RESTART_MAX_POLLS,
    RESTART_STALE,      \* RESTART_STALE_S in polls
    RESTART_NOTICE,     \* RESTART_NOTICE_S in polls
    Budgets             \* bounds: [posts, rollouts], requests and hand edits, rollouts

Items == Groups \cup Mappings \cup ApiLines
MasterConf == Groups \cup Mappings

ASSUME ItemsAssumption ==
    /\ Groups \cap Mappings = {} /\ MasterConf \cap ApiLines = {}
ASSUME LimitsAssumption ==
    /\ HISTORY_LIMIT \in Nat \ {0}
    /\ RESTART_MAX_POLLS \in Nat /\ RESTART_NOTICE \in Nat
    /\ RESTART_STALE \in Nat /\ RESTART_STALE > RESTART_MAX_POLLS
    /\ Budgets \subseteq [posts: Nat, rollouts: Nat]

VARIABLES
    live,       \* the owned ConfigMap
    hist,       \* the history ConfigMap
    past,       \* history: every content that has been live
    req,        \* req[a]: a's request
    rows,       \* the MinionGroup rows synced from node groups
    flag,       \* restart_pending
    flagGen,    \* restart_pending_gen, 0 when there is none
    flagRv,     \* history: the revision that was live when it was recorded
    page,       \* a page view that asks whether the flag is superseded
    sts,        \* generation and observedGeneration of the StatefulSet
    pod,        \* pod[p]: its generation, the revision it booted with, readiness
    state,      \* master_restart_state: status and polls since its time stamp
    threads,    \* the _finish_restart threads
    left        \* the requests, hand edits and rollouts still to come

flagVars == <<flag, flagGen, flagRv>>
clusterVars == <<sts, pod>>
vars == <<live, hist, past, req, rows, flagVars, page, clusterVars, state, threads, left>>

Contents == SUBSET Items
Kinds == {"idle", "save", "group", "persist", "revert", "restart"}
Steps == {"form", "load", "read", "hist", "hput", "fresh", "put", "flag", "gen",
          "sync", "stamp", "mark"}

\* A request: the step it is at, the item it changes, the form or the groups it
\* was given, the live content it read (to be snapshotted), what it will PUT on
\* which base, the history it read and the revision of its own snapshot.
Request == [kind: Kinds, step: Steps, item: Items \cup {"none"}, given: Contents,
            data: Contents, rv: Nat, next: Contents, base: Nat,
            revs: Seq(Contents), hrv: Nat, retried: BOOLEAN, snap: Nat]
Idle == [kind |-> "idle", step |-> "form", item |-> "none", given |-> {},
         data |-> {}, rv |-> 0, next |-> {}, base |-> 0,
         revs |-> <<>>, hrv |-> 0, retried |-> FALSE, snap |-> 0]

Statuses == {"idle", "running", "ok", "failed"}
Thread == [gen: Nat, rv: Nat, polls: 0..RESTART_MAX_POLLS,
           phase: {"wait", "health", "ok", "failed", "clear"}]

\* What the page view is at and the recorded generation it read.
Page == [phase: {"none", "asked", "clear"}, gen: Nat]
NoPage == [phase |-> "none", gen |-> 0]

TypeOK ==
    /\ live \in [data: Contents, rv: Nat]
    /\ hist \in [revs: Seq(Contents), rv: Nat] /\ Len(hist.revs) <= HISTORY_LIMIT
    /\ past \subseteq Contents
    /\ req \in [Admins -> Request]
    /\ rows \subseteq Groups
    /\ flag \in BOOLEAN
    /\ flagGen \in Nat /\ flagRv \in Nat
    /\ page \in Page
    /\ sts \in [gen: Nat, observed: Nat]
    /\ pod \in [Pods -> [gen: Nat, rv: Nat, ready: BOOLEAN]]
    /\ state \in [status: Statuses, age: 0..RESTART_STALE + 1]
    /\ threads \subseteq Thread
    /\ left \in [posts: Nat, rollouts: Nat]

Init ==
    /\ live = [data |-> {}, rv |-> 0]
    /\ hist = [revs |-> <<>>, rv |-> 0]
    /\ past = {{}}
    /\ req = [a \in Admins |-> Idle]
    /\ rows = {}
    /\ flag = FALSE /\ flagGen = 0 /\ flagRv = 0
    /\ page = NoPage
    /\ sts = [gen |-> 1, observed |-> 1]
    /\ pod = [p \in Pods |-> [gen |-> 1, rv |-> 0, ready |-> TRUE]]
    /\ state = [status |-> "idle", age |-> 0]
    /\ threads = {}
    /\ left \in Budgets

-----------------------------------------------------------------------------
(* The Kubernetes API.                                                      *)

Toggle(set, x) == IF x \in set THEN set \ {x} ELSE set \cup {x}

\* replace_configmap: a PUT on a stale base is a conflict, and one that changes
\* nothing keeps the revision.
Stale(object, base) == object.rv # base

Replace(data) ==
    /\ live' = [data |-> data, rv |-> IF data = live.data THEN live.rv ELSE live.rv + 1]
    /\ past' = past \cup {data}

\* Mutant: the counters are believed before the controller saw the generation.
ConvergedUnobserved ==
    \A p \in Pods : pod[p].ready /\ pod[p].gen = sts.observed

\* _rollout_converged, from statefulset_rollout: the counters are those of the
\* generation the controller has observed.
rollout_converged ==
    /\ sts.observed = sts.gen
    /\ \A p \in Pods : pod[p].ready /\ pod[p].gen = sts.observed

-----------------------------------------------------------------------------
(* Requests.                                                                *)

\* A request arrives, is at a step, goes on as y, and ends.
Start(a, y) ==
    /\ req[a].kind = "idle" /\ left.posts > 0
    /\ req' = [req EXCEPT ![a] = y]
    /\ left' = [left EXCEPT !.posts = @ - 1]

At(a, step) == req[a].kind # "idle" /\ req[a].step = step
Go(a, y) == req' = [req EXCEPT ![a] = y]
Done(a) == Go(a, Idle)

\* edit: the form carries the content and its revision.
edit(a, x) ==
    /\ Start(a, [Idle EXCEPT !.kind = "save", !.item = x, !.given = live.data,
                          !.base = live.rv])
    /\ UNCHANGED <<live, hist, past, rows, flagVars, page, clusterVars, state, threads>>

\* The file of an item, and a content with that file from the form.
File(x) == IF x \in ApiLines THEN ApiLines ELSE MasterConf
Merged(data, given, x) == (data \ File(x)) \cup Toggle(given \cap File(x), x)

\* Mutant: the save is guarded by the revision it has just read.
SaveOnFreshBase(a) ==
    LET next == Merged(live.data, req[a].given, req[a].item) IN
    /\ At(a, "form")
    /\ IF next = live.data THEN Done(a)
       ELSE Go(a, [req[a] EXCEPT !.step = "hist", !.data = live.data, !.rv = live.rv,
                                 !.next = next, !.base = live.rv])
    /\ UNCHANGED <<live, hist, past, rows, flagVars, page, clusterVars, state, threads, left>>

\* save, up to the snapshot: the live content is read again; the other file is
\* kept as read.  Text that is already live is no change.
save(a) ==
    LET next == Merged(live.data, req[a].given, req[a].item) IN
    /\ At(a, "form")
    /\ IF next = live.data THEN Done(a)
       ELSE Go(a, [req[a] EXCEPT !.step = "hist", !.data = live.data, !.rv = live.rv,
                                 !.next = next])
    /\ UNCHANGED <<live, hist, past, rows, flagVars, page, clusterVars, state, threads, left>>

\* _persist_to_master_conf: adds a mapping that the stanza does not have.
persist_to_master_conf(a, x) ==
    /\ x \in Mappings \ live.data
    /\ Start(a, [Idle EXCEPT !.kind = "persist", !.item = x, !.step = "hist",
                             !.data = live.data, !.rv = live.rv, !.base = live.rv,
                             !.next = live.data \cup {x}])
    /\ UNCHANGED <<live, hist, past, rows, flagVars, page, clusterVars, state, threads>>

\* groups.save: the groups are loaded and one is saved or deleted.
load_nodegroups(a, x) ==
    /\ x \in Groups
    /\ Start(a, [Idle EXCEPT !.kind = "group", !.item = x, !.step = "read",
                             !.given = Toggle(live.data \cap Groups, x)])
    /\ UNCHANGED <<live, hist, past, rows, flagVars, page, clusterVars, state, threads>>

\* _write_nodegroups reads the content again and puts those groups into it.
\* Nothing is snapshotted.
write_nodegroups(a) ==
    /\ At(a, "read") /\ req[a].kind = "group"
    /\ Go(a, [req[a] EXCEPT !.step = "put", !.base = live.rv,
                            !.next = (live.data \ Groups) \cup req[a].given])
    /\ UNCHANGED <<live, hist, past, rows, flagVars, page, clusterVars, state, threads, left>>

\* revert: the last snapshot, then the live content.  Without one, nothing.
revert(a) ==
    /\ hist.revs # <<>>
    /\ Start(a, [Idle EXCEPT !.kind = "revert", !.step = "read", !.next = Last(hist.revs)])
    /\ UNCHANGED <<live, hist, past, rows, flagVars, page, clusterVars, state, threads>>

revert_read(a) ==
    /\ At(a, "read") /\ req[a].kind = "revert"
    /\ Go(a, [req[a] EXCEPT !.step = "hist", !.data = live.data, !.rv = live.rv])
    /\ UNCHANGED <<live, hist, past, rows, flagVars, page, clusterVars, state, threads, left>>

\* The base of the revert's PUT is read after the snapshot.
revert_fresh(a) ==
    /\ At(a, "fresh")
    /\ Go(a, [req[a] EXCEPT !.step = "put", !.base = live.rv])
    /\ UNCHANGED <<live, hist, past, rows, flagVars, page, clusterVars, state, threads, left>>

\* _snapshot: _read_history, ...
read_history(a) ==
    /\ At(a, "hist")
    /\ Go(a, [req[a] EXCEPT !.step = "hput", !.revs = hist.revs, !.hrv = hist.rv])
    /\ UNCHANGED <<live, hist, past, rows, flagVars, page, clusterVars, state, threads, left>>

\* Mutant: nothing is dropped from the history.
Uncapped(revs) == revs

\* The newest HISTORY_LIMIT revisions.
Capped(revs) ==
    SubSeq(revs, IF Len(revs) > HISTORY_LIMIT THEN Len(revs) - HISTORY_LIMIT + 1 ELSE 1,
           Len(revs))

\* Mutant: the history PUT carries no base, so it overwrites a concurrent one.
SnapshotUnguarded(a) ==
    /\ At(a, "hput")
    /\ hist' = [revs |-> Capped(Append(req[a].revs, req[a].data)), rv |-> hist.rv + 1]
    /\ Go(a, [req[a] EXCEPT !.step = IF req[a].kind = "revert" THEN "fresh" ELSE "put",
                            !.snap = hist.rv + 1])
    /\ UNCHANGED <<live, past, rows, flagVars, page, clusterVars, state, threads, left>>

\* ... and the PUT, which is tried again once after a conflict.
snapshot(a) ==
    /\ At(a, "hput")
    /\ IF ~Stale(hist, req[a].hrv)
       THEN /\ hist' = [revs |-> Capped(Append(req[a].revs, req[a].data)),
                        rv |-> hist.rv + 1]
            /\ Go(a, [req[a] EXCEPT
                          !.step = IF req[a].kind = "revert" THEN "fresh" ELSE "put",
                          !.snap = hist.rv + 1, !.revs = <<>>, !.hrv = 0, !.retried = FALSE])
       ELSE /\ IF req[a].retried THEN Done(a)
               ELSE Go(a, [req[a] EXCEPT !.step = "hist", !.retried = TRUE])
            /\ UNCHANGED hist
    /\ UNCHANGED <<live, past, rows, flagVars, page, clusterVars, state, threads, left>>

\* The PUT of the live content.  A conflict ends the request.
replace_live(a) ==
    /\ At(a, "put")
    /\ IF Stale(live, req[a].base)
       THEN Done(a) /\ UNCHANGED <<live, past>>
       ELSE /\ Replace(req[a].next)
            /\ Go(a, [Idle EXCEPT !.kind = req[a].kind, !.item = req[a].item,
                      !.given = req[a].given,
                      !.step = IF req[a].kind = "revert" THEN "stamp" ELSE "flag"])
    /\ UNCHANGED <<hist, rows, flagVars, page, clusterVars, state, threads, left>>

\* set_restart_needed: the flag, ...
set_restart_needed(a) ==
    /\ At(a, "flag")
    /\ flag' = TRUE
    /\ Go(a, [req[a] EXCEPT !.step = "gen"])
    /\ UNCHANGED <<live, hist, past, rows, flagGen, flagRv, page, clusterVars, state,
                   threads, left>>

After(a) ==
    IF req[a].kind = "group" THEN Go(a, [req[a] EXCEPT !.step = "sync"]) ELSE Done(a)

\* ... then the generation, if the API answers.
record_restart_generation(a) ==
    /\ At(a, "gen")
    /\ \/ flagGen' = sts.gen /\ flagRv' = live.rv
       \/ UNCHANGED <<flagGen, flagRv>>
    /\ After(a)
    /\ UNCHANGED <<live, hist, past, rows, flag, page, clusterVars, state, threads, left>>

\* _sync_to_minion_group, for list groups.
sync_to_minion_group(a) ==
    LET x == req[a].item IN
    /\ At(a, "sync")
    /\ rows' = IF x \in req[a].given THEN rows \cup {x} ELSE rows \ {x}
    /\ Done(a)
    /\ UNCHANGED <<live, hist, past, flagVars, page, clusterVars, state, threads, left>>

\* An API error, or the worker dies: the request stops where it is.
Stops(a) ==
    /\ req[a].kind # "idle"
    /\ Done(a)
    /\ UNCHANGED <<live, hist, past, rows, flagVars, page, clusterVars, state, threads, left>>

-----------------------------------------------------------------------------
(* The restart.                                                             *)

\* Mutant: a running row is believed however old it is.
InProgressForever == state.status = "running"

\* _restart_status_payload: past RESTART_STALE_S a running row is unknown.
in_progress == state.status = "running" /\ state.age <= RESTART_STALE

\* The outcome the page shows, which expires after RESTART_NOTICE_S.
ShownStatus ==
    CASE state.status = "running" /\ ~in_progress -> "unknown"
      [] state.status \in {"ok", "failed"} /\ state.age > RESTART_NOTICE -> "idle"
      [] OTHER -> state.status

restart(a) ==
    /\ ~in_progress
    /\ Start(a, [Idle EXCEPT !.kind = "restart", !.step = "stamp"])
    /\ UNCHANGED <<live, hist, past, rows, flagVars, page, clusterVars, state, threads>>

\* _start_restart: restart_statefulset, ...
restart_statefulset(a) ==
    /\ At(a, "stamp") /\ left.rollouts > 0
    /\ sts' = [sts EXCEPT !.gen = @ + 1]
    /\ left' = [left EXCEPT !.rollouts = @ - 1]
    /\ Go(a, [req[a] EXCEPT !.step = "mark", !.rv = live.rv, !.base = sts.gen + 1])
    /\ UNCHANGED <<live, hist, past, rows, flagVars, page, pod, state, threads>>

\* ... _set_restart_state and _spawn_restart.
start_restart(a) ==
    /\ At(a, "mark")
    /\ state' = [status |-> "running", age |-> 0]
    /\ threads' = threads \cup
          {[gen |-> req[a].base, rv |-> req[a].rv, polls |-> 0, phase |-> "wait"]}
    /\ Done(a)
    /\ UNCHANGED <<live, hist, past, rows, flagVars, page, clusterVars, left>>

Move(t, phase) == threads' = (threads \ {t}) \cup {[t EXCEPT !.phase = phase]}

\* _wait_rollout sees the rollout converged, ...
wait_rollout(t) ==
    /\ t.phase = "wait" /\ rollout_converged
    /\ Move(t, "health")
    /\ UNCHANGED <<live, hist, past, req, rows, flagVars, page, clusterVars, state, left>>

\* ... or gives up after its last poll.
rollout_timed_out(t) ==
    /\ t.phase = "wait" /\ t.polls = RESTART_MAX_POLLS /\ ~rollout_converged
    /\ Move(t, "failed")
    /\ UNCHANGED <<live, hist, past, req, rows, flagVars, page, clusterVars, state, left>>

\* _salt_api_healthy.
salt_api_healthy(t) ==
    /\ t.phase = "health"
    /\ Move(t, "ok") \/ Move(t, "failed")
    /\ UNCHANGED <<live, hist, past, req, rows, flagVars, page, clusterVars, state, left>>

\* _finish_restart publishes the outcome, ...
finish_restart(t) ==
    /\ t.phase \in {"ok", "failed"}
    /\ state' = [status |-> t.phase, age |-> 0]
    /\ IF t.phase = "ok" THEN Move(t, "clear") ELSE threads' = threads \ {t}
    /\ UNCHANGED <<live, hist, past, req, rows, flagVars, page, clusterVars, left>>

ClearFlag == flag' = FALSE /\ flagGen' = 0 /\ flagRv' = 0

\* ... and clear_restart_needed if it is good.
clear_restart_needed(t) ==
    /\ t.phase = "clear"
    /\ ClearFlag
    /\ threads' = threads \ {t}
    /\ UNCHANGED <<live, hist, past, req, rows, page, clusterVars, state, left>>

ThreadDies(t) ==
    /\ threads' = threads \ {t}
    /\ UNCHANGED <<live, hist, past, req, rows, flagVars, page, clusterVars, state, left>>

\* A poll interval passes.  A thread polls within it and its polls are fewer
\* than the ticks that make the row stale.
Tick ==
    /\ \A t \in threads : t.phase = "wait" /\ t.polls < RESTART_MAX_POLLS
    /\ state.status # "idle" /\ state.age <= RESTART_STALE
    /\ state' = [state EXCEPT !.age = @ + 1]
    /\ threads' = {[t EXCEPT !.polls = @ + 1] : t \in threads}
    /\ UNCHANGED <<live, hist, past, req, rows, flagVars, page, clusterVars, left>>

\* restart_needed, on any page: the flag and then the generation are read, ...
restart_needed ==
    /\ flag /\ flagGen # 0 /\ page.phase = "none"
    /\ page' = [phase |-> "asked", gen |-> flagGen]
    /\ UNCHANGED <<live, hist, past, req, rows, flagVars, clusterVars, state, threads, left>>

\* Mutant: the recorded rollout supersedes itself.
SupersededBySame == sts.gen >= page.gen /\ rollout_converged

\* _rollout_superseded, by the generation that was read.
rollout_superseded == sts.gen > page.gen /\ rollout_converged

\* ... Kubernetes answers, ...
statefulset_rollout ==
    /\ page.phase = "asked" /\ rollout_superseded
    /\ page' = [page EXCEPT !.phase = "clear"]
    /\ UNCHANGED <<live, hist, past, req, rows, flagVars, clusterVars, state, threads, left>>

\* ... and clear_restart_needed deletes whatever rows are there by then.
clear_superseded ==
    /\ page.phase = "clear"
    /\ ClearFlag
    /\ page' = NoPage
    /\ UNCHANGED <<live, hist, past, req, rows, clusterVars, state, threads, left>>

\* Not superseded, an API error, or the worker dies: nothing is cleared.
PageEnds ==
    /\ page.phase # "none"
    /\ page' = NoPage
    /\ UNCHANGED <<live, hist, past, req, rows, flagVars, clusterVars, state, threads, left>>

-----------------------------------------------------------------------------
(* The cluster and its operator.                                            *)

KubectlEdit(x) ==
    /\ left.posts > 0
    /\ Replace(Toggle(live.data, x))
    /\ left' = [left EXCEPT !.posts = @ - 1]
    /\ UNCHANGED <<hist, req, rows, flagVars, page, clusterVars, state, threads>>

KubectlRestart ==
    /\ left.rollouts > 0
    /\ sts' = [sts EXCEPT !.gen = @ + 1]
    /\ left' = [left EXCEPT !.rollouts = @ - 1]
    /\ UNCHANGED <<live, hist, past, req, rows, flagVars, page, pod, state, threads>>

Observe ==
    /\ sts.observed # sts.gen
    /\ sts' = [sts EXCEPT !.observed = sts.gen]
    /\ UNCHANGED <<live, hist, past, req, rows, flagVars, page, pod, state, threads, left>>

\* The controller replaces one pod at a time.
Roll(p) ==
    /\ pod[p].gen # sts.observed
    /\ \A q \in Pods \ {p} : pod[q].ready
    /\ pod' = [pod EXCEPT ![p].gen = sts.observed, ![p].ready = FALSE]
    /\ UNCHANGED <<live, hist, past, req, rows, flagVars, page, sts, state, threads, left>>

\* A pod that boots reads the content that is live.
Boot(p) ==
    /\ ~pod[p].ready
    /\ pod' = [pod EXCEPT ![p].ready = TRUE, ![p].rv = live.rv]
    /\ UNCHANGED <<live, hist, past, req, rows, flagVars, page, sts, state, threads, left>>

-----------------------------------------------------------------------------
Submits(a) ==
    \/ \E x \in Items : edit(a, x) \/ persist_to_master_conf(a, x) \/ load_nodegroups(a, x)
    \/ revert(a) \/ restart(a)

Proceeds(a) ==
    \/ save(a) \/ write_nodegroups(a) \/ revert_read(a) \/ revert_fresh(a)
    \/ read_history(a) \/ snapshot(a) \/ replace_live(a)
    \/ set_restart_needed(a) \/ record_restart_generation(a)
    \/ sync_to_minion_group(a) \/ restart_statefulset(a) \/ start_restart(a)

ThreadStep(t) ==
    \/ wait_rollout(t) \/ rollout_timed_out(t) \/ salt_api_healthy(t)
    \/ finish_restart(t) \/ clear_restart_needed(t)

PageStep == restart_needed \/ statefulset_rollout \/ clear_superseded \/ PageEnds

Next ==
    \/ \E a \in Admins : Submits(a) \/ Proceeds(a) \/ Stops(a)
    \/ \E t \in threads : ThreadStep(t) \/ ThreadDies(t)
    \/ Tick \/ PageStep
    \/ \E x \in Items : KubectlEdit(x)
    \/ KubectlRestart \/ Observe
    \/ \E p \in Pods : Roll(p) \/ Boot(p)

Spec == Init /\ [][Next]_vars

\* Time passes, and a thread that is alive goes on.
FairSpec ==
    Spec /\ WF_vars(Tick) /\ WF_vars(\E t \in threads : ThreadStep(t))

-----------------------------------------------------------------------------
(* Properties.                                                              *)

ConfigStore == INSTANCE VersionedConfig WITH content <- live.data

\* "A save that raced another writer (or a hand kubectl edit) refuses" and
\* "writes nothing" (user.md): whatever runs at the same time, the live content
\* only moves by one edit of what is live or to an earlier content; only a node
\* group write may bring groups back from an earlier content.
EditsCompose == ConfigStore!Spec

\* a's PUT of the live content succeeds in this step.
Overwrites(a) ==
    At(a, "put") /\ req'[a].kind # "idle" /\ req'[a].step # "put"

\* "Saving snapshots the whole ConfigMap into the history ConfigMap first":
\* what a save or a recorded mapping overwrites can be found in the history, and
\* so can what a revert overwrites if nobody wrote since its snapshot, unless
\* HISTORY_LIMIT snapshots were taken in the meantime.
OverwrittenIsKept ==
    [][\A a \in Admins :
          (/\ Overwrites(a)
           /\ req[a].kind \in {"save", "persist", "revert"}
           /\ req[a].kind = "revert" => req[a].rv = live.rv
           /\ hist.rv - req[a].snap < HISTORY_LIMIT)
          => \E i \in 1..Len(hist.revs) : hist.revs[i] = live.data]_vars

\* The restart "waits for the rollout" and "reports the outcome ... never as
\* success": a thread that saw its rollout converge did so after every pod
\* booted with at least the content that was live when the restart was asked
\* for, whatever other rollouts, edits and restarts ran meanwhile.
RestartApplies ==
    \A t \in threads :
        t.phase \in {"health", "ok", "clear"} => \A p \in Pods : pod[p].rv >= t.rv

\* restart_needed "clears as soon as a completed rollout supersedes the
\* generation recorded when the flag was set": when a page clears the flag and
\* the generation on file is still the one it read, every pod has booted with
\* what was live when that generation was recorded, whatever is saved, rolled
\* out or cleared while Kubernetes answers.  A save that records another one in
\* that time loses its flag.
HealIsSound ==
    [][flag /\ ~flag' /\ threads' = threads /\ flagGen = page.gen
          => \A p \in Pods : pod[p].rv >= flagRv]_vars

\* "Never leave the UI reconnecting forever": a restart shown as running ends
\* in an outcome or is shown as unknown, also when its thread died.
RestartSettles == in_progress ~> ShownStatus # "running"
=============================================================================
