----------------------------- MODULE FleetViews -----------------------------
(***************************************************************************)
(* The minions pages (minions.py, minions_helpers.py, fleet.py,            *)
(* inventory.py) over the shared Redis caches (tasks_queue.py), next to    *)
(* the dashboard that polls through the same Redis.                        *)
(*                                                                         *)
(* A request reads a cache, or every master pod in turn -- the key list    *)
(* and the presence of each may fail on their own -- and fills the cache   *)
(* with what it read; key changes, reconnecting minions, expiring entries, *)
(* Redis outages and other requests run in between.                        *)
(***************************************************************************)
EXTENDS Dashboard, Sequences, SequencesExt

CONSTANTS
    Minions,
    NumPods,        \* the master pods 1..NumPods
    Sticky,         \* the pod behind the default salt-api address
    Workers,        \* who serve requests
    Setups          \* what a run lets happen: [ops, ids, workers, keys, pods, events]

Pods == 1..NumPods
Absent == "absent"
Ops == {"index", "export_csv", "presence", "detail", "states_refresh", "beacon", "refresh_one",
        "refresh", "remove"}
Tabs == {"stored", "live", "vulns"}     \* of detail: what a tab reads

ASSUME FleetAssumption ==
    /\ NumPods \in Nat \ {0} /\ Sticky \in Pods
    /\ Setups \subseteq [ops: SUBSET (Ops \cup {"dashboard"}), ids: SUBSET Minions,
                         workers: SUBSET Workers, keys: SUBSET {Absent, "accepted"},
                         pods: SUBSET (0..NumPods), events: Nat]

VARIABLES
    setup,      \* the setup of this behaviour, with the events still to come
    keys,       \* keys[p][m]: the status of m's key on pod p
    attached,   \* attached[m]: the pod m is connected to, 0 when down
    rows,       \* rows[m]: key_status of m's snapshot row, Absent when there is none
    podsKnown,  \* the Kubernetes API has told this process its pods
    cache,      \* the rosters ("sticky", "merged"), "presence" and "map" in Redis
    scans,      \* minions whose scan is in Redis (the vuln-cache keys)
    req,        \* req[w]: the request w serves
    held,       \* history: held[w]: pods that had the key of the request all along
    out         \* the answer given by the last step

fleetVars == <<setup, keys, attached, rows, podsKnown, cache, scans, req, held, out>>
vars == <<redis, dashVars, fleetVars>>

Statuses == {"accepted", "rejected", "denied", "pending"}
Labels == {"up", "dead", "down", "unknown"}

\* heard: history, the presence readings that went into the roster.
Reading == [pod: Pods, up: SUBSET Minions]
Roster == [statuses: [Minions -> Statuses \cup {Absent}], up: SUBSET Minions,
           reachable: BOOLEAN, presence_ok: BOOLEAN, heard: SUBSET Reading]
Unread == [statuses |-> [m \in Minions |-> Absent], up |-> {},
           reachable |-> FALSE, presence_ok |-> FALSE, heard |-> {}]
None == [kind |-> "none"]
PodMaps == [Minions -> 0..NumPods]
CacheNames == {"sticky", "merged", "presence", "map"}

Needs == CacheNames \cup {"none"}
Pcs == {"queue", "look", "read", "got", "call", "confirm", "delete", "drop"}

\* A request: the minion it is about, the ids its user may see, the cache whose
\* value it needs, the pods it has still to read, what it has read; for a removal
\* the master pods, those that failed, and as history those that gave presence but
\* no key list and those that answered a delete they did not apply.
Request == [op: Ops, m: Minions, tab: Tabs, scope: SUBSET Minions, pc: Pcs, need: Needs,
            todo: Seq(Pods), roster: Roster, map: PodMaps,
            clients: Seq(Pods), row: BOOLEAN, delete_key: BOOLEAN,
            partial: SUBSET Pods, half: SUBSET Pods, unapplied: SUBSET Pods]
Idle == [op |-> "idle"]

TypeOK ==
    /\ DashTypeOK
    /\ keys \in [Pods -> [Minions -> Statuses \cup {Absent}]]
    /\ attached \in PodMaps
    /\ rows \in [Minions -> Statuses \cup {Absent}]
    /\ podsKnown \in BOOLEAN
    /\ \A c \in {"sticky", "merged"} : cache[c] = None \/ cache[c] \in Roster
    /\ cache["map"] = None \/ cache["map"] \in PodMaps
    /\ scans \subseteq Minions
    /\ \/ cache["presence"] = None
       \/ /\ cache["presence"].label \in [cache["presence"].listed -> Labels]
          /\ cache["presence"].heard \subseteq Reading
    /\ \A w \in Workers : req[w] = Idle \/ req[w] \in Request
    /\ held \in [Workers -> SUBSET Pods]

Init ==
    /\ DashInit
    /\ setup \in Setups
    /\ keys \in [Pods -> {k \in [Minions -> {Absent} \cup setup.keys] :
                             \A m \in Minions : k[m] \in IF m \in setup.ids
                                                        THEN setup.keys ELSE {Absent}}]
    /\ attached \in {at \in PodMaps :
                        \A m \in Minions : at[m] \in IF m \in setup.ids
                                                     THEN setup.pods ELSE {0}}
    /\ rows = [m \in Minions |-> Absent]
    /\ podsKnown = FALSE
    /\ cache = [c \in CacheNames |-> None]
    /\ scans = {}
    /\ req = [w \in Workers |-> Idle]
    /\ held = [w \in Workers |-> {}]
    /\ out = None

-----------------------------------------------------------------------------
(* Redis, as tasks_queue.py uses it: an error is a miss, a write is dropped. *)

read_cache(c) == IF redis THEN cache[c] ELSE None
Written(c, value) == IF redis THEN [cache EXCEPT ![c] = value] ELSE cache
write_cache(c, value) == cache' = Written(c, value)

\* clear_key_caches drops both rosters (the keys page has its own, in KeyTrust);
\* presence and the pod map stay.
clear_key_caches ==
    cache' = IF redis THEN [cache EXCEPT !["sticky"] = None, !["merged"] = None] ELSE cache

-----------------------------------------------------------------------------
(* One read of the masters.                                                 *)

\* live_roster on pod p: the two halves fail on their own.
On(p) == {m \in Minions : attached[m] = p}
live_roster(p, keys_ok, presence_ok) ==
    [statuses |-> IF keys_ok THEN keys[p] ELSE Unread.statuses,
     up |-> IF presence_ok THEN On(p) ELSE {},
     reachable |-> keys_ok \/ presence_ok,
     presence_ok |-> presence_ok,
     heard |-> IF presence_ok THEN {[pod |-> p, up |-> On(p)]} ELSE {}]

STATUS_RANK == [s \in Statuses |->
    CASE s = "accepted" -> 0 [] s = "rejected" -> 1 [] s = "denied" -> 2 [] OTHER -> 3]

Stronger(s, t) ==
    IF t = Absent \/ (s # Absent /\ STATUS_RANK[s] < STATUS_RANK[t]) THEN s ELSE t

\* merged_live_roster: the strongest status, the union of the up sets; presence_ok
\* is that of any pod, so a pod whose presence failed contributes no up minion.
merged_roster(all, sub) ==
    [statuses |-> [m \in Minions |-> Stronger(sub.statuses[m], all.statuses[m])],
     up |-> all.up \cup sub.up,
     reachable |-> all.reachable \/ sub.reachable,
     presence_ok |-> all.presence_ok \/ sub.presence_ok,
     heard |-> all.heard \cup sub.heard]

\* pod_api_urls, pod_clients: the last-known pods while Kubernetes is silent, the
\* default client if none are known.
pod_clients(answers) ==
    IF answers \/ podsKnown THEN [i \in Pods |-> i] ELSE <<Sticky>>

-----------------------------------------------------------------------------
(* What a page shows.                                                       *)

Listed(roster) == {m \in Minions : roster.statuses[m] # Absent}
Snapshot == {m \in Minions : rows[m] # Absent}

\* minion_entries: the union of the snapshot and the roster.
minion_entries(roster) ==
    [m \in Snapshot \cup Listed(roster) |->
        LET key_status == IF m \in Listed(roster) THEN roster.statuses[m] ELSE rows[m]
        IN  IF m \in roster.up THEN "up"
            ELSE IF ~roster.presence_ok THEN "unknown"
            ELSE IF key_status = "accepted" THEN "dead" ELSE "down"]

In(label, scope) == [m \in scope \cap DOMAIN label |-> label[m]]

Page(scope, label, listed, heard) ==
    [kind |-> "page", scope |-> scope, label |-> In(label, scope),
     listed |-> listed, heard |-> heard]

-----------------------------------------------------------------------------
(* Requests.                                                                *)

Silent == out' = None
NoKeys == UNCHANGED <<keys, attached>>
Elsewhere == UNCHANGED <<redis, dashVars, setup, scans>>

At(w, pc) == req[w] # Idle /\ req[w].pc = pc
Go(w, r) == req' = [req EXCEPT ![w] = r]
Done(w, answer) == req' = [req EXCEPT ![w] = Idle] /\ out' = answer

\* What a request reads first.
FirstNeed(op, m) ==
    CASE op \in {"index", "export_csv"} -> "merged"
      [] op = "presence" -> "presence"
      [] op = "detail" -> "sticky"
      [] op = "beacon" -> "map"
      [] op = "refresh_one" -> IF rows[m] = Absent THEN "merged" ELSE "sticky"
      [] op = "remove" -> "merged"
      [] OTHER -> "none"

\* detail: to a scoped user an id without a row is a 404.
detail_found(op, m, scope) == op = "detail" /\ scope # Minions => rows[m] # Absent

\* A request for a minion, by a user whose grants reach scope: the role and
\* permission checks of the routes are Authz.
Begin(w, op, m, tab, scope, delete_key, k8s) ==
    /\ req[w] = Idle /\ w \in setup.workers /\ op \in setup.ops
    /\ m \in scope /\ detail_found(op, m, scope)
    /\ podsKnown' = (podsKnown \/ (op = "remove" /\ k8s))
    /\ Go(w, [op |-> op, m |-> m, tab |-> tab, scope |-> scope,
              pc |-> IF op \in {"refresh", "states_refresh"} THEN "queue" ELSE "look",
              need |-> FirstNeed(op, m), todo |-> <<>>, roster |-> Unread,
              map |-> [x \in Minions |-> 0],
              clients |-> IF op = "remove" THEN pod_clients(k8s) ELSE <<>>,
              row |-> op = "remove" /\ rows[m] # Absent, delete_key |-> delete_key,
              partial |-> {}, half |-> {}, unapplied |-> {}])
    /\ Silent /\ NoKeys /\ Elsewhere /\ UNCHANGED <<rows, cache>>

\* cached_roster, merged_cached_roster, fleet_pod_map: the cache when it is warm,
\* and a read of the pods when it is not.
Look(w, k8s) ==
    /\ At(w, "look") /\ req[w].need \in {"sticky", "merged", "map"}
    /\ LET c == req[w].need  value == read_cache(c)
           todo == IF c = "sticky" THEN <<Sticky>> ELSE pod_clients(k8s)
       IN  IF value # None
           THEN /\ Go(w, IF c = "map" THEN [req[w] EXCEPT !.pc = "call", !.map = value]
                                      ELSE [req[w] EXCEPT !.pc = "got", !.roster = value])
                /\ UNCHANGED podsKnown
           ELSE /\ Go(w, [req[w] EXCEPT !.pc = "read", !.todo = todo, !.roster = Unread])
                /\ podsKnown' = (podsKnown \/ (c # "sticky" /\ k8s))
    /\ Silent /\ NoKeys /\ Elsewhere /\ UNCHANGED <<rows, cache>>

\* One pod of a roster read.
ReadPod(w, keys_ok, presence_ok) ==
    /\ At(w, "read") /\ req[w].todo # <<>> /\ req[w].need # "map"
    /\ Go(w, [req[w] EXCEPT !.todo = Tail(@),
                            !.roster = merged_roster(@, live_roster(Head(req[w].todo),
                                                                    keys_ok, presence_ok))])
    /\ Silent /\ NoKeys /\ Elsewhere /\ UNCHANGED <<rows, podsKnown, cache>>

\* One pod of fleet_pod_map: the first pod to list a minion owns it.
MapPod(w, presence_ok) ==
    /\ At(w, "read") /\ req[w].todo # <<>> /\ req[w].need = "map"
    /\ LET p == Head(req[w].todo)
       IN  Go(w, [req[w] EXCEPT !.todo = Tail(@),
                                !.map = [x \in Minions |->
                                           IF presence_ok /\ @[x] = 0 /\ attached[x] = p
                                           THEN p ELSE @[x]]])
    /\ Silent /\ NoKeys /\ Elsewhere /\ UNCHANGED <<rows, podsKnown, cache>>

\* Mutant: any answer is cached, also one without presence.
FillReachable(roster) == roster.reachable

\* Only the product of a presence read may reach a roster cache.
Fills(roster) == roster.reachable /\ roster.presence_ok

\* The end of the read: the cache is filled.
FillRoster(w) ==
    /\ At(w, "read") /\ req[w].todo = <<>> /\ req[w].need \in {"sticky", "merged"}
    /\ req[w].op # "refresh"
    /\ IF Fills(req[w].roster)
       THEN write_cache(req[w].need,
                [req[w].roster EXCEPT !.reachable = TRUE, !.presence_ok = TRUE])
       ELSE UNCHANGED cache
    /\ Go(w, [req[w] EXCEPT !.pc = "got"])
    /\ Silent /\ NoKeys /\ Elsewhere /\ UNCHANGED <<rows, podsKnown>>

FillMap(w) ==
    /\ At(w, "read") /\ req[w].todo = <<>> /\ req[w].need = "map"
    /\ IF \E x \in Minions : req[w].map[x] # 0
       THEN write_cache("map", req[w].map)
       ELSE UNCHANGED cache
    /\ Go(w, [req[w] EXCEPT !.pc = "call"])
    /\ Silent /\ NoKeys /\ Elsewhere /\ UNCHANGED <<rows, podsKnown>>

-----------------------------------------------------------------------------
(* The pages.                                                               *)

ShowsRoster(w) ==
    LET label == minion_entries(req[w].roster)
    IN  Done(w, Page(req[w].scope, label, DOMAIN label, req[w].roster.heard))

\* index and export_csv: the rows in the viewer's scope.
index_page(w) ==
    /\ At(w, "got") /\ req[w].op = "index"
    /\ ShowsRoster(w)
    /\ NoKeys /\ Elsewhere /\ UNCHANGED <<rows, podsKnown, cache>>

export_csv(w) ==
    /\ At(w, "got") /\ req[w].op = "export_csv"
    /\ ShowsRoster(w)
    /\ NoKeys /\ Elsewhere /\ UNCHANGED <<rows, podsKnown, cache>>

\* presence, from its cache.
presence_cached(w) ==
    /\ At(w, "look") /\ req[w].need = "presence"
    /\ LET value == read_cache("presence")
       IN  IF value # None
           THEN Done(w, Page(req[w].scope, value.label, value.listed, value.heard))
           ELSE Go(w, [req[w] EXCEPT !.need = "merged"]) /\ Silent
    /\ NoKeys /\ Elsewhere /\ UNCHANGED <<rows, podsKnown, cache>>

\* Mutant: the payload is cached whoever asked.
AnyViewer(scope) == TRUE

\* Only the payload of a viewer nothing is hidden from may be shared.
Shareable(scope) == scope = Minions

\* presence, from the merged roster: nothing when presence was not read.
presence_page(w) ==
    /\ At(w, "got") /\ req[w].op = "presence"
    /\ LET label == minion_entries(req[w].roster)
           heard == req[w].roster.heard
       IN  IF ~req[w].roster.presence_ok
           THEN Done(w, None) /\ UNCHANGED cache
           ELSE /\ Done(w, Page(req[w].scope, label, DOMAIN label, heard))
                /\ IF Shareable(req[w].scope)
                   THEN write_cache("presence", [label |-> In(label, req[w].scope),
                                                 listed |-> DOMAIN label, heard |-> heard])
                   ELSE UNCHANGED cache
    /\ NoKeys /\ Elsewhere /\ UNCHANGED <<rows, podsKnown>>

\* minion_is_up is False: only of a roster whose presence was read.
not_up(w) ==
    LET roster == req[w].roster
    IN  roster.reachable /\ roster.presence_ok /\ req[w].m \notin roster.up

Skipped(w) == Done(w, [kind |-> "skipped", m |-> req[w].m, heard |-> req[w].roster.heard])
CallsMinion(w) ==
    Go(w, [req[w] EXCEPT !.pc = "look", !.need = "map", !.roster = Unread]) /\ Silent

\* _vuln_cache_get, _vuln_cache_set.
vuln_cached(m) == redis /\ m \in scans
vuln_cache_set(m) == scans' = IF redis THEN scans \cup {m} ELSE scans

\* detail: no live call to a minion that is not up, none for a tab of stored data,
\* and none for a scan that _vuln_cache_get finds.
detail(w) ==
    /\ At(w, "got") /\ req[w].op = "detail"
    /\ LET stored == \/ req[w].tab = "stored"
                     \/ req[w].tab = "vulns" /\ vuln_cached(req[w].m)
       IN  CASE not_up(w) -> Skipped(w)
             [] ~not_up(w) /\ stored -> Done(w, None)
             [] OTHER -> CallsMinion(w)
    /\ NoKeys /\ Elsewhere /\ UNCHANGED <<rows, podsKnown, cache>>

\* refresh_one asks a minion that is up, or may be.
refresh_one_asks(w) ==
    /\ At(w, "got") /\ req[w].op = "refresh_one" /\ req[w].need = "sticky"
    /\ IF not_up(w) THEN Skipped(w) ELSE CallsMinion(w)
    /\ NoKeys /\ Elsewhere /\ UNCHANGED <<rows, podsKnown, cache>>

\* local_one: the call goes to the pod the map names, or to the default one; only
\* the pod a minion is attached to gets its answer.
local_one(w) == IF req[w].map[req[w].m] # 0 THEN req[w].map[req[w].m] ELSE Sticky
Reached(w, pod) == attached[req[w].m] = pod
Answer(got) == [kind |-> IF got THEN "answered" ELSE "stored"]

\* detail shows what came, or what is stored; _vuln_cache_set keeps a scan.
detail_call(w, ok) ==
    /\ At(w, "call") /\ req[w].op = "detail"
    /\ LET got == ok /\ Reached(w, local_one(w))
       IN  /\ Done(w, Answer(got))
           /\ IF got /\ req[w].tab = "vulns" THEN vuln_cache_set(req[w].m)
                                             ELSE UNCHANGED scans
    /\ NoKeys /\ UNCHANGED <<redis, dashVars, setup, rows, podsKnown, cache>>

\* refresh_one stores what came on its row, if that is still there; beacon_act
\* changes the minion alone.
refresh_one_call(w, ok) ==
    /\ At(w, "call") /\ req[w].op = "refresh_one"
    /\ Done(w, Answer(ok /\ rows[req[w].m] # Absent /\ Reached(w, local_one(w))))
    /\ NoKeys /\ Elsewhere /\ UNCHANGED <<rows, podsKnown, cache>>

beacon_act(w, ok) ==
    /\ At(w, "call") /\ req[w].op = "beacon"
    /\ Done(w, Answer(ok /\ Reached(w, local_one(w))))
    /\ NoKeys /\ Elsewhere /\ UNCHANGED <<rows, podsKnown, cache>>

\* states_refresh: a job of the worker, or a call in place, through the default
\* client and not through the map.
states_refresh(w, ok) ==
    /\ At(w, "queue") /\ req[w].op = "states_refresh"
    /\ Done(w, Answer(ok /\ Reached(w, Sticky)))
    /\ NoKeys /\ Elsewhere /\ UNCHANGED <<rows, podsKnown, cache>>

\* refresh_one of a minion without a row: one the roster lists gets one, and so
\* does any while no master answers.
refresh_one_row(w) ==
    /\ At(w, "got") /\ req[w].op = "refresh_one" /\ req[w].need = "merged"
    /\ LET m == req[w].m  status == req[w].roster.statuses[m]
       IN  IF status = Absent /\ req[w].roster.reachable
           THEN Done(w, None) /\ UNCHANGED rows
           ELSE /\ rows' = [rows EXCEPT ![m] = IF status = Absent THEN "accepted" ELSE status]
                /\ Go(w, [req[w] EXCEPT !.pc = "look", !.need = "sticky", !.roster = Unread])
                /\ Silent
    /\ NoKeys /\ Elsewhere /\ UNCHANGED <<podsKnown, cache>>

\* refresh_inventory_task: a list is narrowed to what the user may still refresh.
refresh_inventory_task(only_ids, allowed) == only_ids \cap allowed

\* refresh: in place without Redis, or by the worker, who refuses the whole fleet
\* to a user who no longer holds it.
refresh(w, allowed) ==
    /\ At(w, "queue") /\ req[w].op = "refresh"
    /\ LET only_ids == req[w].scope
       IN  IF redis /\ only_ids = Minions /\ allowed # Minions
           THEN Done(w, None)
           ELSE /\ Go(w, [req[w] EXCEPT !.pc = "read", !.need = "sticky", !.todo = <<Sticky>>,
                                        !.scope = IF redis
                                                  THEN refresh_inventory_task(only_ids, allowed)
                                                  ELSE only_ids])
                /\ Silent
    /\ NoKeys /\ Elsewhere /\ UNCHANGED <<rows, podsKnown, cache>>

\* refresh_inventory: a row for every minion that answers the publish.
refresh_inventory(statuses, answer) ==
    [m \in Minions |->
        CASE m \notin answer -> rows[m]
          [] m \in answer /\ statuses[m] # Absent -> statuses[m]
          [] m \in answer /\ statuses[m] = Absent /\ rows[m] # Absent -> rows[m]
          [] OTHER -> "accepted"]

\* refresh_sync: a roster without presence does not replace the cached one.
RefreshFills(roster) == roster.presence_ok

\* refresh_now: after the roster, the rows and then the sticky cache.  An error of
\* the publish leaves both.
refresh_now(w, ok) ==
    /\ At(w, "read") /\ req[w].op = "refresh" /\ req[w].todo = <<>>
    /\ LET roster == req[w].roster
           answer == {m \in req[w].scope : ok /\ attached[m] = Sticky}
       IN  /\ rows' = refresh_inventory(roster.statuses, answer)
           /\ IF ok /\ RefreshFills(roster) THEN write_cache("sticky", roster)
                                            ELSE UNCHANGED cache
    /\ Done(w, None)
    /\ NoKeys /\ Elsewhere /\ UNCHANGED podsKnown

-----------------------------------------------------------------------------
(* remove.                                                                  *)

\* What the row and the merged roster say: nothing to do, nothing known, or on
\* with the removal; without a row or a listed key every pod is asked.
remove_look(w) ==
    /\ At(w, "got") /\ req[w].op = "remove"
    /\ LET live == req[w].m \in Listed(req[w].roster)
           next == IF req[w].delete_key THEN "delete" ELSE "drop"
       IN  CASE req[w].row \/ live ->
                  Go(w, [req[w] EXCEPT !.pc = next, !.todo = req[w].clients,
                                       !.roster = Unread]) /\ Silent
             [] ~(req[w].row \/ live) /\ req[w].roster.reachable /\ req[w].delete_key ->
                  Go(w, [req[w] EXCEPT !.pc = "confirm", !.todo = req[w].clients,
                                       !.roster = Unread]) /\ Silent
             [] OTHER -> Done(w, None)
    /\ NoKeys /\ Elsewhere /\ UNCHANGED <<rows, podsKnown, cache>>

\* Mutant: a pod that does not answer counts as one without the key.
SilentPodHasNone(w, sub) == req[w].m \notin Listed(sub)

\* A pod that answered and does not list the key.
confirms_absent(w, sub) == sub.reachable /\ req[w].m \notin Listed(sub)

\* One pod asked; the first that does not confirm sends the request on to delete.
remove_confirm(w, keys_ok, presence_ok) ==
    /\ At(w, "confirm")
    /\ LET p == Head(req[w].todo)
           sub == live_roster(p, keys_ok, presence_ok)
           half == IF presence_ok /\ ~keys_ok THEN req[w].half \cup {p} ELSE req[w].half
       IN  CASE ~confirms_absent(w, sub) ->
                  Go(w, [req[w] EXCEPT !.pc = "delete", !.todo = req[w].clients]) /\ Silent
             [] confirms_absent(w, sub) /\ Len(req[w].todo) > 1 ->
                  Go(w, [req[w] EXCEPT !.todo = Tail(@), !.half = half]) /\ Silent
             [] OTHER -> Done(w, [kind |-> "unknown", half |-> half])
    /\ NoKeys /\ Elsewhere /\ UNCHANGED <<rows, podsKnown, cache>>

\* key.delete on one pod: a call that times out may have been carried out, and one
\* that is answered may not have been, for nobody looks at what the wheel returned
\* (the keys page does: key_action_applied).
remove_delete(w, ok, applied) ==
    /\ At(w, "delete") /\ req[w].todo # <<>>
    /\ LET p == Head(req[w].todo)
       IN  /\ keys' = IF applied THEN [keys EXCEPT ![p][req[w].m] = Absent] ELSE keys
           /\ Go(w, [req[w] EXCEPT !.todo = Tail(@),
                                   !.partial = IF ok THEN @ ELSE @ \cup {p},
                                   !.unapplied = IF ok /\ ~applied THEN @ \cup {p} ELSE @])
    /\ Silent /\ Elsewhere /\ UNCHANGED <<attached, rows, podsKnown, cache>>

\* After the fan-out: nothing more when every pod failed.
remove_cleared(w) ==
    /\ At(w, "delete") /\ req[w].todo = <<>>
    /\ IF req[w].partial = ToSet(req[w].clients)
       THEN Done(w, [kind |-> "unchanged"]) /\ UNCHANGED cache
       ELSE Go(w, [req[w] EXCEPT !.pc = "drop"]) /\ clear_key_caches /\ Silent
    /\ NoKeys /\ Elsewhere /\ UNCHANGED <<rows, podsKnown>>

\* The row goes, and the report says which pods did not answer.
remove_drop(w) ==
    /\ At(w, "drop")
    /\ rows' = IF req[w].row THEN [rows EXCEPT ![req[w].m] = Absent] ELSE rows
    /\ Done(w, IF req[w].delete_key
               THEN [kind |-> "removed", partial |-> req[w].partial,
                     unapplied |-> req[w].unapplied] ELSE None)
    /\ NoKeys /\ Elsewhere /\ UNCHANGED <<podsKnown, cache>>

-----------------------------------------------------------------------------
(* The surroundings: the end of a worker, Redis and its expiry, the minions  *)
(* and the keys page.                                                       *)

Die(w) ==
    /\ req[w] # Idle
    /\ Done(w, None)
    /\ NoKeys /\ Elsewhere /\ UNCHANGED <<rows, podsKnown, cache>>

Expire(c) ==
    /\ cache[c] # None
    /\ cache' = [cache EXCEPT ![c] = None]
    /\ Silent /\ NoKeys /\ Elsewhere /\ UNCHANGED <<rows, podsKnown, req>>

ScanExpires(m) ==
    /\ m \in scans /\ scans' = scans \ {m}
    /\ Silent /\ NoKeys /\ UNCHANGED <<redis, dashVars, setup, rows, podsKnown, cache, req>>

Event ==
    /\ setup.events > 0
    /\ setup' = [setup EXCEPT !.events = @ - 1]
    /\ Silent /\ UNCHANGED <<dashVars, podsKnown, scans, req>>

RedisTurns == Event /\ redis' = ~redis /\ NoKeys /\ UNCHANGED <<rows, cache>>

Reconnect(m, p) ==
    /\ Event /\ m \in setup.ids /\ p # attached[m]
    /\ attached' = [attached EXCEPT ![m] = p]
    /\ UNCHANGED <<redis, keys, rows, cache>>

\* A minion hands its key to a pod.
KeyComes(m, p) ==
    /\ Event /\ m \in setup.ids /\ keys[p][m] = Absent
    /\ keys' = [keys EXCEPT ![p][m] = "pending"]
    /\ UNCHANGED <<redis, attached, rows, cache>>

\* The keys page accepts or deletes a key on every pod (its fan-out is in KeyTrust);
\* a delete takes the row with it.
KeyActs(m, status) ==
    /\ Event /\ m \in setup.ids
    /\ \E p \in Pods : keys[p][m] \notin {Absent, status}
    /\ keys' = [p \in Pods |-> [keys[p] EXCEPT ![m] = status]]
    /\ clear_key_caches
    /\ rows' = IF status = Absent THEN [rows EXCEPT ![m] = Absent] ELSE rows
    /\ UNCHANGED <<redis, attached>>

-----------------------------------------------------------------------------
Begins(w) ==
    \E op \in setup.ops \cap Ops, m \in setup.ids, delete_key, k8s \in BOOLEAN :
       \E scope \in {Minions, {m}}, tab \in Tabs :
          /\ delete_key \/ k8s => op = "remove"
          /\ scope # Minions => op \in {"presence", "refresh", "detail"}
          /\ tab # "stored" => op = "detail"
          /\ Begin(w, op, m, tab, scope, delete_key, k8s)

RequestStep(w) ==
    \/ Begins(w)
    \/ \E k8s \in BOOLEAN : Look(w, k8s)
    \/ \E keys_ok, presence_ok \in BOOLEAN :
          ReadPod(w, keys_ok, presence_ok) \/ remove_confirm(w, keys_ok, presence_ok)
    \/ \E ok \in BOOLEAN : \/ MapPod(w, ok) \/ detail_call(w, ok) \/ refresh_one_call(w, ok)
                           \/ beacon_act(w, ok) \/ states_refresh(w, ok) \/ refresh_now(w, ok)
    \/ \E ok, applied \in BOOLEAN : remove_delete(w, ok, applied)
    \/ \E allowed \in SUBSET Minions : refresh(w, allowed)
    \/ FillRoster(w) \/ FillMap(w) \/ index_page(w) \/ export_csv(w) \/ presence_cached(w)
    \/ presence_page(w) \/ detail(w) \/ refresh_one_row(w) \/ refresh_one_asks(w)
    \/ remove_look(w) \/ remove_cleared(w) \/ remove_drop(w) \/ Die(w)

Surroundings ==
    \/ \E c \in DOMAIN cache : Expire(c)
    \/ RedisTurns
    \/ \E m \in Minions : \/ ScanExpires(m)
                          \/ \E p \in 0..NumPods : Reconnect(m, p)
                          \/ \E p \in Pods : KeyComes(m, p)
                          \/ \E s \in {Absent, "accepted"} : KeyActs(m, s)

\* held: set when the request comes, and a pod leaves it when its key does.
HeldNext ==
    held' = [w \in Workers |->
        IF req'[w] = Idle THEN {}
        ELSE {p \in IF req[w] = Idle THEN ToSet(req'[w].clients) ELSE held[w] :
                 keys'[p][req'[w].m] # Absent}]

Next ==
    \/ ((\E w \in Workers : RequestStep(w)) \/ Surroundings) /\ HeldNext
    \/ "dashboard" \in setup.ops /\ DashNext /\ UNCHANGED fleetVars

Spec == Init /\ [][Next]_vars

\* The browser's timer fires (hx-trigger "every 2s"), and time passes.
FairSpec == Spec /\ WF_vars("dashboard" \in setup.ops /\ panels /\ UNCHANGED fleetVars)
                 /\ WF_vars("dashboard" \in setup.ops /\ Tick /\ UNCHANGED fleetVars)

-----------------------------------------------------------------------------
\* A pod that answered listed m among its minions.
Told(m, heard) == \E h \in heard : m \in h.up

\* A page says of a minion what the pods that answered told: it is shown up only if
\* one of them listed it, and dead or down only if some pod answered and none of
\* those that did listed it; a live call is skipped only if the sticky pod answered
\* and did not list the minion -- whichever cache, half-failed read, reconnect or
\* other viewer's request the answer came through.  Of a pod whose presence failed
\* nothing is said: its minions are shown dead once another pod has answered.  And
\* every viewer sees each minion that was listed and that they may see
\* (merged_live_roster, minion_entries, minion_is_up, presence).
ViewsTellWhatWasRead ==
    /\ out.kind = "page" =>
          /\ \A m \in DOMAIN out.label :
                /\ out.label[m] = "up" => Told(m, out.heard)
                /\ out.label[m] \in {"dead", "down"} => out.heard # {} /\ ~Told(m, out.heard)
          /\ out.listed \cap out.scope \subseteq DOMAIN out.label
    /\ out.kind = "skipped" =>
          (\E h \in out.heard : h.pod = Sticky) /\ ~Told(out.m, out.heard)

\* What the report of a removal leaves out.  Of the pods it asked, one that has had
\* the key all along is called unknown only if its key list failed while its
\* presence answered, and goes unnamed in a report of a deleted key only if it
\* answered the delete without applying it: every other pod that kept the key is one
\* the report names, whatever else removes, files or reads keys meanwhile (remove).
RemoveIsHonest ==
    [][\A w \in Workers : req[w] # Idle /\ req[w].op = "remove" /\ req'[w] = Idle =>
          /\ out'.kind = "unknown" => held[w] \subseteq out'.half
          /\ out'.kind = "removed" => held[w] \subseteq out'.partial \cup out'.unapplied]_vars
=============================================================================
