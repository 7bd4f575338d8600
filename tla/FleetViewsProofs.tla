--------------------------- MODULE FleetViewsProofs ---------------------------
(***************************************************************************)
(* Proofs about FleetViews, for every set of minions, pods and workers:    *)
(* the type invariant, that the pages tell what was read, and that the     *)
(* report of a removal is true.                                            *)
(***************************************************************************)
EXTENDS FleetViews, TLAPS

-----------------------------------------------------------------------------
(* The inductive invariant.                                                *)

\* What a roster claims about presence, some pod told: the default one, if it is
\* the roster of the default pod.
Heard(roster) ==
    /\ roster.presence_ok => roster.heard # {}
    /\ \A m \in Minions : m \in roster.up <=> Told(m, roster.heard)
StickyHeard(roster) == roster.presence_ok => \E h \in roster.heard : h.pod = Sticky

\* Which request is where, and what it has read there.
Placed(q) ==
    /\ q.pc \in {"confirm", "delete", "drop"} => q.op = "remove"
    /\ q.pc = "queue" => ~q.roster.presence_ok
    /\ q.pc = "got" => q.need \in {"sticky", "merged"}
    /\ q.op = "detail" => q.need \in {"sticky", "map"}
    /\ q.op = "refresh" => q.pc = "queue" \/ (q.pc = "read" /\ q.need = "sticky")
    /\ q.pc = "read" /\ q.need = "sticky" => q.todo \in {<<Sticky>>, <<>>}
    /\ q.op = "remove" => q.clients # <<>>
    /\ q.pc = "confirm" => q.todo # <<>>
    /\ Heard(q.roster)
    /\ q.need = "sticky" => StickyHeard(q.roster)

ReqOK ==
    /\ req = [w \in Workers |-> req[w]]
    /\ \A w \in Workers : req[w] = Idle \/ (req[w] \in Request /\ Placed(req[w]))

\* Only what a pod told is cached.
CacheOK ==
    /\ cache = [c \in CacheNames |-> cache[c]]
    /\ \/ cache["sticky"] = None
       \/ /\ cache["sticky"] \in Roster
          /\ Heard(cache["sticky"]) /\ StickyHeard(cache["sticky"])
    /\ cache["merged"] = None \/ (cache["merged"] \in Roster /\ Heard(cache["merged"]))
    /\ cache["map"] = None \/ cache["map"] \in PodMaps

\* What a label of m says was told.
Tells(m, label, heard) ==
    /\ label = "up" => Told(m, heard)
    /\ label \in {"dead", "down"} => heard # {} /\ ~Told(m, heard)

\* So are the labels everybody may see.
SharedOK(shared) ==
    /\ shared.label \in [shared.listed -> Labels]
    /\ shared.listed \subseteq Minions /\ shared.heard \subseteq Reading
    /\ \A m \in shared.listed : Tells(m, shared.label[m], shared.heard)

PresenceOK == cache["presence"] = None \/ SharedOK(cache["presence"])

StateOK ==
    /\ keys \in [Pods -> [Minions -> Statuses \cup {Absent}]]
    /\ attached \in PodMaps
    /\ rows \in [Minions -> Statuses \cup {Absent}]
    /\ podsKnown \in BOOLEAN
    /\ scans \subseteq Minions
    /\ setup.ids \subseteq Minions /\ setup.ops \subseteq Ops \cup {"dashboard"}
    /\ setup = [ops |-> setup.ops, ids |-> setup.ids, workers |-> setup.workers,
                keys |-> setup.keys, pods |-> setup.pods, events |-> setup.events]

\* A pod that has had the key all along is still to be asked, or is one the report
\* of the removal will name, or has answered a delete it did not apply.
StillNamed(q, pods) ==
    /\ pods \subseteq ToSet(q.clients)
    /\ q.pc = "confirm" => pods \subseteq q.half \cup ToSet(q.todo)
    /\ q.pc = "delete" => pods \subseteq q.partial \cup q.unapplied \cup ToSet(q.todo)
    /\ q.pc = "drop" /\ q.delete_key => pods \subseteq q.partial \cup q.unapplied

HeldOK ==
    /\ held \in [Workers -> SUBSET Pods]
    /\ \A w \in Workers : req[w] # Idle =>
          /\ StillNamed(req[w], held[w])
          /\ \A p \in held[w] : keys[p][req[w].m] # Absent

IInv ==
    /\ DashTypeOK /\ ReqOK /\ CacheOK /\ PresenceOK /\ StateOK /\ HeldOK
    /\ ViewsTellWhatWasRead

-----------------------------------------------------------------------------
(* Lemmas about the operators of the model.                                *)

LEMMA PodsFacts ==
    /\ Pods \subseteq Nat /\ Sticky \in Pods /\ Pods \subseteq 0..NumPods /\ NumPods \in Nat \ {0}
BY FleetAssumption DEF Pods

LEMMA UnreadFacts ==
    /\ Unread \in Roster /\ Unread.presence_ok = FALSE
    /\ Heard(Unread) /\ StickyHeard(Unread)
BY DEF Unread, Roster, Heard, StickyHeard, Told

\* A pod's own roster.
LEMMA LiveRosterFacts ==
    ASSUME StateOK, NEW p \in Pods, NEW keys_ok \in BOOLEAN, NEW presence_ok \in BOOLEAN
    PROVE  LET r == live_roster(p, keys_ok, presence_ok)
           IN  /\ r \in Roster
               /\ Heard(r)
               /\ r.presence_ok => \E h \in r.heard : h.pod = p
               /\ r.reachable = (keys_ok \/ presence_ok)
               /\ keys_ok => r.statuses = keys[p]
<1> DEFINE r == live_roster(p, keys_ok, presence_ok)
           statuses == IF keys_ok THEN keys[p] ELSE Unread.statuses
           reading == [pod |-> p, up |-> On(p)]
           up == IF presence_ok THEN On(p) ELSE {}
           reachable == keys_ok \/ presence_ok
           heard == IF presence_ok THEN {reading} ELSE {}
<1>1. statuses \in [Minions -> Statuses \cup {Absent}]
  BY DEF StateOK, Unread
<1>a. reading \in Reading /\ reading.pod = p /\ reading.up = On(p) /\ On(p) \in SUBSET Minions
  BY DEF On, Reading
<1>b. /\ presence_ok => heard = {reading} /\ up = On(p)
      /\ ~presence_ok => heard = {} /\ up = {}
      /\ keys_ok => statuses = keys[p]
  OBVIOUS
<1>4. r = [statuses |-> statuses, up |-> up, reachable |-> reachable,
           presence_ok |-> presence_ok, heard |-> heard]
  BY DEF live_roster
<1> HIDE DEF r, statuses, up, heard, reachable, reading
<1>2. up \in SUBSET Minions /\ heard \in SUBSET Reading /\ reachable \in BOOLEAN
  BY <1>a, <1>b DEF reachable
<1>5. r \in Roster
  BY <1>1, <1>2, <1>4 DEF Roster
<1>6. r.presence_ok = presence_ok /\ r.heard = heard /\ r.statuses = statuses
      /\ r.reachable = reachable /\ r.up = up
  BY <1>4
<1>7. \A m \in Minions : m \in up <=> Told(m, heard)
  BY <1>a, <1>b DEF Told
<1>8. /\ presence_ok => heard # {}
      /\ presence_ok => \E h \in heard : h.pod = p
  BY <1>a, <1>b
<1>9. Heard(r)
  BY <1>6, <1>7, <1>8 DEF Heard
<1> QED
  BY <1>b, <1>5, <1>6, <1>8, <1>9 DEF r, reachable

\* Two rosters in one.
LEMMA MergedFacts ==
    ASSUME NEW all \in Roster, NEW sub \in Roster
    PROVE  LET r == merged_roster(all, sub)
           IN  /\ r \in Roster
               /\ Heard(all) /\ Heard(sub) => Heard(r)
               /\ StickyHeard(all) /\ StickyHeard(sub) => StickyHeard(r)
<1> DEFINE r == merged_roster(all, sub)
           statuses == [m \in Minions |-> Stronger(sub.statuses[m], all.statuses[m])]
<1>1. statuses \in [Minions -> Statuses \cup {Absent}]
  BY DEF Roster, Stronger
<1>2. r = [statuses |-> statuses, up |-> all.up \cup sub.up,
           reachable |-> all.reachable \/ sub.reachable,
           presence_ok |-> all.presence_ok \/ sub.presence_ok,
           heard |-> all.heard \cup sub.heard]
  BY DEF merged_roster
<1> HIDE DEF r, statuses
<1>3. r \in Roster
  BY <1>1, <1>2 DEF Roster
<1>4. /\ r.presence_ok = (all.presence_ok \/ sub.presence_ok)
      /\ r.heard = all.heard \cup sub.heard /\ r.up = all.up \cup sub.up
  BY <1>2
<1>5. r.presence_ok => all.presence_ok \/ sub.presence_ok
  BY <1>4
<1>6. \A m : Told(m, r.heard) <=> Told(m, all.heard) \/ Told(m, sub.heard)
  BY <1>4 DEF Told
<1>7. Heard(all) /\ Heard(sub) => Heard(r)
  BY <1>4, <1>5, <1>6 DEF Heard
<1>8. StickyHeard(all) /\ StickyHeard(sub) => StickyHeard(r)
  BY <1>4, <1>5 DEF StickyHeard
<1> QED
  BY <1>3, <1>7, <1>8 DEF r

\* What a page makes of a roster.
LEMMA EntriesFacts ==
    ASSUME StateOK, NEW roster \in Roster, Heard(roster)
    PROVE  LET label == minion_entries(roster)
           IN  /\ DOMAIN label \subseteq Minions
               /\ label \in [DOMAIN label -> Labels]
               /\ \A m \in DOMAIN label : Tells(m, label[m], roster.heard)
<1> DEFINE label == minion_entries(roster)
           D == Snapshot \cup Listed(roster)
           status(m) == IF m \in Listed(roster) THEN roster.statuses[m] ELSE rows[m]
           shown(m) == IF m \in roster.up THEN "up"
                       ELSE IF ~roster.presence_ok THEN "unknown"
                       ELSE IF status(m) = "accepted" THEN "dead" ELSE "down"
<1>1. D \subseteq Minions
  BY DEF Snapshot, Listed
<1>2. label = [m \in D |-> shown(m)]
  BY DEF minion_entries
<1> HIDE DEF label, D, status
<1>3. \A m \in D : shown(m) \in Labels
  BY DEF Labels
<1>4. ASSUME NEW m \in D PROVE Tells(m, shown(m), roster.heard)
  <2>1. /\ shown(m) = "up" => m \in roster.up
        /\ shown(m) \in {"dead", "down"} => roster.presence_ok /\ m \notin roster.up
    OBVIOUS
  <2>2. m \in Minions
    BY <1>1
  <2> HIDE DEF shown
  <2> QED
    BY <2>1, <2>2 DEF Heard, Tells
<1> HIDE DEF shown
<1>5. label \in [D -> Labels] /\ DOMAIN label = D /\ \A m \in D : label[m] = shown(m)
  BY <1>2, <1>3
<1> QED
  BY <1>1, <1>4, <1>5 DEF label

LEMMA InFacts ==
    ASSUME NEW D \in SUBSET Minions, NEW label \in [D -> Labels], NEW scope \in SUBSET Minions
    PROVE  /\ DOMAIN In(label, scope) = scope \cap D
           /\ \A m \in scope \cap D : In(label, scope)[m] = label[m]
           /\ scope = Minions => In(label, scope) \in [D -> Labels]
BY DEF In

LEMMA TodoFacts ==
    ASSUME NEW s \in Seq(Pods), s # <<>>
    PROVE  /\ Head(s) \in Pods /\ Tail(s) \in Seq(Pods) /\ Len(s) \in Nat \ {0}
           /\ ToSet(s) = {Head(s)} \cup ToSet(Tail(s)) /\ ToSet(s) \subseteq Pods
           /\ Len(s) > 1 => Tail(s) # <<>>
           /\ Len(s) <= 1 => ToSet(s) = {Head(s)}
<1>1. Head(s) \in Pods /\ Tail(s) \in Seq(Pods) /\ Len(s) \in Nat \ {0}
  OBVIOUS
<1>2. ToSet(s) \subseteq Pods
  BY DEF ToSet
<1>3. ASSUME NEW i \in DOMAIN s PROVE s[i] \in {Head(s)} \cup ToSet(Tail(s))
  <2>1. CASE i = 1
    BY <2>1
  <2>2. CASE i # 1
    <3>1. i - 1 \in DOMAIN Tail(s) /\ Tail(s)[i - 1] = s[i]
      BY <2>2
    <3> QED
      BY <3>1 DEF ToSet
  <2> QED
    BY <2>1, <2>2
<1>4. ASSUME NEW i \in DOMAIN Tail(s) PROVE Tail(s)[i] \in ToSet(s)
  <2>1. i + 1 \in DOMAIN s /\ Tail(s)[i] = s[i + 1]
    OBVIOUS
  <2> QED
    BY <2>1 DEF ToSet
<1>5. Head(s) \in ToSet(s)
  BY DEF ToSet
<1>6. ToSet(s) = {Head(s)} \cup ToSet(Tail(s))
  BY <1>3, <1>4, <1>5 DEF ToSet
<1>7. Len(s) > 1 => Tail(s) # <<>>
  OBVIOUS
<1>8. Len(s) <= 1 => ToSet(s) = {Head(s)}
  <2> SUFFICES ASSUME Len(s) <= 1 PROVE ToSet(s) = {Head(s)}
    OBVIOUS
  <2>1. Len(s) = 1
    <3>1. \A n \in Nat \ {0} : n <= 1 => n = 1
      OBVIOUS
    <3> QED
      BY <1>1, <3>1, Zenon
  <2>2. DOMAIN s = 1..1
    BY <2>1
  <2>3. \A i \in 1..1 : i = 1
    OBVIOUS
  <2>4. \A i \in DOMAIN s : s[i] = s[1]
    BY <2>2, <2>3, Zenon
  <2>5. s[1] = Head(s)
    OBVIOUS
  <2> QED
    BY <1>5, <2>4, <2>5 DEF ToSet
<1> QED
  BY <1>1, <1>2, <1>6, <1>7, <1>8

LEMMA EmptyTodo == ToSet(<<>>) = {} /\ <<>> \in Seq(Pods)
BY DEF ToSet

LEMMA PodClientsFacts ==
    ASSUME NEW answers
    PROVE  pod_clients(answers) \in Seq(Pods) /\ pod_clients(answers) # <<>>
<1>1. [i \in Pods |-> i] \in Seq(Pods) /\ [i \in Pods |-> i] # <<>>
  BY PodsFacts DEF Pods
<1>2. <<Sticky>> \in Seq(Pods) /\ <<Sticky>> # <<>>
  BY PodsFacts
<1> QED
  BY <1>1, <1>2 DEF pod_clients

-----------------------------------------------------------------------------
(* The dashboard.                                                          *)

LEMMA DashInitTyped == DashInit => DashTypeOK
<1> SUFFICES ASSUME DashInit PROVE DashTypeOK
  OBVIOUS
<1>1. job \in [Panels -> JobStates] /\ loads \in 0..MaxLoads
  BY PanelsAssumption DEF DashInit, JobStates
<1>2. /\ redis \in BOOLEAN /\ recheck \in BOOLEAN /\ caps \in BOOLEAN /\ inFlight \in BOOLEAN
  BY DEF DashInit
<1>3. viewer \in Viewers
  <2>1. viewer = [access |-> TRUE, fleet |-> Panels]
    BY DEF DashInit
  <2>2. viewer \in [access: BOOLEAN, fleet: SUBSET Panels] /\ viewer.access
    BY <2>1
  <2> QED
    BY <2>2 DEF Viewers
<1>4. page \in [probing: BOOLEAN, age: 0..POLL_STALE_AFTER + 1, seen: Shown]
  <2> DEFINE seen == [panels |-> {}, in_flight |-> FALSE]
  <2>1. seen \in Shown
    BY DEF Shown
  <2>2. page = [probing |-> FALSE, age |-> 0, seen |-> seen]
    BY DEF DashInit
  <2> HIDE DEF seen
  <2>3. 0 \in 0..POLL_STALE_AFTER + 1
    BY PanelsAssumption
  <2> QED
    BY <2>1, <2>2, <2>3
<1> QED
  BY <1>1, <1>2, <1>3, <1>4 DEF DashTypeOK

LEMMA FingerprintTyped ==
    ASSUME DashTypeOK, NEW live \in SUBSET Panels
    PROVE  fingerprint(live) \in Shown
<1> DEFINE P == live \cup {p \in {CapsPanel} : p \in viewer.fleet /\ read_capability_cache}
<1>1. P \in SUBSET Panels /\ inFlight \in BOOLEAN
  BY PanelsAssumption DEF DashTypeOK
<1>2. fingerprint(live) = [panels |-> P, in_flight |-> inFlight]
  BY DEF fingerprint
<1> HIDE DEF P
<1> QED
  BY <1>1, <1>2 DEF Shown

LEMMA DashKeeps ==
    ASSUME DashTypeOK, DashNext
    PROVE  DashTypeOK'
<1> USE PanelsAssumption
<1> DEFINE Pages == [probing: BOOLEAN, age: 0..POLL_STALE_AFTER + 1, seen: Shown]
<1>1. page \in Pages /\ viewer.fleet \subseteq Panels
  BY DEF DashTypeOK, Viewers
<1>2. ASSUME index PROVE job' \in [Panels -> JobStates] /\ page' \in Pages /\ loads' \in 0..MaxLoads
  <2>1. job' \in [Panels -> JobStates]
    BY <1>2 DEF index, queue_or_none, JobStates
  <2>2. loads' \in 0..MaxLoads
    BY <1>2 DEF index, DashTypeOK
  <2>3. page' \in Pages
    <3> DEFINE probing == \E p \in Panels : queue_or_none(p) = "queued"
    <3>1. fingerprint({}) \in Shown
      BY FingerprintTyped
    <3>2. page' = [probing |-> probing, age |-> 0, seen |-> fingerprint({})]
      BY <1>2 DEF index
    <3>3. probing \in BOOLEAN /\ 0 \in 0..POLL_STALE_AFTER + 1
      OBVIOUS
    <3> HIDE DEF probing
    <3> QED
      BY <3>1, <3>2, <3>3
  <2> QED
    BY <2>1, <2>2, <2>3
<1>3. CASE LoadPage
  BY <1>2, <1>3 DEF LoadPage, DashTypeOK
<1>4. CASE check_now
  BY <1>2, <1>4 DEF check_now, DashTypeOK
<1>5. CASE panels
  <2> DEFINE state == [p \in viewer.fleet |-> describe_job(p)]
             live == {p \in viewer.fleet : state[p] = "ready"}
             probing == (\E p \in viewer.fleet : state[p] = "waiting")
                           /\ page.age <= POLL_STALE_AFTER
  <2>1. /\ page' = page \/ page' = [probing |-> probing, age |-> page.age,
                                   seen |-> fingerprint(live)]
        /\ UNCHANGED <<redis, job, recheck, caps, viewer, inFlight, loads>>
    BY <1>5 DEF panels, poll_started
  <2>2. live \in SUBSET Panels /\ probing \in BOOLEAN
    BY <1>1
  <2> HIDE DEF live, probing
  <2>3. fingerprint(live) \in Shown
    BY <2>2, FingerprintTyped
  <2>4. page' \in Pages
    BY <1>1, <2>1, <2>2, <2>3
  <2> QED
    BY <2>1, <2>4 DEF DashTypeOK
<1>6. ASSUME NEW p \in Panels, StartJob(p) \/ FleetTask(p) \/ ResultExpires(p) PROVE DashTypeOK'
  <2>1. job' \in [Panels -> JobStates]
    BY <1>6 DEF StartJob, FleetTask, ResultExpires, fleet_task, DashTypeOK, JobStates
  <2>2. UNCHANGED <<redis, recheck, caps, viewer, inFlight, page, loads>>
    BY <1>6 DEF StartJob, FleetTask, ResultExpires
  <2> QED
    BY <2>1, <2>2 DEF DashTypeOK
<1>7. CASE capabilities_task
  <2>1. job' \in [Panels -> JobStates]
    BY <1>7 DEF capabilities_task, DashTypeOK, JobStates
  <2> QED
    BY <1>7, <2>1 DEF capabilities_task, DashTypeOK
<1>8. CASE RecheckTask \/ CapsExpire \/ GrantsMove \/ JobsMove
  BY <1>8 DEF RecheckTask, CapsExpire, GrantsMove, JobsMove, DashTypeOK
<1>9. CASE Tick
  <2>1. page' \in Pages
    BY <1>1, <1>9 DEF Tick
  <2> QED
    BY <1>9, <2>1 DEF Tick, DashTypeOK
<1> QED
  BY <1>3, <1>4, <1>5, <1>6, <1>7, <1>8, <1>9 DEF DashNext

-----------------------------------------------------------------------------
(* What a step of a worker has to show.                                    *)

LEMMA IdleFacts == Idle \notin Request /\ Idle.op = "idle"
<1>1. Idle.op = "idle"
  BY DEF Idle
<1>2. \A q \in Request : q.op # "idle"
  BY DEF Request, Ops
<1> QED
  BY <1>1, <1>2

\* A removal's held pods shrink, and stay named.
LEMMA NamedShrinks ==
    ASSUME NEW q, NEW pods, NEW fewer \in SUBSET pods, StillNamed(q, pods)
    PROVE  StillNamed(q, fewer)
BY DEF StillNamed

\* The request of w becomes r, the others stay.
LEMMA WorkerKeeps ==
    ASSUME IInv, NEW w \in Workers, NEW r, req' = [req EXCEPT ![w] = r], HeldNext,
           r = Idle \/ (r \in Request /\ Placed(r)),
           r # Idle /\ req[w] # Idle =>
              /\ r.m = req[w].m
              /\ StillNamed(r, {p \in held[w] : keys'[p][r.m] # Absent}),
           r # Idle /\ req[w] = Idle => r.pc \in {"queue", "look"}
    PROVE  ReqOK' /\ HeldOK'
<1>1. req = [v \in Workers |-> req[v]]
  BY DEF IInv, ReqOK
<1>2. /\ req' = [v \in Workers |-> req'[v]] /\ req'[w] = r
      /\ \A v \in Workers : v # w => req'[v] = req[v]
  BY <1>1
<1>3. ReqOK'
  <2>1. \A v \in Workers : req'[v] = Idle \/ (req'[v] \in Request /\ Placed(req'[v]))
    BY <1>2 DEF IInv, ReqOK
  <2> QED
    BY <1>2, <2>1 DEF ReqOK, Placed, Heard, StickyHeard
<1>4. ASSUME NEW v \in Workers
      PROVE  /\ held'[v] \subseteq Pods
             /\ req'[v] # Idle => /\ StillNamed(req'[v], held'[v])
                                  /\ \A p \in held'[v] : keys'[p][req'[v].m] # Absent
  <2> DEFINE q == req'[v]
             before == IF req[v] = Idle THEN ToSet(q.clients) ELSE held[v]
  <2>1. held'[v] = IF q = Idle THEN {} ELSE {p \in before : keys'[p][q.m] # Absent}
    BY DEF HeldNext
  <2>2. CASE q = Idle
    BY <2>1, <2>2
  <2>3. CASE q # Idle /\ req[v] = Idle
    <3>1. v = w /\ q = r /\ r \in Request /\ r.pc \in {"queue", "look"}
      BY <1>2, <2>3
    <3>2. ToSet(q.clients) \subseteq Pods
      BY <3>1 DEF Request, ToSet
    <3>3. held'[v] = {p \in ToSet(q.clients) : keys'[p][q.m] # Absent}
      BY <2>1, <2>3
    <3>4. StillNamed(q, held'[v])
      BY <3>1, <3>3 DEF StillNamed
    <3> QED
      BY <3>2, <3>3, <3>4
  <2>4. CASE q # Idle /\ req[v] # Idle
    <3>1. held'[v] = {p \in held[v] : keys'[p][q.m] # Absent}
      BY <2>1, <2>4
    <3>2. held[v] \subseteq Pods
      BY DEF IInv, HeldOK
    <3>3. StillNamed(q, held'[v])
      <4>1. CASE v = w
        BY <1>2, <2>4, <3>1, <4>1
      <4>2. CASE v # w
        <5>1. q = req[v] /\ StillNamed(req[v], held[v])
          BY <1>2, <2>4, <4>2 DEF IInv, HeldOK
        <5>2. held'[v] \in SUBSET held[v]
          BY <3>1
        <5> QED
          BY <5>1, <5>2, NamedShrinks
      <4> QED
        BY <4>1, <4>2
    <3> QED
      BY <3>1, <3>2, <3>3
  <2> QED
    BY <2>2, <2>3, <2>4
<1>5. held' \in [Workers -> SUBSET Pods]
  BY <1>4 DEF HeldNext
<1>6. HeldOK'
  BY <1>4, <1>5 DEF HeldOK, StillNamed
<1> QED
  BY <1>3, <1>6

\* The rest of the invariant, when only the requests, the caches, the answer and
\* the rows move.
LEMMA RestKeeps ==
    ASSUME IInv, ReqOK', HeldOK', CacheOK', PresenceOK', ViewsTellWhatWasRead',
           UNCHANGED <<redis, dashVars, setup, attached>>,
           keys' \in [Pods -> [Minions -> Statuses \cup {Absent}]],
           rows' \in [Minions -> Statuses \cup {Absent}],
           podsKnown' \in BOOLEAN, scans' \subseteq Minions
    PROVE  IInv'
<1>1. DashTypeOK'
  BY DEF IInv, DashTypeOK, dashVars
<1>2. StateOK'
  BY DEF IInv, StateOK
<1> QED
  BY <1>1, <1>2 DEF IInv

\* The caches as they were.
LEMMA SameCaches ==
    ASSUME IInv, UNCHANGED cache
    PROVE  CacheOK' /\ PresenceOK'
BY DEF IInv, CacheOK, PresenceOK, SharedOK, Heard, StickyHeard

\* An answer that is no page and skips nothing.
LEMMA PlainAnswer ==
    ASSUME out'.kind \notin {"page", "skipped"}
    PROVE  ViewsTellWhatWasRead'
BY DEF ViewsTellWhatWasRead

LEMMA NoneIsPlain == None.kind = "none"
BY DEF None

\* A request at pc is one, and placed.
LEMMA AtFacts ==
    ASSUME IInv, NEW w \in Workers, NEW pc, At(w, pc)
    PROVE  /\ req[w] # Idle /\ req[w] \in Request /\ Placed(req[w]) /\ req[w].pc = pc
           /\ StillNamed(req[w], held[w]) /\ held[w] \subseteq Pods
           /\ \A p \in held[w] : keys[p][req[w].m] # Absent
BY DEF IInv, ReqOK, HeldOK, At

\* A request that ends.
LEMMA DoneKeeps ==
    ASSUME IInv, NEW w \in Workers, req' = [req EXCEPT ![w] = Idle], HeldNext
    PROVE  ReqOK' /\ HeldOK'
BY WorkerKeeps

LEMMA BeginKeeps ==
    ASSUME IInv, HeldNext, NEW w \in Workers, Begins(w)
    PROVE  IInv'
<1>a. PICK op \in setup.ops \cap Ops, m \in setup.ids, delete_key, k8s \in BOOLEAN :
         \E scope \in {Minions, {m}}, tab \in Tabs :
            /\ delete_key \/ k8s => op = "remove"
            /\ scope # Minions => op \in {"presence", "refresh", "detail"}
            /\ tab # "stored" => op = "detail"
            /\ Begin(w, op, m, tab, scope, delete_key, k8s)
  BY Zenon DEF Begins
<1>b. PICK scope \in {Minions, {m}}, tab \in Tabs :
              Begin(w, op, m, tab, scope, delete_key, k8s)
  BY <1>a
<1> DEFINE pc == IF op \in {"refresh", "states_refresh"} THEN "queue" ELSE "look"
           map == [x \in Minions |-> 0]
           clients == IF op = "remove" THEN pod_clients(k8s) ELSE <<>>
           row == op = "remove" /\ rows[m] # Absent
           need == FirstNeed(op, m)
           r == [op |-> op, m |-> m, tab |-> tab, scope |-> scope, pc |-> pc, need |-> need,
                 todo |-> <<>>, roster |-> Unread, map |-> map, clients |-> clients, row |-> row,
                 delete_key |-> delete_key, partial |-> {}, half |-> {}, unapplied |-> {}]
<1>1. req' = [req EXCEPT ![w] = r] /\ req[w] = Idle
  BY <1>b DEF Begin, Go
<1>2. /\ m \in Minions /\ scope \in SUBSET Minions /\ pc \in Pcs /\ need \in Needs
      /\ map \in PodMaps /\ clients \in Seq(Pods) /\ row \in BOOLEAN
      /\ <<>> \in Seq(Pods) /\ {} \in SUBSET Pods
  <2>1. m \in Minions
    BY DEF IInv, StateOK
  <2>2. pc \in Pcs
    BY DEF Pcs
  <2>3. need \in Needs
    BY DEF FirstNeed, Needs, CacheNames
  <2>4. map \in PodMaps
    BY PodsFacts DEF PodMaps
  <2>5. clients \in Seq(Pods)
    BY PodClientsFacts
  <2> QED
    BY <2>1, <2>2, <2>3, <2>4, <2>5
<1>3. /\ op = "detail" => need = "sticky"
      /\ pc \in {"queue", "look"} /\ (op = "refresh" => pc = "queue")
      /\ op = "remove" => clients # <<>>
  BY PodClientsFacts DEF FirstNeed
<1> HIDE DEF pc, map, clients, row, need
<1>4. r \in Request
  BY <1>2, UnreadFacts DEF Request
<1>5. r.op = op /\ r.pc = pc /\ r.need = need /\ r.clients = clients /\ r.roster = Unread
  OBVIOUS
<1> HIDE DEF r
<1>6. Placed(r)
  BY <1>3, <1>5, UnreadFacts DEF Placed
<1>7. ReqOK' /\ HeldOK'
  BY <1>1, <1>3, <1>4, <1>5, <1>6, WorkerKeeps
<1>8. /\ out' = None /\ UNCHANGED <<keys, attached, redis, dashVars, setup, scans, rows, cache>>
      /\ podsKnown' \in BOOLEAN
  BY <1>b DEF Begin, Silent, NoKeys, Elsewhere
<1> QED
  BY <1>7, <1>8, SameCaches, PlainAnswer, NoneIsPlain, RestKeeps DEF IInv, StateOK

-----------------------------------------------------------------------------
(* The steps of a request, one lemma for each.                             *)

\* A request that goes on, and is not in the middle of a removal.
LEMMA GoesOn ==
    ASSUME IInv, HeldNext, NEW w \in Workers, req[w] # Idle,
           NEW r \in Request, req' = [req EXCEPT ![w] = r], Placed(r),
           r.m = req[w].m, r.clients = req[w].clients, r.pc \notin {"confirm", "delete", "drop"}
    PROVE  ReqOK' /\ HeldOK'
<1>1. held[w] \subseteq ToSet(r.clients)
  BY DEF IInv, HeldOK, StillNamed
<1>2. StillNamed(r, {p \in held[w] : keys'[p][r.m] # Absent})
  BY <1>1 DEF StillNamed
<1> QED
  BY <1>2, WorkerKeeps, IdleFacts

LEMMA LookKeeps ==
    ASSUME IInv, HeldNext, NEW w \in Workers, NEW k8s \in BOOLEAN, Look(w, k8s)
    PROVE  IInv'
<1> DEFINE q == req[w]
           c == q.need
           value == read_cache(c)
           todo == IF c = "sticky" THEN <<Sticky>> ELSE pod_clients(k8s)
<1>0. q \in Request
  BY AtFacts DEF Look
<1>1. /\ q # Idle /\ q \in Request /\ Placed(q) /\ q.pc = "look"
      /\ c \in {"sticky", "merged", "map"}
  BY AtFacts DEF Look
<1>2. /\ out' = None /\ UNCHANGED <<keys, attached, redis, dashVars, setup, scans, rows, cache>>
      /\ podsKnown' \in BOOLEAN
  BY DEF Look, Silent, NoKeys, Elsewhere, IInv, StateOK
<1>3. ReqOK' /\ HeldOK'
  <2>1. /\ "got" \in Pcs /\ "call" \in Pcs /\ "read" \in Pcs
        /\ todo \in Seq(Pods) /\ (c = "sticky" => todo = <<Sticky>>)
    BY PodClientsFacts, PodsFacts DEF Pcs
  <2>2. CASE value # None /\ c = "map"
    <3> DEFINE r == [q EXCEPT !.pc = "call", !.map = value]
    <3>1. req' = [req EXCEPT ![w] = r]
      BY <2>2 DEF Look, Go
    <3>2. value \in PodMaps
      BY <2>2 DEF read_cache, IInv, CacheOK
    <3> HIDE DEF value, q
    <3>3. /\ r \in Request /\ r.op = q.op /\ r.m = q.m /\ r.pc = "call" /\ r.need = q.need
          /\ r.todo = q.todo /\ r.roster = q.roster /\ r.clients = q.clients
      BY <1>0, <2>1, <3>2 DEF Request
    <3> HIDE DEF r
    <3>4. Placed(r)
      BY <1>1, <3>3 DEF Placed
    <3> QED
      BY <1>1, <3>1, <3>3, <3>4, GoesOn DEF q
  <2>3. CASE value # None /\ c # "map"
    <3> DEFINE r == [q EXCEPT !.pc = "got", !.roster = value]
    <3>1. req' = [req EXCEPT ![w] = r]
      BY <2>3 DEF Look, Go
    <3>2. value \in Roster /\ Heard(value) /\ (c = "sticky" => StickyHeard(value))
      BY <1>1, <2>3 DEF read_cache, IInv, CacheOK, Heard, StickyHeard
    <3> HIDE DEF value, q
    <3>3. /\ r \in Request /\ r.op = q.op /\ r.m = q.m /\ r.pc = "got" /\ r.need = q.need
          /\ r.todo = q.todo /\ r.roster = value /\ r.clients = q.clients
      BY <1>0, <2>1, <3>2 DEF Request
    <3> HIDE DEF r
    <3>4. Placed(r)
      BY <1>1, <2>3, <3>2, <3>3 DEF Placed
    <3> QED
      BY <1>1, <3>1, <3>3, <3>4, GoesOn DEF q
  <2>4. CASE value = None
    <3> DEFINE r == [q EXCEPT !.pc = "read", !.todo = todo, !.roster = Unread]
    <3>1. req' = [req EXCEPT ![w] = r]
      BY <2>4 DEF Look, Go
    <3> HIDE DEF value, q, todo
    <3>3. /\ r \in Request /\ r.op = q.op /\ r.m = q.m /\ r.pc = "read" /\ r.need = q.need
          /\ r.todo = todo /\ r.roster = Unread /\ r.clients = q.clients
      BY <1>0, <2>1, UnreadFacts DEF Request
    <3> HIDE DEF r
    <3>4. Placed(r)
      BY <1>1, <2>1, <3>3, UnreadFacts DEF Placed
    <3> QED
      BY <1>1, <3>1, <3>3, <3>4, GoesOn DEF q
  <2> QED
    BY <2>2, <2>3, <2>4
<1> QED
  BY <1>2, <1>3, SameCaches, PlainAnswer, NoneIsPlain, RestKeeps DEF IInv, StateOK

LEMMA ReadPodKeeps ==
    ASSUME IInv, HeldNext, NEW w \in Workers, NEW keys_ok \in BOOLEAN, NEW presence_ok \in BOOLEAN,
           ReadPod(w, keys_ok, presence_ok)
    PROVE  IInv'
<1> DEFINE q == req[w]
           sub == live_roster(Head(q.todo), keys_ok, presence_ok)
           merged == merged_roster(q.roster, sub)
           r == [q EXCEPT !.todo = Tail(@), !.roster = merged]
<1>0. q \in Request
  BY AtFacts DEF ReadPod
<1>1. /\ q # Idle /\ q \in Request /\ Placed(q) /\ q.pc = "read" /\ q.todo # <<>>
      /\ q.todo \in Seq(Pods) /\ q.roster \in Roster
  BY AtFacts DEF ReadPod, Request
<1>2. /\ out' = None /\ UNCHANGED <<keys, attached, redis, dashVars, setup, scans, rows, cache,
                                   podsKnown>>
  BY DEF ReadPod, Silent, NoKeys, Elsewhere
<1>3. /\ Head(q.todo) \in Pods /\ Tail(q.todo) \in Seq(Pods)
      /\ q.need = "sticky" => Head(q.todo) = Sticky /\ Tail(q.todo) = <<>>
  <2>1. Head(<<Sticky>>) = Sticky /\ Tail(<<Sticky>>) = <<>>
    BY PodsFacts
  <2>2. Head(q.todo) \in Pods /\ Tail(q.todo) \in Seq(Pods)
    BY <1>1, TodoFacts
  <2>3. q.need = "sticky" => q.todo = <<Sticky>>
    BY <1>1 DEF Placed
  <2> QED
    BY <2>1, <2>2, <2>3
<1>4. sub \in Roster /\ Heard(sub) /\ (q.need = "sticky" => StickyHeard(sub))
  BY <1>3, LiveRosterFacts DEF IInv, StickyHeard
<1>5. req' = [req EXCEPT ![w] = [q EXCEPT !.todo = Tail(q.todo), !.roster = merged]]
  BY <1>1 DEF ReadPod, Go, Request
<1>6. /\ merged \in Roster /\ Heard(merged)
      /\ q.need = "sticky" => StickyHeard(merged)
  <2> HIDE DEF sub
  <2> QED
    BY <1>1, <1>4, MergedFacts DEF Placed
<1> HIDE DEF q, merged
<1>7. ReqOK' /\ HeldOK'
  <2> DEFINE s == [q EXCEPT !.todo = Tail(q.todo), !.roster = merged]
  <2>1. /\ s \in Request /\ s.op = q.op /\ s.m = q.m /\ s.pc = q.pc /\ s.need = q.need
        /\ s.todo = Tail(q.todo) /\ s.roster = merged /\ s.clients = q.clients
    BY <1>0, <1>3, <1>6 DEF Request
  <2> HIDE DEF s
  <2>2. Placed(s)
    BY <1>1, <1>3, <1>6, <2>1 DEF Placed
  <2> QED
    BY <1>1, <1>5, <2>1, <2>2, GoesOn DEF q, s
<1> QED
  BY <1>2, <1>7, SameCaches, PlainAnswer, NoneIsPlain, RestKeeps DEF IInv, StateOK

LEMMA MapPodKeeps ==
    ASSUME IInv, HeldNext, NEW w \in Workers, NEW presence_ok \in BOOLEAN, MapPod(w, presence_ok)
    PROVE  IInv'
<1> DEFINE q == req[w]
           p == Head(q.todo)
           map == [x \in Minions |-> IF presence_ok /\ q.map[x] = 0 /\ attached[x] = p
                                     THEN p ELSE q.map[x]]
<1>0. q \in Request
  BY AtFacts DEF MapPod
<1>1. /\ q # Idle /\ q \in Request /\ Placed(q) /\ q.pc = "read" /\ q.todo # <<>>
      /\ q.todo \in Seq(Pods) /\ q.map \in PodMaps /\ q.need = "map"
  BY AtFacts DEF MapPod, Request
<1>2. /\ out' = None /\ UNCHANGED <<keys, attached, redis, dashVars, setup, scans, rows, cache,
                                   podsKnown>>
  BY DEF MapPod, Silent, NoKeys, Elsewhere
<1>3. p \in Pods /\ Tail(q.todo) \in Seq(Pods) /\ p \in 0..NumPods
  BY <1>1, TodoFacts, PodsFacts
<1>4. map \in PodMaps
  BY <1>1, <1>3 DEF PodMaps
<1>5. req' = [req EXCEPT ![w] = [q EXCEPT !.todo = Tail(q.todo), !.map = map]]
  BY <1>1 DEF MapPod, Go, Request
<1> HIDE DEF q, map
<1>7. ReqOK' /\ HeldOK'
  <2> DEFINE s == [q EXCEPT !.todo = Tail(q.todo), !.map = map]
  <2>1. /\ s \in Request /\ s.op = q.op /\ s.m = q.m /\ s.pc = q.pc /\ s.need = q.need
        /\ s.todo = Tail(q.todo) /\ s.roster = q.roster /\ s.clients = q.clients
    BY <1>0, <1>3, <1>4 DEF Request
  <2> HIDE DEF s
  <2>2. Placed(s)
    BY <1>1, <2>1 DEF Placed
  <2> QED
    BY <1>1, <1>5, <2>1, <2>2, GoesOn DEF q, s
<1> QED
  BY <1>2, <1>7, SameCaches, PlainAnswer, NoneIsPlain, RestKeeps DEF IInv, StateOK

\* A cache that is written: the value is what the invariant asks of that cache.
LEMMA WrittenKeeps ==
    ASSUME IInv, NEW c \in CacheNames, NEW value, write_cache(c, value),
           c = "sticky" => value \in Roster /\ Heard(value) /\ StickyHeard(value),
           c = "merged" => value \in Roster /\ Heard(value),
           c = "map" => value \in PodMaps,
           c = "presence" => SharedOK(value)
    PROVE  CacheOK' /\ PresenceOK'
<1>1. CASE ~redis
  <2>1. UNCHANGED cache
    BY <1>1 DEF write_cache, Written
  <2> QED
    BY <2>1, SameCaches
<1>2. CASE redis
  <2>1. cache' = [cache EXCEPT ![c] = value]
    BY <1>2 DEF write_cache, Written
  <2>2. cache = [d \in CacheNames |-> cache[d]]
    BY DEF IInv, CacheOK
  <2>3. /\ cache' = [d \in CacheNames |-> cache'[d]] /\ cache'[c] = value
        /\ \A d \in CacheNames : d # c => cache'[d] = cache[d]
    BY <2>1, <2>2
  <2>4. \A d \in {"sticky", "merged", "presence", "map"} : d \in CacheNames
    BY DEF CacheNames
  <2>5. /\ \/ cache'["sticky"] = None
           \/ /\ cache'["sticky"] \in Roster
              /\ Heard(cache'["sticky"]) /\ StickyHeard(cache'["sticky"])
        /\ cache'["merged"] = None \/ (cache'["merged"] \in Roster /\ Heard(cache'["merged"]))
        /\ cache'["map"] = None \/ cache'["map"] \in PodMaps
    BY <2>3, <2>4 DEF IInv, CacheOK
  <2>6. cache'["presence"] = None \/ SharedOK(cache'["presence"])
    BY <2>3, <2>4 DEF IInv, PresenceOK, SharedOK
  <2>7. CacheOK'
    BY <2>3, <2>5 DEF CacheOK, Heard, StickyHeard
  <2>8. PresenceOK'
    BY <2>6 DEF PresenceOK, SharedOK
  <2> QED
    BY <2>7, <2>8
<1> QED
  BY <1>1, <1>2

LEMMA FillRosterKeeps ==
    ASSUME IInv, HeldNext, NEW w \in Workers, FillRoster(w)
    PROVE  IInv'
<1> DEFINE q == req[w]
           roster == q.roster
           filled == [roster EXCEPT !.reachable = TRUE, !.presence_ok = TRUE]
<1>0. q \in Request
  BY AtFacts DEF FillRoster
<1>1. /\ q # Idle /\ Placed(q) /\ q.pc = "read" /\ q.need \in {"sticky", "merged"}
      /\ roster \in Roster /\ q.op # "refresh"
  BY AtFacts DEF FillRoster, Request
<1>2. /\ out' = None /\ UNCHANGED <<keys, attached, redis, dashVars, setup, scans, rows, podsKnown>>
      /\ \/ UNCHANGED cache
         \/ Fills(roster) /\ write_cache(q.need, filled)
      /\ req' = [req EXCEPT ![w] = [q EXCEPT !.pc = "got"]]
  BY DEF FillRoster, Silent, NoKeys, Elsewhere, Go
<1>3. CacheOK' /\ PresenceOK'
  <2>1. CASE UNCHANGED cache
    BY <2>1, SameCaches
  <2>2. CASE Fills(roster) /\ write_cache(q.need, filled)
    <3>1. /\ roster.presence_ok /\ Heard(roster) /\ (q.need = "sticky" => StickyHeard(roster))
      BY <1>1, <2>2 DEF Placed, Fills
    <3>2. /\ roster.heard # {} /\ (q.need = "sticky" => \E h \in roster.heard : h.pod = Sticky)
      BY <3>1 DEF Heard, StickyHeard
    <3>3. filled \in Roster /\ filled.heard = roster.heard /\ filled.up = roster.up
      <4> HIDE DEF roster
      <4> QED
        BY <1>1 DEF Roster
    <3> HIDE DEF filled
    <3>4. Heard(filled) /\ (q.need = "sticky" => StickyHeard(filled))
      BY <3>1, <3>2, <3>3 DEF Heard, StickyHeard
    <3>5. q.need \in CacheNames
      BY <1>1 DEF CacheNames
    <3> HIDE DEF q
    <3> QED
      BY <1>1, <2>2, <3>3, <3>4, <3>5, WrittenKeeps
  <2> QED
    BY <1>2, <2>1, <2>2
<1>4. ReqOK' /\ HeldOK'
  <2> DEFINE r == [q EXCEPT !.pc = "got"]
  <2> HIDE DEF q, filled
  <2>1. "got" \in Pcs
    BY DEF Pcs
  <2>2. /\ r \in Request /\ r.op = q.op /\ r.m = q.m /\ r.pc = "got" /\ r.need = q.need
        /\ r.todo = q.todo /\ r.roster = q.roster /\ r.clients = q.clients
    BY <1>0, <2>1 DEF Request
  <2>3. req' = [req EXCEPT ![w] = r]
    BY <1>2
  <2> HIDE DEF r
  <2>4. Placed(r)
    BY <1>1, <2>2 DEF Placed
  <2> QED
    BY <1>1, <2>2, <2>3, <2>4, GoesOn DEF q
<1> QED
  BY <1>2, <1>3, <1>4, PlainAnswer, NoneIsPlain, RestKeeps DEF IInv, StateOK

LEMMA FillMapKeeps ==
    ASSUME IInv, HeldNext, NEW w \in Workers, FillMap(w)
    PROVE  IInv'
<1> DEFINE q == req[w]
<1>0. q \in Request
  BY AtFacts DEF FillMap
<1>1. /\ q # Idle /\ Placed(q) /\ q.pc = "read" /\ q.need = "map" /\ q.map \in PodMaps
  BY AtFacts DEF FillMap, Request
<1>2. /\ out' = None /\ UNCHANGED <<keys, attached, redis, dashVars, setup, scans, rows, podsKnown>>
      /\ UNCHANGED cache \/ write_cache("map", q.map)
      /\ req' = [req EXCEPT ![w] = [q EXCEPT !.pc = "call"]]
  BY DEF FillMap, Silent, NoKeys, Elsewhere, Go
<1>3. CacheOK' /\ PresenceOK'
  <2>1. "map" \in CacheNames
    BY DEF CacheNames
  <2>2. CASE UNCHANGED cache
    BY <2>2, SameCaches
  <2>3. CASE write_cache("map", q.map)
    <3> HIDE DEF q
    <3> QED
      BY <1>1, <2>1, <2>3, WrittenKeeps
  <2> QED
    BY <1>2, <2>2, <2>3
<1>4. ReqOK' /\ HeldOK'
  <2> DEFINE r == [q EXCEPT !.pc = "call"]
  <2> HIDE DEF q
  <2>1. "call" \in Pcs
    BY DEF Pcs
  <2>2. /\ r \in Request /\ r.op = q.op /\ r.m = q.m /\ r.pc = "call" /\ r.need = q.need
        /\ r.todo = q.todo /\ r.roster = q.roster /\ r.clients = q.clients
    BY <1>0, <2>1 DEF Request
  <2>3. req' = [req EXCEPT ![w] = r]
    BY <1>2
  <2> HIDE DEF r
  <2>4. Placed(r)
    BY <1>1, <2>2 DEF Placed
  <2> QED
    BY <1>1, <2>2, <2>3, <2>4, GoesOn DEF q
<1> QED
  BY <1>2, <1>3, <1>4, PlainAnswer, NoneIsPlain, RestKeeps DEF IInv, StateOK

-----------------------------------------------------------------------------
(* The pages.                                                              *)

LEMMA PageTells ==
    ASSUME NEW D \in SUBSET Minions, NEW label \in [D -> Labels], NEW scope \in SUBSET Minions,
           NEW heard, \A m \in D : Tells(m, label[m], heard),
           out' = Page(scope, label, D, heard)
    PROVE  ViewsTellWhatWasRead'
<1> DEFINE shown == In(label, scope)
<1>1. DOMAIN shown = scope \cap D /\ \A m \in scope \cap D : shown[m] = label[m]
  BY InFacts
<1>2. out' = [kind |-> "page", scope |-> scope, label |-> shown, listed |-> D, heard |-> heard]
  BY DEF Page
<1> HIDE DEF shown
<1>3. /\ out'.kind = "page" /\ out'.scope = scope /\ out'.label = shown /\ out'.listed = D
      /\ out'.heard = heard
  BY <1>2
<1>4. \A m \in DOMAIN out'.label :
         /\ out'.label[m] = "up" => Told(m, out'.heard)
         /\ out'.label[m] \in {"dead", "down"} => out'.heard # {} /\ ~Told(m, out'.heard)
  BY <1>1, <1>3 DEF Tells
<1>5. out'.listed \cap out'.scope \subseteq DOMAIN out'.label
  BY <1>1, <1>3
<1> QED
  BY <1>3, <1>4, <1>5 DEF ViewsTellWhatWasRead, Told

\* The page of a roster.
LEMMA RosterPageTells ==
    ASSUME IInv, NEW roster \in Roster, Heard(roster), NEW scope \in SUBSET Minions,
           out' = Page(scope, minion_entries(roster), DOMAIN minion_entries(roster), roster.heard)
    PROVE  ViewsTellWhatWasRead'
<1> DEFINE label == minion_entries(roster)
           D == DOMAIN label
<1>1. /\ D \subseteq Minions /\ label \in [D -> Labels]
      /\ \A m \in D : Tells(m, label[m], roster.heard)
  BY EntriesFacts DEF IInv
<1>3. out' = Page(scope, label, D, roster.heard)
  OBVIOUS
<1> HIDE DEF label, D
<1> QED
  BY <1>1, <1>3, PageTells

LEMMA ShowsKeeps ==
    ASSUME IInv, HeldNext, NEW w \in Workers, index_page(w) \/ export_csv(w)
    PROVE  IInv'
<1> DEFINE q == req[w]
<1>1. q \in Request /\ Placed(q)
  BY AtFacts DEF index_page, export_csv
<1>2. /\ UNCHANGED <<keys, attached, redis, dashVars, setup, scans, rows, podsKnown, cache>>
      /\ req' = [req EXCEPT ![w] = Idle]
      /\ out' = Page(q.scope, minion_entries(q.roster), DOMAIN minion_entries(q.roster),
                     q.roster.heard)
  BY DEF index_page, export_csv, ShowsRoster, Done, NoKeys, Elsewhere
<1>3. q.roster \in Roster /\ Heard(q.roster) /\ q.scope \in SUBSET Minions
  BY <1>1 DEF Request, Placed
<1> HIDE DEF q
<1>4. ViewsTellWhatWasRead'
  BY <1>2, <1>3, RosterPageTells
<1> QED
  BY <1>2, <1>4, DoneKeeps, SameCaches, RestKeeps DEF IInv, StateOK

LEMMA PresenceCachedKeeps ==
    ASSUME IInv, HeldNext, NEW w \in Workers, presence_cached(w)
    PROVE  IInv'
<1> DEFINE q == req[w]
           value == read_cache("presence")
<1>0. q \in Request
  BY AtFacts DEF presence_cached
<1>1. q # Idle /\ Placed(q) /\ q.pc = "look" /\ q.need = "presence"
  BY AtFacts DEF presence_cached
<1>2. UNCHANGED <<keys, attached, redis, dashVars, setup, scans, rows, podsKnown, cache>>
  BY DEF presence_cached, NoKeys, Elsewhere
<1>3. CASE value # None
  <2>1. SharedOK(value) /\ q.scope \in SUBSET Minions
    BY <1>0, <1>3 DEF read_cache, IInv, PresenceOK, SharedOK, Request
  <2>2. /\ req' = [req EXCEPT ![w] = Idle]
        /\ out' = Page(q.scope, value.label, value.listed, value.heard)
    BY <1>3 DEF presence_cached, Done
  <2> HIDE DEF q, value
  <2>3. ViewsTellWhatWasRead'
    BY <2>1, <2>2, PageTells DEF SharedOK
  <2> QED
    BY <1>2, <2>2, <2>3, DoneKeeps, SameCaches, RestKeeps DEF IInv, StateOK
<1>4. CASE value = None
  <2> DEFINE r == [q EXCEPT !.need = "merged"]
  <2>1. req' = [req EXCEPT ![w] = r] /\ out' = None
    BY <1>4 DEF presence_cached, Go, Silent
  <2>2. "merged" \in Needs
    BY DEF Needs, CacheNames
  <2> HIDE DEF q, value
  <2>3. /\ r \in Request /\ r.op = q.op /\ r.m = q.m /\ r.pc = q.pc /\ r.need = "merged"
        /\ r.todo = q.todo /\ r.roster = q.roster /\ r.clients = q.clients
    BY <1>0, <2>2 DEF Request
  <2> HIDE DEF r
  <2>4. Placed(r)
    BY <1>1, <2>3 DEF Placed
  <2>5. ReqOK' /\ HeldOK'
    BY <1>1, <2>1, <2>3, <2>4, GoesOn DEF q
  <2> QED
    BY <1>2, <2>1, <2>5, SameCaches, PlainAnswer, NoneIsPlain, RestKeeps DEF IInv, StateOK
<1> QED
  BY <1>3, <1>4

LEMMA PresencePageKeeps ==
    ASSUME IInv, HeldNext, NEW w \in Workers, presence_page(w)
    PROVE  IInv'
<1> DEFINE q == req[w]
           roster == q.roster
           label == minion_entries(roster)
           D == DOMAIN label
           shared == [label |-> In(label, q.scope), listed |-> D, heard |-> roster.heard]
<1>1. q \in Request /\ Placed(q)
  BY AtFacts DEF presence_page
<1>2. roster \in Roster /\ Heard(roster) /\ q.scope \in SUBSET Minions
  BY <1>1 DEF Request, Placed
<1>3. /\ UNCHANGED <<keys, attached, redis, dashVars, setup, scans, rows, podsKnown>>
      /\ req' = [req EXCEPT ![w] = Idle]
  BY DEF presence_page, Done, NoKeys, Elsewhere
<1>4. /\ out' = None \/ out' = Page(q.scope, label, D, roster.heard)
      /\ UNCHANGED cache \/ (q.scope = Minions /\ write_cache("presence", shared))
  BY DEF presence_page, Done, Shareable
<1>5. ViewsTellWhatWasRead'
  <2> HIDE DEF q, roster
  <2> QED
    BY <1>2, <1>4, RosterPageTells, PlainAnswer, NoneIsPlain
<1>6. CacheOK' /\ PresenceOK'
  <2>1. CASE UNCHANGED cache
    BY <2>1, SameCaches
  <2>2. CASE q.scope = Minions /\ write_cache("presence", shared)
    <3> HIDE DEF roster
    <3>1. /\ D \subseteq Minions /\ label \in [D -> Labels]
          /\ \A m \in D : Tells(m, label[m], roster.heard)
      BY <1>2, EntriesFacts DEF IInv
    <3>2. roster.heard \subseteq Reading
      BY <1>2 DEF Roster
    <3> HIDE DEF label, D, q
    <3>3. /\ In(label, q.scope) \in [D -> Labels]
          /\ \A m \in D : In(label, q.scope)[m] = label[m]
      <4>1. q.scope = Minions /\ q.scope \cap D = D
        BY <2>2, <3>1
      <4>2. In(label, q.scope) = [m \in D |-> label[m]]
        BY <3>1, <4>1 DEF In
      <4> QED
        BY <3>1, <4>2
    <3>4. /\ shared.label = In(label, q.scope) /\ shared.listed = D
          /\ shared.heard = roster.heard
      OBVIOUS
    <3> HIDE DEF shared
    <3>5. SharedOK(shared)
      BY <3>1, <3>2, <3>3, <3>4 DEF SharedOK
    <3>6. "presence" \in CacheNames
      BY DEF CacheNames
    <3> QED
      BY <2>2, <3>5, <3>6, WrittenKeeps
  <2> QED
    BY <1>4, <2>1, <2>2
<1> QED
  BY <1>3, <1>5, <1>6, DoneKeeps, RestKeeps DEF IInv, StateOK

-----------------------------------------------------------------------------
(* One minion.                                                             *)

LEMMA SkippedTells ==
    ASSUME NEW w, req[w] \in Request, Heard(req[w].roster), StickyHeard(req[w].roster),
           not_up(w), Skipped(w)
    PROVE  ViewsTellWhatWasRead'
<1>1. /\ \E h \in req[w].roster.heard : h.pod = Sticky
      /\ ~Told(req[w].m, req[w].roster.heard)
  <2>1. req[w].m \in Minions
    BY DEF Request
  <2> QED
    BY <2>1 DEF not_up, Heard, StickyHeard
<1>2. out' = [kind |-> "skipped", m |-> req[w].m, heard |-> req[w].roster.heard]
  BY DEF Skipped, Done
<1>3. out'.kind = "skipped" /\ out'.heard = req[w].roster.heard /\ out'.m = req[w].m
  BY <1>2
<1> QED
  BY <1>1, <1>3 DEF ViewsTellWhatWasRead, Told

\* The live call is skipped, not needed, or made.
LEMMA AsksKeeps ==
    ASSUME IInv, HeldNext, NEW w \in Workers, At(w, "got"), req[w].need = "sticky",
           (not_up(w) /\ Skipped(w)) \/ Done(w, None) \/ CallsMinion(w),
           UNCHANGED <<keys, attached, redis, dashVars, setup, scans, rows, podsKnown, cache>>
    PROVE  IInv'
<1> DEFINE q == req[w]
<1>0. q \in Request
  BY AtFacts
<1>1. q # Idle /\ Placed(q) /\ q.pc = "got"
  BY AtFacts
<1>2. CASE not_up(w) /\ Skipped(w)
  <2>1. ViewsTellWhatWasRead'
    BY <1>0, <1>1, <1>2, SkippedTells DEF Placed
  <2>2. req' = [req EXCEPT ![w] = Idle]
    BY <1>2 DEF Skipped, Done
  <2> QED
    BY <2>1, <2>2, DoneKeeps, SameCaches, RestKeeps DEF IInv, StateOK
<1>3. CASE Done(w, None)
  BY <1>3, DoneKeeps, SameCaches, PlainAnswer, NoneIsPlain, RestKeeps DEF IInv, StateOK, Done
<1>4. CASE CallsMinion(w)
  <2> DEFINE r == [q EXCEPT !.pc = "look", !.need = "map", !.roster = Unread]
  <2>1. req' = [req EXCEPT ![w] = r] /\ out' = None
    BY <1>4 DEF CallsMinion, Go, Silent
  <2>2. "map" \in Needs /\ "look" \in Pcs /\ Unread \in Roster
    BY UnreadFacts DEF Needs, CacheNames, Pcs
  <2> HIDE DEF q
  <2>3. /\ r \in Request /\ r.op = q.op /\ r.m = q.m /\ r.pc = "look" /\ r.need = "map"
        /\ r.todo = q.todo /\ r.roster = Unread /\ r.clients = q.clients
    BY <1>0, <2>2 DEF Request
  <2> HIDE DEF r
  <2>4. Placed(r)
    BY <1>1, <2>3, UnreadFacts DEF Placed
  <2>5. ReqOK' /\ HeldOK'
    BY <1>1, <2>1, <2>3, <2>4, GoesOn DEF q
  <2> QED
    BY <2>1, <2>5, SameCaches, PlainAnswer, NoneIsPlain, RestKeeps DEF IInv, StateOK
<1> QED
  BY <1>2, <1>3, <1>4

LEMMA DetailKeeps ==
    ASSUME IInv, HeldNext, NEW w \in Workers, detail(w) \/ refresh_one_asks(w)
    PROVE  IInv'
<1>1. At(w, "got") /\ (req[w].op = "detail" \/ req[w].need = "sticky")
  BY DEF detail, refresh_one_asks
<1>2. req[w].need = "sticky"
  BY <1>1, AtFacts DEF Placed
<1>3. UNCHANGED <<keys, attached, redis, dashVars, setup, scans, rows, podsKnown, cache>>
  BY DEF detail, refresh_one_asks, NoKeys, Elsewhere
<1>4. (not_up(w) /\ Skipped(w)) \/ Done(w, None) \/ CallsMinion(w)
  <2>1. CASE refresh_one_asks(w)
    BY <2>1 DEF refresh_one_asks
  <2>2. CASE detail(w)
    BY <2>2 DEF detail
  <2> QED
    BY <2>1, <2>2
<1> QED
  BY <1>1, <1>2, <1>3, <1>4, AsksKeeps

LEMMA AnswerIsPlain == \A got \in BOOLEAN : Answer(got).kind \in {"answered", "stored"}
BY DEF Answer

\* The call is over.
LEMMA CallKeeps ==
    ASSUME IInv, HeldNext, NEW w \in Workers, NEW ok \in BOOLEAN,
           \/ detail_call(w, ok) \/ refresh_one_call(w, ok) \/ beacon_act(w, ok)
           \/ states_refresh(w, ok)
    PROVE  IInv'
<1>1. \E got \in BOOLEAN : Done(w, Answer(got))
  <2>1. CASE detail_call(w, ok)
    BY <2>1 DEF detail_call, Reached
  <2>2. CASE refresh_one_call(w, ok)
    BY <2>2 DEF refresh_one_call, Reached
  <2>3. CASE beacon_act(w, ok)
    BY <2>3 DEF beacon_act, Reached
  <2>4. CASE states_refresh(w, ok)
    BY <2>4 DEF states_refresh, Reached
  <2> QED
    BY <2>1, <2>2, <2>3, <2>4
<1>2. req' = [req EXCEPT ![w] = Idle] /\ out'.kind \in {"answered", "stored"}
  BY <1>1, AnswerIsPlain DEF Done
<1>3. UNCHANGED <<keys, attached, redis, dashVars, setup, rows, podsKnown, cache>>
  BY DEF detail_call, refresh_one_call, beacon_act, states_refresh, NoKeys, Elsewhere
<1>4. scans' \subseteq Minions
  <2>1. CASE detail_call(w, ok)
    <3>1. req[w].m \in Minions
      BY <2>1, AtFacts DEF detail_call, Request
    <3>2. scans' = scans \/ scans' = scans \cup {req[w].m}
      BY <2>1 DEF detail_call, vuln_cache_set
    <3> QED
      BY <3>1, <3>2 DEF IInv, StateOK
  <2>2. CASE ~detail_call(w, ok)
    BY <2>2 DEF refresh_one_call, beacon_act, states_refresh, Elsewhere, IInv, StateOK
  <2> QED
    BY <2>1, <2>2
<1> QED
  BY <1>2, <1>3, <1>4, DoneKeeps, SameCaches, PlainAnswer, RestKeeps DEF IInv, StateOK

LEMMA RefreshOneRowKeeps ==
    ASSUME IInv, HeldNext, NEW w \in Workers, refresh_one_row(w)
    PROVE  IInv'
<1> DEFINE q == req[w]
           status == q.roster.statuses[q.m]
           r == [q EXCEPT !.pc = "look", !.need = "sticky", !.roster = Unread]
<1>0. q \in Request
  BY AtFacts DEF refresh_one_row
<1>1. q # Idle /\ Placed(q) /\ q.pc = "got" /\ q.op = "refresh_one"
  BY AtFacts DEF refresh_one_row
<1>2. UNCHANGED <<keys, attached, redis, dashVars, setup, scans, podsKnown, cache>>
  BY DEF refresh_one_row, NoKeys, Elsewhere
<1>3. \/ Done(w, None) /\ UNCHANGED rows
      \/ /\ req' = [req EXCEPT ![w] = r] /\ out' = None
         /\ rows' = [rows EXCEPT ![q.m] = IF status = Absent THEN "accepted" ELSE status]
  BY DEF refresh_one_row, Go, Silent
<1>4. status \in Statuses \cup {Absent} /\ q.m \in Minions
  BY <1>0 DEF Request, Roster
<1>5. CASE Done(w, None) /\ UNCHANGED rows
  BY <1>2, <1>5, DoneKeeps, SameCaches, PlainAnswer, NoneIsPlain, RestKeeps DEF IInv, StateOK, Done
<1>6. CASE /\ req' = [req EXCEPT ![w] = r] /\ out' = None
           /\ rows' = [rows EXCEPT ![q.m] = IF status = Absent THEN "accepted" ELSE status]
  <2> HIDE DEF q, status
  <2>1. rows' \in [Minions -> Statuses \cup {Absent}]
    BY <1>4, <1>6 DEF IInv, StateOK, Statuses
  <2>2. "sticky" \in Needs /\ "look" \in Pcs /\ Unread \in Roster
    BY UnreadFacts DEF Needs, CacheNames, Pcs
  <2>3. /\ r \in Request /\ r.op = q.op /\ r.m = q.m /\ r.pc = "look" /\ r.need = "sticky"
        /\ r.todo = q.todo /\ r.roster = Unread /\ r.clients = q.clients
    BY <1>0, <2>2 DEF Request
  <2>4. req' = [req EXCEPT ![w] = r]
    BY <1>6
  <2> HIDE DEF r
  <2>5. Placed(r)
    BY <1>1, <2>3, UnreadFacts DEF Placed
  <2>6. ReqOK' /\ HeldOK'
    BY <1>1, <2>3, <2>4, <2>5, GoesOn DEF q
  <2> QED
    BY <1>2, <1>6, <2>1, <2>6, SameCaches, PlainAnswer, NoneIsPlain, RestKeeps DEF IInv, StateOK
<1> QED
  BY <1>3, <1>5, <1>6

LEMMA RefreshKeeps ==
    ASSUME IInv, HeldNext, NEW w \in Workers, NEW allowed \in SUBSET Minions, refresh(w, allowed)
    PROVE  IInv'
<1> DEFINE q == req[w]
           scope == IF redis THEN refresh_inventory_task(q.scope, allowed) ELSE q.scope
           r == [q EXCEPT !.pc = "read", !.need = "sticky", !.todo = <<Sticky>>, !.scope = scope]
<1>0. q \in Request
  BY AtFacts DEF refresh
<1>1. q # Idle /\ Placed(q) /\ q.pc = "queue" /\ q.op = "refresh"
  BY AtFacts DEF refresh
<1>2. UNCHANGED <<keys, attached, redis, dashVars, setup, scans, rows, podsKnown, cache>>
  BY DEF refresh, NoKeys, Elsewhere
<1>3. \/ Done(w, None)
      \/ req' = [req EXCEPT ![w] = r] /\ out' = None
  BY DEF refresh, Go, Silent
<1>4. scope \in SUBSET Minions
  BY <1>0 DEF Request, refresh_inventory_task
<1>5. CASE Done(w, None)
  BY <1>2, <1>5, DoneKeeps, SameCaches, PlainAnswer, NoneIsPlain, RestKeeps DEF IInv, StateOK, Done
<1>6. CASE req' = [req EXCEPT ![w] = r] /\ out' = None
  <2> HIDE DEF q, scope
  <2>2. "sticky" \in Needs /\ "read" \in Pcs /\ <<Sticky>> \in Seq(Pods)
    BY PodsFacts DEF Needs, CacheNames, Pcs
  <2>3. /\ r \in Request /\ r.op = q.op /\ r.m = q.m /\ r.pc = "read" /\ r.need = "sticky"
        /\ r.todo = <<Sticky>> /\ r.roster = q.roster /\ r.clients = q.clients
    BY <1>0, <1>4, <2>2 DEF Request
  <2>4. req' = [req EXCEPT ![w] = r]
    BY <1>6
  <2> HIDE DEF r
  <2>5. Placed(r)
    BY <1>1, <2>3 DEF Placed, StickyHeard
  <2>6. ReqOK' /\ HeldOK'
    BY <1>1, <2>3, <2>4, <2>5, GoesOn DEF q
  <2> QED
    BY <1>2, <1>6, <2>6, SameCaches, PlainAnswer, NoneIsPlain, RestKeeps DEF IInv, StateOK
<1> QED
  BY <1>3, <1>5, <1>6

LEMMA RefreshNowKeeps ==
    ASSUME IInv, HeldNext, NEW w \in Workers, NEW ok \in BOOLEAN, refresh_now(w, ok)
    PROVE  IInv'
<1> DEFINE q == req[w]
           roster == q.roster
           answer == {m \in q.scope : ok /\ attached[m] = Sticky}
<1>1. /\ q \in Request /\ Placed(q) /\ q.pc = "read" /\ q.op = "refresh"
  BY AtFacts DEF refresh_now
<1>2. roster \in Roster /\ Heard(roster) /\ StickyHeard(roster)
  BY <1>1 DEF Request, Placed
<1>3. /\ UNCHANGED <<keys, attached, redis, dashVars, setup, scans, podsKnown>>
      /\ rows' = refresh_inventory(roster.statuses, answer)
      /\ UNCHANGED cache \/ write_cache("sticky", roster)
      /\ Done(w, None)
  BY DEF refresh_now, NoKeys, Elsewhere
<1> HIDE DEF q, roster, answer
<1>4. rows' \in [Minions -> Statuses \cup {Absent}]
  <2>1. /\ roster.statuses \in [Minions -> Statuses \cup {Absent}]
        /\ rows \in [Minions -> Statuses \cup {Absent}]
    BY <1>2 DEF Roster, IInv, StateOK
  <2>2. "accepted" \in Statuses
    BY DEF Statuses
  <2>3. ASSUME NEW m \in Minions
        PROVE  (CASE m \notin answer -> rows[m]
                  [] m \in answer /\ roster.statuses[m] # Absent -> roster.statuses[m]
                  [] m \in answer /\ roster.statuses[m] = Absent /\ rows[m] # Absent -> rows[m]
                  [] OTHER -> "accepted") \in Statuses \cup {Absent}
    BY <2>1, <2>2
  <2> QED
    BY <1>3, <2>3 DEF refresh_inventory
<1>5. CacheOK' /\ PresenceOK'
  <2>1. CASE UNCHANGED cache
    BY <2>1, SameCaches
  <2>2. CASE write_cache("sticky", roster)
    <3>1. "sticky" \in CacheNames
      BY DEF CacheNames
    <3> QED
      BY <1>2, <2>2, <3>1, WrittenKeeps
  <2> QED
    BY <1>3, <2>1, <2>2
<1> QED
  BY <1>3, <1>4, <1>5, DoneKeeps, PlainAnswer, NoneIsPlain, RestKeeps DEF IInv, StateOK, Done

-----------------------------------------------------------------------------
(* remove.                                                                 *)

LEMMA ClearedKeeps ==
    ASSUME IInv, clear_key_caches
    PROVE  CacheOK' /\ PresenceOK'
<1>1. CASE ~redis
  <2>1. UNCHANGED cache
    BY <1>1 DEF clear_key_caches
  <2> QED
    BY <2>1, SameCaches
<1>2. CASE redis
  <2>1. cache' = [cache EXCEPT !["sticky"] = None, !["merged"] = None]
    BY <1>2 DEF clear_key_caches
  <2>2. cache = [d \in CacheNames |-> cache[d]]
    BY DEF IInv, CacheOK
  <2>3. /\ cache' = [d \in CacheNames |-> cache'[d]]
        /\ cache'["sticky"] = None /\ cache'["merged"] = None
        /\ cache'["presence"] = cache["presence"] /\ cache'["map"] = cache["map"]
    BY <2>1, <2>2 DEF CacheNames
  <2>4. CacheOK'
    BY <2>3 DEF IInv, CacheOK
  <2>5. PresenceOK'
    BY <2>3 DEF IInv, PresenceOK, SharedOK
  <2> QED
    BY <2>4, <2>5
<1> QED
  BY <1>1, <1>2

\* A step of a removal that goes on.
LEMMA RemovalGoesOn ==
    ASSUME IInv, HeldNext, NEW w \in Workers, req[w] # Idle,
           NEW r \in Request, req' = [req EXCEPT ![w] = r], Placed(r), r.m = req[w].m,
           StillNamed(r, {p \in held[w] : keys'[p][r.m] # Absent})
    PROVE  ReqOK' /\ HeldOK'
BY WorkerKeeps, IdleFacts

LEMMA RemoveLookKeeps ==
    ASSUME IInv, HeldNext, NEW w \in Workers, remove_look(w)
    PROVE  IInv'
<1> DEFINE q == req[w]
           r(pc) == [q EXCEPT !.pc = pc, !.todo = q.clients, !.roster = Unread]
<1>0. q \in Request
  BY AtFacts DEF remove_look
<1>1. q # Idle /\ Placed(q) /\ q.op = "remove" /\ StillNamed(q, held[w])
  BY AtFacts DEF remove_look
<1>2. UNCHANGED <<keys, attached, redis, dashVars, setup, scans, rows, podsKnown, cache>>
  BY DEF remove_look, NoKeys, Elsewhere
<1>3. \/ Done(w, None)
      \/ \E pc \in {"confirm", "delete", "drop"} :
            /\ req' = [req EXCEPT ![w] = r(pc)] /\ out' = None
            /\ pc = "drop" => q.delete_key = FALSE
  <2>0. q.delete_key \in BOOLEAN
    BY <1>0 DEF Request
  <2>1. CASE req[w].row \/ q.m \in Listed(q.roster)
    <3> DEFINE next == IF q.delete_key THEN "delete" ELSE "drop"
    <3>1. req' = [req EXCEPT ![w] = r(next)] /\ out' = None
      BY <2>1 DEF remove_look, Go, Silent
    <3>2. next \in {"confirm", "delete", "drop"} /\ (next = "drop" => q.delete_key = FALSE)
      BY <2>0
    <3> HIDE DEF next, r
    <3> QED
      BY <3>1, <3>2
  <2>2. CASE ~(req[w].row \/ q.m \in Listed(q.roster))
    <3>1. Done(w, None) \/ (req' = [req EXCEPT ![w] = r("confirm")] /\ out' = None)
      BY <2>2 DEF remove_look, Go, Silent
    <3> HIDE DEF r
    <3> QED
      BY <3>1
  <2> QED
    BY <2>1, <2>2
<1>4. CASE Done(w, None)
  BY <1>2, <1>4, DoneKeeps, SameCaches, PlainAnswer, NoneIsPlain, RestKeeps DEF IInv, StateOK, Done
<1>5. ASSUME NEW pc \in {"confirm", "delete", "drop"}, req' = [req EXCEPT ![w] = r(pc)],
             out' = None, pc = "drop" => q.delete_key = FALSE
      PROVE  IInv'
  <2> DEFINE s == r(pc)
  <2> HIDE DEF q
  <2>1. pc \in Pcs /\ Unread \in Roster
    BY UnreadFacts DEF Pcs
  <2>2. /\ s \in Request /\ s.op = q.op /\ s.m = q.m /\ s.pc = pc /\ s.need = q.need
        /\ s.todo = q.clients /\ s.roster = Unread /\ s.clients = q.clients
        /\ s.delete_key = q.delete_key
    BY <1>0, <2>1 DEF Request
  <2>3. req' = [req EXCEPT ![w] = s]
    BY <1>5
  <2> HIDE DEF s
  <2>4. Placed(s)
    BY <1>1, <2>2, UnreadFacts DEF Placed
  <2>5. StillNamed(s, {p \in held[w] : keys'[p][s.m] # Absent})
    BY <1>1, <1>5, <2>2 DEF StillNamed
  <2>6. ReqOK' /\ HeldOK'
    BY <1>1, <2>2, <2>3, <2>4, <2>5, RemovalGoesOn DEF q
  <2> QED
    BY <1>2, <1>5, <2>6, SameCaches, PlainAnswer, NoneIsPlain, RestKeeps DEF IInv, StateOK
<1> QED
  BY <1>3, <1>4, <1>5

\* A pod that holds the key confirms it absent only when its key list failed.
LEMMA ConfirmNames ==
    ASSUME IInv, NEW w \in Workers, At(w, "confirm"),
           NEW keys_ok \in BOOLEAN, NEW presence_ok \in BOOLEAN,
           confirms_absent(w, live_roster(Head(req[w].todo), keys_ok, presence_ok))
    PROVE  Head(req[w].todo) \in held[w] => presence_ok /\ ~keys_ok
<1> DEFINE q == req[w]
           p == Head(q.todo)
           sub == live_roster(p, keys_ok, presence_ok)
<1>1. /\ q \in Request /\ q.todo # <<>>
      /\ \A d \in held[w] : keys[d][q.m] # Absent
  BY AtFacts DEF Placed
<1>2. q.todo \in Seq(Pods) /\ q.m \in Minions
  BY <1>1 DEF Request
<1>3. p \in Pods
  BY <1>1, <1>2, TodoFacts
<1> HIDE DEF p
<1>4. /\ sub.reachable = (keys_ok \/ presence_ok)
      /\ keys_ok => sub.statuses = keys[p]
  BY <1>3, LiveRosterFacts DEF IInv
<1>5. sub.reachable /\ sub.statuses[q.m] = Absent
  BY <1>2 DEF confirms_absent, Listed, p
<1> HIDE DEF sub
<1>6. keys_ok \/ presence_ok
  BY <1>4, <1>5
<1>7. p \in held[w] => ~keys_ok
  BY <1>1, <1>4, <1>5
<1> QED
  BY <1>6, <1>7 DEF p

LEMMA RemoveConfirmKeeps ==
    ASSUME IInv, HeldNext, NEW w \in Workers, NEW keys_ok \in BOOLEAN, NEW presence_ok \in BOOLEAN,
           remove_confirm(w, keys_ok, presence_ok)
    PROVE  IInv'
<1> DEFINE q == req[w]
           p == Head(q.todo)
           sub == live_roster(p, keys_ok, presence_ok)
           half == IF presence_ok /\ ~keys_ok THEN q.half \cup {p} ELSE q.half
<1>0. q \in Request
  BY AtFacts DEF remove_confirm
<1>1. q # Idle /\ Placed(q) /\ q.pc = "confirm" /\ q.todo # <<>> /\ StillNamed(q, held[w])
  BY AtFacts DEF remove_confirm, Placed
<1>2. /\ UNCHANGED <<keys, attached, redis, dashVars, setup, scans, rows, podsKnown, cache>>
      /\ At(w, "confirm")
  BY DEF remove_confirm, NoKeys, Elsewhere
<1>3. q.todo \in Seq(Pods) /\ q.half \in SUBSET Pods
  BY <1>0 DEF Request
<1>4. /\ p \in Pods /\ Tail(q.todo) \in Seq(Pods) /\ ToSet(q.todo) = {p} \cup ToSet(Tail(q.todo))
      /\ Len(q.todo) > 1 => Tail(q.todo) # <<>>
  BY <1>1, <1>3, TodoFacts
<1>5. half \in SUBSET Pods /\ q.half \subseteq half
  BY <1>3, <1>4
<1>6. CASE ~confirms_absent(w, sub)
  <2> DEFINE r == [q EXCEPT !.pc = "delete", !.todo = q.clients]
  <2>1. req' = [req EXCEPT ![w] = r] /\ out' = None
    BY <1>6 DEF remove_confirm, Go, Silent
  <2> HIDE DEF q, half, sub
  <2>2. "delete" \in Pcs
    BY DEF Pcs
  <2>3. /\ r \in Request /\ r.op = q.op /\ r.m = q.m /\ r.pc = "delete" /\ r.need = q.need
        /\ r.todo = q.clients /\ r.roster = q.roster /\ r.clients = q.clients
        /\ r.partial = q.partial /\ r.unapplied = q.unapplied
    BY <1>0, <2>2 DEF Request
  <2> HIDE DEF r
  <2>4. Placed(r)
    BY <1>1, <2>3 DEF Placed
  <2>5. StillNamed(r, {d \in held[w] : keys'[d][r.m] # Absent})
    BY <1>1, <2>3 DEF StillNamed
  <2>6. ReqOK' /\ HeldOK'
    BY <1>1, <2>1, <2>3, <2>4, <2>5, RemovalGoesOn DEF q
  <2> QED
    BY <1>2, <2>1, <2>6, SameCaches, PlainAnswer, NoneIsPlain, RestKeeps DEF IInv, StateOK
<1>7. CASE confirms_absent(w, sub) /\ Len(q.todo) > 1
  <2> DEFINE r == [q EXCEPT !.todo = Tail(q.todo), !.half = half]
  <2>0. p \in held[w] => p \in half
    BY <1>2, <1>7, ConfirmNames
  <2>1. req' = [req EXCEPT ![w] = r] /\ out' = None
    BY <1>0, <1>7 DEF remove_confirm, Go, Silent, Request
  <2> HIDE DEF q, half, sub, p
  <2>3. /\ r \in Request /\ r.op = q.op /\ r.m = q.m /\ r.pc = q.pc /\ r.need = q.need
        /\ r.todo = Tail(q.todo) /\ r.roster = q.roster /\ r.clients = q.clients
        /\ r.half = half
    BY <1>0, <1>4, <1>5 DEF Request
  <2> HIDE DEF r
  <2>4. Placed(r)
    BY <1>1, <1>4, <1>7, <2>3 DEF Placed
  <2>5. StillNamed(r, held[w])
    BY <1>1, <1>4, <1>5, <2>0, <2>3 DEF StillNamed
  <2>6. StillNamed(r, {d \in held[w] : keys'[d][r.m] # Absent})
    BY <2>5 DEF StillNamed
  <2>7. ReqOK' /\ HeldOK'
    BY <1>1, <2>1, <2>3, <2>4, <2>6, RemovalGoesOn DEF q
  <2> QED
    BY <1>2, <2>1, <2>7, SameCaches, PlainAnswer, NoneIsPlain, RestKeeps DEF IInv, StateOK
<1>8. CASE confirms_absent(w, sub) /\ ~(Len(q.todo) > 1)
  <2>1. Done(w, [kind |-> "unknown", half |-> half])
    BY <1>8 DEF remove_confirm
  <2>2. req' = [req EXCEPT ![w] = Idle] /\ out'.kind = "unknown"
    BY <2>1 DEF Done
  <2> QED
    BY <1>2, <2>2, DoneKeeps, SameCaches, PlainAnswer, RestKeeps DEF IInv, StateOK
<1> QED
  BY <1>6, <1>7, <1>8

LEMMA RemoveDeleteKeeps ==
    ASSUME IInv, HeldNext, NEW w \in Workers, NEW ok \in BOOLEAN, NEW applied \in BOOLEAN,
           remove_delete(w, ok, applied)
    PROVE  IInv'
<1> DEFINE q == req[w]
           p == Head(q.todo)
           partial == IF ok THEN q.partial ELSE q.partial \cup {p}
           unapplied == IF ok /\ ~applied THEN q.unapplied \cup {p} ELSE q.unapplied
           r == [q EXCEPT !.todo = Tail(q.todo), !.partial = partial, !.unapplied = unapplied]
<1>0. q \in Request
  BY AtFacts DEF remove_delete
<1>1. /\ q # Idle /\ Placed(q) /\ q.pc = "delete" /\ q.todo # <<>> /\ StillNamed(q, held[w])
      /\ held[w] \subseteq Pods
  BY AtFacts DEF remove_delete
<1>2. /\ UNCHANGED <<attached, redis, dashVars, setup, scans, rows, podsKnown, cache>>
      /\ keys' = IF applied THEN [keys EXCEPT ![p][q.m] = Absent] ELSE keys
      /\ out' = None
  BY DEF remove_delete, Elsewhere, Silent
<1>3. /\ q.todo \in Seq(Pods) /\ q.m \in Minions
      /\ q.partial \in SUBSET Pods /\ q.unapplied \in SUBSET Pods
  BY <1>0 DEF Request
<1>4. req' = [req EXCEPT ![w] = r]
  BY <1>0 DEF remove_delete, Go, Request
<1>5. p \in Pods /\ Tail(q.todo) \in Seq(Pods) /\ ToSet(q.todo) = {p} \cup ToSet(Tail(q.todo))
  BY <1>1, <1>3, TodoFacts
<1>6. /\ partial \in SUBSET Pods /\ q.partial \subseteq partial /\ (~ok => p \in partial)
      /\ unapplied \in SUBSET Pods /\ q.unapplied \subseteq unapplied
      /\ ok /\ ~applied => p \in unapplied
  BY <1>3, <1>5
<1> HIDE DEF q, p, partial, unapplied
<1>7. /\ r \in Request /\ r.op = q.op /\ r.m = q.m /\ r.pc = q.pc /\ r.need = q.need
      /\ r.todo = Tail(q.todo) /\ r.roster = q.roster /\ r.clients = q.clients
      /\ r.partial = partial /\ r.unapplied = unapplied
  BY <1>0, <1>5, <1>6 DEF Request
<1> HIDE DEF r
<1>8. keys' \in [Pods -> [Minions -> Statuses \cup {Absent}]] /\ (applied => keys'[p][q.m] = Absent)
  <2>1. keys \in [Pods -> [Minions -> Statuses \cup {Absent}]]
    BY DEF IInv, StateOK
  <2>2. CASE applied
    BY <1>2, <1>3, <1>5, <2>1, <2>2
  <2>3. CASE ~applied
    BY <1>2, <2>1, <2>3
  <2> QED
    BY <2>2, <2>3
<1>9. Placed(r)
  BY <1>1, <1>7 DEF Placed
<1>10. StillNamed(r, {d \in held[w] : keys'[d][r.m] # Absent})
  BY <1>1, <1>5, <1>6, <1>7, <1>8 DEF StillNamed
<1>11. ReqOK' /\ HeldOK'
  BY <1>1, <1>4, <1>7, <1>9, <1>10, RemovalGoesOn DEF q
<1> QED
  BY <1>2, <1>8, <1>11, SameCaches, PlainAnswer, NoneIsPlain, RestKeeps DEF IInv, StateOK

LEMMA RemoveClearedKeeps ==
    ASSUME IInv, HeldNext, NEW w \in Workers, remove_cleared(w)
    PROVE  IInv'
<1> DEFINE q == req[w]
           r == [q EXCEPT !.pc = "drop"]
<1>0. q \in Request
  BY AtFacts DEF remove_cleared
<1>1. /\ q # Idle /\ Placed(q) /\ q.pc = "delete" /\ q.todo = <<>> /\ StillNamed(q, held[w])
  BY AtFacts DEF remove_cleared
<1>2. UNCHANGED <<keys, attached, redis, dashVars, setup, scans, rows, podsKnown>>
  BY DEF remove_cleared, NoKeys, Elsewhere
<1>3. \/ Done(w, [kind |-> "unchanged"]) /\ UNCHANGED cache
      \/ req' = [req EXCEPT ![w] = r] /\ clear_key_caches /\ out' = None
  BY DEF remove_cleared, Go, Silent
<1>4. CASE Done(w, [kind |-> "unchanged"]) /\ UNCHANGED cache
  <2>1. req' = [req EXCEPT ![w] = Idle] /\ out'.kind = "unchanged"
    BY <1>4 DEF Done
  <2> QED
    BY <1>2, <1>4, <2>1, DoneKeeps, SameCaches, PlainAnswer, RestKeeps DEF IInv, StateOK
<1>5. CASE req' = [req EXCEPT ![w] = r] /\ clear_key_caches /\ out' = None
  <2> HIDE DEF q
  <2>1. "drop" \in Pcs
    BY DEF Pcs
  <2>2. /\ r \in Request /\ r.op = q.op /\ r.m = q.m /\ r.pc = "drop" /\ r.need = q.need
        /\ r.todo = q.todo /\ r.roster = q.roster /\ r.clients = q.clients
        /\ r.partial = q.partial /\ r.unapplied = q.unapplied
    BY <1>0, <2>1 DEF Request
  <2>3. req' = [req EXCEPT ![w] = r]
    BY <1>5
  <2> HIDE DEF r
  <2>4. Placed(r)
    BY <1>1, <2>2 DEF Placed
  <2>5. StillNamed(r, {d \in held[w] : keys'[d][r.m] # Absent})
    BY <1>1, <2>2, EmptyTodo DEF StillNamed
  <2>6. ReqOK' /\ HeldOK'
    BY <1>1, <2>2, <2>3, <2>4, <2>5, RemovalGoesOn DEF q
  <2>7. CacheOK' /\ PresenceOK'
    BY <1>5, ClearedKeeps
  <2> QED
    BY <1>2, <1>5, <2>6, <2>7, PlainAnswer, NoneIsPlain, RestKeeps DEF IInv, StateOK
<1> QED
  BY <1>3, <1>4, <1>5

LEMMA RemoveDropKeeps ==
    ASSUME IInv, HeldNext, NEW w \in Workers, remove_drop(w)
    PROVE  IInv'
<1>1. /\ UNCHANGED <<keys, attached, redis, dashVars, setup, scans, podsKnown, cache>>
      /\ rows' = rows \/ rows' = [rows EXCEPT ![req[w].m] = Absent]
  BY DEF remove_drop, NoKeys, Elsewhere
<1>2. req' = [req EXCEPT ![w] = Idle]
  BY DEF remove_drop, Done
<1>3. rows' \in [Minions -> Statuses \cup {Absent}]
  BY <1>1 DEF IInv, StateOK
<1>4. out'.kind \in {"removed", "none"}
  <2> DEFINE report == [kind |-> "removed", partial |-> req[w].partial,
                        unapplied |-> req[w].unapplied]
  <2>1. out' = report \/ out' = None
    BY DEF remove_drop, Done
  <2>2. CASE out' = report
    BY <2>2
  <2> QED
    BY <2>1, <2>2, NoneIsPlain
<1> QED
  BY <1>1, <1>2, <1>3, <1>4, DoneKeeps, SameCaches, PlainAnswer, RestKeeps DEF IInv, StateOK

LEMMA DieKeeps ==
    ASSUME IInv, HeldNext, NEW w \in Workers, Die(w)
    PROVE  IInv'
<1>1. /\ UNCHANGED <<keys, attached, redis, dashVars, setup, scans, rows, podsKnown, cache>>
      /\ req' = [req EXCEPT ![w] = Idle] /\ out' = None
  BY DEF Die, Done, NoKeys, Elsewhere
<1> QED
  BY <1>1, DoneKeeps, SameCaches, PlainAnswer, NoneIsPlain, RestKeeps DEF IInv, StateOK

-----------------------------------------------------------------------------
(* The surroundings.                                                       *)

\* The requests stay: no held pod is added.
LEMMA SameRequests ==
    ASSUME IInv, HeldNext, UNCHANGED req
    PROVE  ReqOK' /\ HeldOK'
<1>1. ReqOK'
  BY DEF IInv, ReqOK, Placed, Heard, StickyHeard
<1>2. ASSUME NEW v \in Workers
      PROVE  /\ held'[v] \subseteq Pods
             /\ req'[v] # Idle => /\ StillNamed(req'[v], held'[v])
                                  /\ \A p \in held'[v] : keys'[p][req'[v].m] # Absent
  <2>1. held'[v] = IF req[v] = Idle THEN {} ELSE {p \in held[v] : keys'[p][req[v].m] # Absent}
    BY DEF HeldNext
  <2>2. CASE req[v] = Idle
    BY <2>1, <2>2
  <2>3. CASE req[v] # Idle
    <3>1. StillNamed(req[v], held[v]) /\ held[v] \subseteq Pods
      BY <2>3 DEF IInv, HeldOK
    <3>2. held'[v] \in SUBSET held[v]
      BY <2>1, <2>3
    <3>3. StillNamed(req[v], held'[v])
      BY <3>1, <3>2, NamedShrinks
    <3> QED
      BY <2>1, <2>3, <3>1, <3>2, <3>3
  <2> QED
    BY <2>2, <2>3
<1>3. held' \in [Workers -> SUBSET Pods]
  BY <1>2 DEF HeldNext
<1>4. HeldOK'
  BY <1>2, <1>3 DEF HeldOK, StillNamed
<1> QED
  BY <1>1, <1>4

LEMMA EventFacts ==
    ASSUME StateOK, Event
    PROVE  /\ setup'.ids = setup.ids /\ setup'.ops = setup.ops
           /\ setup' = [ops |-> setup'.ops, ids |-> setup'.ids, workers |-> setup'.workers,
                        keys |-> setup'.keys, pods |-> setup'.pods, events |-> setup'.events]
           /\ out' = None /\ UNCHANGED <<dashVars, podsKnown, scans, req>>
<1>1. setup' = [setup EXCEPT !.events = setup.events - 1] /\ out' = None
      /\ UNCHANGED <<dashVars, podsKnown, scans, req>>
  BY DEF Event, Silent, StateOK
<1>2. setup = [ops |-> setup.ops, ids |-> setup.ids, workers |-> setup.workers,
               keys |-> setup.keys, pods |-> setup.pods, events |-> setup.events]
  BY DEF StateOK
<1> DEFINE e == setup.events - 1
<1>3. setup' = [setup EXCEPT !.events = e]
  BY <1>1
<1> HIDE DEF e
<1>4. setup' = [ops |-> setup.ops, ids |-> setup.ids, workers |-> setup.workers,
                keys |-> setup.keys, pods |-> setup.pods, events |-> e]
  BY <1>2, <1>3
<1> QED
  BY <1>1, <1>4

\* An event: the keys, the attachments, the rows and the caches it may move.
LEMMA EventKeeps ==
    ASSUME IInv, HeldNext, Event, redis' \in BOOLEAN,
           keys' \in [Pods -> [Minions -> Statuses \cup {Absent}]], attached' \in PodMaps,
           rows' \in [Minions -> Statuses \cup {Absent}],
           UNCHANGED cache \/ clear_key_caches
    PROVE  IInv'
<1>1. /\ setup'.ids = setup.ids /\ setup'.ops = setup.ops
      /\ setup' = [ops |-> setup'.ops, ids |-> setup'.ids, workers |-> setup'.workers,
                   keys |-> setup'.keys, pods |-> setup'.pods, events |-> setup'.events]
      /\ out' = None /\ UNCHANGED <<dashVars, podsKnown, scans, req>>
  BY EventFacts DEF IInv
<1>2. StateOK'
  <2>1. /\ setup.ids \subseteq Minions /\ setup.ops \subseteq Ops \cup {"dashboard"}
        /\ podsKnown \in BOOLEAN /\ scans \subseteq Minions
    BY DEF IInv, StateOK
  <2> QED
    BY <1>1, <2>1 DEF StateOK
<1>3. ReqOK' /\ HeldOK'
  BY <1>1, SameRequests
<1>4. DashTypeOK'
  BY <1>1 DEF IInv, DashTypeOK, dashVars
<1>5. CacheOK' /\ PresenceOK'
  BY SameCaches, ClearedKeeps
<1>6. ViewsTellWhatWasRead'
  BY <1>1, PlainAnswer, NoneIsPlain
<1> QED
  BY <1>2, <1>3, <1>4, <1>5, <1>6 DEF IInv

LEMMA SurroundingsKeep ==
    ASSUME IInv, HeldNext, Surroundings
    PROVE  IInv'
<1>0. /\ keys \in [Pods -> [Minions -> Statuses \cup {Absent}]] /\ attached \in PodMaps
      /\ rows \in [Minions -> Statuses \cup {Absent}]
  BY DEF IInv, StateOK
<1>1. ASSUME NEW c \in DOMAIN cache, Expire(c) PROVE IInv'
  <2>1. /\ cache' = [cache EXCEPT ![c] = None] /\ out' = None
        /\ UNCHANGED <<keys, attached, redis, dashVars, setup, scans, rows, podsKnown, req>>
    BY <1>1 DEF Expire, Silent, NoKeys, Elsewhere
  <2>2. cache = [d \in CacheNames |-> cache[d]]
    BY DEF IInv, CacheOK
  <2>3. \A d \in CacheNames : cache'[d] = None \/ cache'[d] = cache[d]
    BY <2>1, <2>2
  <2>4. cache' = [d \in CacheNames |-> cache'[d]]
    BY <2>1, <2>2
  <2>5. /\ "sticky" \in CacheNames /\ "merged" \in CacheNames
        /\ "map" \in CacheNames /\ "presence" \in CacheNames
    BY DEF CacheNames
  <2>6. CacheOK'
    BY <2>3, <2>4, <2>5 DEF IInv, CacheOK, Heard, StickyHeard
  <2>7. PresenceOK'
    BY <2>3, <2>5 DEF IInv, PresenceOK, SharedOK
  <2>8. ReqOK' /\ HeldOK'
    BY <2>1, SameRequests
  <2> QED
    BY <2>1, <2>6, <2>7, <2>8, PlainAnswer, NoneIsPlain, RestKeeps DEF IInv, StateOK
<1>2. CASE RedisTurns
  <2>1. Event /\ redis' \in BOOLEAN /\ UNCHANGED <<keys, attached, rows, cache>>
    BY <1>2 DEF RedisTurns, NoKeys
  <2> QED
    BY <1>0, <2>1, EventKeeps
<1>3. ASSUME NEW m \in Minions, ScanExpires(m) PROVE IInv'
  <2>1. /\ out' = None /\ scans' \subseteq scans
        /\ UNCHANGED <<keys, attached, redis, dashVars, setup, rows, podsKnown, cache, req>>
    BY <1>3 DEF ScanExpires, Silent, NoKeys
  <2>2. scans' \subseteq Minions
    BY <2>1 DEF IInv, StateOK
  <2>3. ReqOK' /\ HeldOK'
    BY <2>1, SameRequests
  <2> QED
    BY <2>1, <2>2, <2>3, SameCaches, PlainAnswer, NoneIsPlain, RestKeeps DEF IInv, StateOK
<1>4. ASSUME NEW m \in Minions, NEW p \in 0..NumPods, Reconnect(m, p) PROVE IInv'
  <2>1. /\ Event /\ attached' = [attached EXCEPT ![m] = p]
        /\ UNCHANGED <<redis, keys, rows, cache>>
    BY <1>4 DEF Reconnect
  <2>2. attached' \in PodMaps
    BY <1>0, <2>1 DEF PodMaps
  <2>3. redis \in BOOLEAN
    BY DEF IInv, DashTypeOK
  <2> QED
    BY <1>0, <2>1, <2>2, <2>3, EventKeeps
<1>5. ASSUME NEW m \in Minions, NEW p \in Pods, KeyComes(m, p) PROVE IInv'
  <2>1. /\ Event /\ keys' = [keys EXCEPT ![p][m] = "pending"]
        /\ UNCHANGED <<redis, attached, rows, cache>>
    BY <1>5 DEF KeyComes
  <2>2. keys' \in [Pods -> [Minions -> Statuses \cup {Absent}]]
    BY <1>0, <2>1 DEF Statuses
  <2>3. redis \in BOOLEAN
    BY DEF IInv, DashTypeOK
  <2> QED
    BY <1>0, <2>1, <2>2, <2>3, EventKeeps
<1>6. ASSUME NEW m \in Minions, NEW s \in {Absent, "accepted"}, KeyActs(m, s) PROVE IInv'
  <2>1. /\ Event /\ keys' = [p \in Pods |-> [keys[p] EXCEPT ![m] = s]]
        /\ clear_key_caches
        /\ rows' = rows \/ rows' = [rows EXCEPT ![m] = Absent]
        /\ UNCHANGED <<redis, attached>>
    BY <1>6 DEF KeyActs
  <2>2. keys' \in [Pods -> [Minions -> Statuses \cup {Absent}]]
    BY <1>0, <2>1 DEF Statuses
  <2>3. rows' \in [Minions -> Statuses \cup {Absent}]
    BY <1>0, <2>1
  <2>4. redis \in BOOLEAN
    BY DEF IInv, DashTypeOK
  <2> QED
    BY <1>0, <2>1, <2>2, <2>3, <2>4, EventKeeps
<1> QED
  BY <1>1, <1>2, <1>3, <1>4, <1>5, <1>6 DEF Surroundings

-----------------------------------------------------------------------------
(* The theorems.                                                           *)

LEMMA RequestStepKeeps ==
    ASSUME IInv, HeldNext, NEW w \in Workers, RequestStep(w)
    PROVE  IInv'
<1>1. CASE Begins(w)
  BY <1>1, BeginKeeps
<1>2. CASE \E k8s \in BOOLEAN : Look(w, k8s)
  BY <1>2, LookKeeps
<1>3. CASE \E keys_ok, presence_ok \in BOOLEAN :
              ReadPod(w, keys_ok, presence_ok) \/ remove_confirm(w, keys_ok, presence_ok)
  BY <1>3, ReadPodKeeps, RemoveConfirmKeeps
<1>4. CASE \E ok \in BOOLEAN : \/ MapPod(w, ok) \/ detail_call(w, ok) \/ refresh_one_call(w, ok)
                               \/ beacon_act(w, ok) \/ states_refresh(w, ok) \/ refresh_now(w, ok)
  BY <1>4, MapPodKeeps, CallKeeps, RefreshNowKeeps
<1>5. CASE \E ok, applied \in BOOLEAN : remove_delete(w, ok, applied)
  BY <1>5, RemoveDeleteKeeps
<1>6. CASE \E allowed \in SUBSET Minions : refresh(w, allowed)
  BY <1>6, RefreshKeeps
<1>7. CASE FillRoster(w) \/ FillMap(w) \/ index_page(w) \/ export_csv(w) \/ presence_cached(w)
  BY <1>7, FillRosterKeeps, FillMapKeeps, ShowsKeeps, PresenceCachedKeeps
<1>8. CASE presence_page(w) \/ detail(w) \/ refresh_one_row(w) \/ refresh_one_asks(w)
  BY <1>8, PresencePageKeeps, DetailKeeps, RefreshOneRowKeeps
<1>9. CASE remove_look(w) \/ remove_cleared(w) \/ remove_drop(w) \/ Die(w)
  BY <1>9, RemoveLookKeeps, RemoveClearedKeeps, RemoveDropKeeps, DieKeeps
<1> QED
  BY <1>1, <1>2, <1>3, <1>4, <1>5, <1>6, <1>7, <1>8, <1>9 DEF RequestStep

LEMMA InitEstablishes == Init => IInv
<1> SUFFICES ASSUME Init PROVE IInv
  OBVIOUS
<1>1. DashTypeOK
  BY DashInitTyped DEF Init
<1>2. req = [w \in Workers |-> Idle] /\ held = [w \in Workers |-> {}] /\ out = None
  BY DEF Init
<1>3. ReqOK /\ HeldOK
  BY <1>2 DEF ReqOK, HeldOK
<1>4. CacheOK /\ PresenceOK
  <2>1. cache = [c \in CacheNames |-> None]
    BY DEF Init
  <2>2. \A c \in CacheNames : cache[c] = None
    BY <2>1
  <2> QED
    BY <2>1, <2>2 DEF CacheOK, PresenceOK, CacheNames
<1>5. StateOK
  <2>1. setup \in [ops: SUBSET (Ops \cup {"dashboard"}), ids: SUBSET Minions,
                   workers: SUBSET Workers, keys: SUBSET {Absent, "accepted"},
                   pods: SUBSET (0..NumPods), events: Nat]
    BY FleetAssumption DEF Init
  <2>2. /\ setup.ids \subseteq Minions /\ setup.ops \subseteq Ops \cup {"dashboard"}
        /\ setup.keys \subseteq {Absent, "accepted"}
        /\ setup = [ops |-> setup.ops, ids |-> setup.ids, workers |-> setup.workers,
                    keys |-> setup.keys, pods |-> setup.pods, events |-> setup.events]
    BY <2>1
  <2>3. {Absent} \cup setup.keys \subseteq Statuses \cup {Absent}
    BY <2>2 DEF Statuses
  <2>4. keys \in [Pods -> [Minions -> Statuses \cup {Absent}]]
    <3>1. keys \in [Pods -> [Minions -> {Absent} \cup setup.keys]]
      BY DEF Init
    <3> QED
      BY <2>3, <3>1
  <2>5. attached \in PodMaps
    BY DEF Init, PodMaps
  <2>6. /\ rows \in [Minions -> Statuses \cup {Absent}] /\ podsKnown \in BOOLEAN
        /\ scans \subseteq Minions
    BY DEF Init
  <2> QED
    BY <2>2, <2>4, <2>5, <2>6 DEF StateOK
<1>6. ViewsTellWhatWasRead
  BY <1>2, NoneIsPlain DEF ViewsTellWhatWasRead
<1> QED
  BY <1>1, <1>3, <1>4, <1>5, <1>6 DEF IInv

LEMMA StutterKeeps ==
    ASSUME IInv, UNCHANGED vars
    PROVE  IInv'
<1>1. UNCHANGED <<redis, dashVars, setup, keys, attached, rows, podsKnown, cache, scans, req,
                  held, out>>
  BY DEF vars, fleetVars
<1>2. DashTypeOK'
  BY <1>1 DEF IInv, DashTypeOK, dashVars
<1>3. ReqOK' /\ HeldOK'
  BY <1>1 DEF IInv, ReqOK, HeldOK, Placed, Heard, StickyHeard, StillNamed
<1>4. CacheOK' /\ PresenceOK'
  BY <1>1, SameCaches
<1>5. StateOK' /\ ViewsTellWhatWasRead'
  BY <1>1 DEF IInv, StateOK, ViewsTellWhatWasRead
<1> QED
  BY <1>2, <1>3, <1>4, <1>5 DEF IInv

LEMMA StepKeeps == IInv /\ [Next]_vars => IInv'
<1> SUFFICES ASSUME IInv, [Next]_vars PROVE IInv'
  OBVIOUS
<1>1. ASSUME NEW w \in Workers, RequestStep(w), HeldNext PROVE IInv'
  BY <1>1, RequestStepKeeps
<1>2. CASE Surroundings /\ HeldNext
  BY <1>2, SurroundingsKeep
<1>3. CASE DashNext /\ UNCHANGED fleetVars
  <2>1. UNCHANGED <<setup, keys, attached, rows, podsKnown, cache, scans, req, held, out>>
    BY <1>3 DEF fleetVars
  <2>2. DashTypeOK'
    BY <1>3, DashKeeps DEF IInv
  <2>3. ReqOK' /\ HeldOK'
    BY <2>1 DEF IInv, ReqOK, HeldOK, Placed, Heard, StickyHeard, StillNamed
  <2>4. CacheOK' /\ PresenceOK'
    BY <2>1, SameCaches
  <2>5. StateOK' /\ ViewsTellWhatWasRead'
    BY <2>1 DEF IInv, StateOK, ViewsTellWhatWasRead
  <2> QED
    BY <2>2, <2>3, <2>4, <2>5 DEF IInv
<1>4. CASE UNCHANGED vars
  BY <1>4, StutterKeeps
<1> QED
  BY <1>1, <1>2, <1>3, <1>4 DEF Next

\* In every reachable state of the minions pages: requests, caches and rows have
\* their types, only what a pod told is cached, every roster that claims presence
\* was heard from a pod, and a pod that keeps a removed key is still to be asked or
\* is one the report will name.
THEOREM FleetInvHolds == Spec => []IInv
<1>1. Init => IInv
  BY InitEstablishes
<1>2. IInv /\ [Next]_vars => IInv'
  BY StepKeeps
<1> QED
  BY <1>1, <1>2, PTL DEF Spec

\* The types, of the dashboard's variables too.
THEOREM FleetTypeCorrect == Spec => []TypeOK
<1>1. IInv => TypeOK
  <2> SUFFICES ASSUME IInv PROVE TypeOK
    OBVIOUS
  <2>1. \A w \in Workers : req[w] = Idle \/ req[w] \in Request
    BY DEF IInv, ReqOK
  <2>2. /\ \A c \in {"sticky", "merged"} : cache[c] = None \/ cache[c] \in Roster
        /\ cache["map"] = None \/ cache["map"] \in [Minions -> 0..NumPods]
    BY DEF IInv, CacheOK, PodMaps
  <2>3. \/ cache["presence"] = None
        \/ /\ cache["presence"].label \in [cache["presence"].listed -> Labels]
           /\ cache["presence"].heard \subseteq Reading
    BY DEF IInv, PresenceOK, SharedOK
  <2> QED
    BY <2>1, <2>2, <2>3 DEF TypeOK, IInv, StateOK, HeldOK, PodMaps
<1> QED
  BY <1>1, FleetInvHolds, PTL

\* A page says of a minion what the pods that answered told -- up if one of them
\* listed it, dead or down if some answered and none listed it -- whichever cache,
\* half-failed read or other viewer's request its answer came through
\* (merged_live_roster, minion_entries, presence, minion_is_up).  It says nothing of
\* the pods that did not answer.
THEOREM PagesTellWhatWasRead == Spec => []ViewsTellWhatWasRead
<1>1. IInv => ViewsTellWhatWasRead
  BY DEF IInv
<1> QED
  BY <1>1, FleetInvHolds, PTL

-----------------------------------------------------------------------------
(* The report of a removal.                                                *)

\* A step of v's request that reports no removal.
NoReport(v) ==
    /\ \E r : req' = [req EXCEPT ![v] = r]
    /\ out'.kind \notin {"unknown", "removed"}

LEMMA DoneReports ==
    ASSUME NEW v, NEW answer, Done(v, answer), answer.kind \notin {"unknown", "removed"}
    PROVE  NoReport(v)
BY DEF Done, NoReport

LEMMA GoReports ==
    ASSUME NEW v, NEW r, Go(v, r), Silent
    PROVE  NoReport(v)
BY NoneIsPlain DEF Go, Silent, NoReport

LEMMA PageIsNoReport ==
    ASSUME NEW scope, NEW label, NEW listed, NEW heard
    PROVE  Page(scope, label, listed, heard).kind = "page"
BY DEF Page

LEMMA BeginsReportsNothing ==
    ASSUME NEW v, Begins(v)
    PROVE  NoReport(v)
<1>1. PICK op \in setup.ops \cap Ops, m \in setup.ids, delete_key, k8s \in BOOLEAN :
         \E scope \in {Minions, {m}}, tab \in Tabs :
            /\ delete_key \/ k8s => op = "remove"
            /\ scope # Minions => op \in {"presence", "refresh", "detail"}
            /\ tab # "stored" => op = "detail"
            /\ Begin(v, op, m, tab, scope, delete_key, k8s)
  BY Zenon DEF Begins
<1>2. PICK scope \in {Minions, {m}}, tab \in Tabs :
              Begin(v, op, m, tab, scope, delete_key, k8s)
  BY <1>1
<1> DEFINE begun ==
          [op |-> op, m |-> m, tab |-> tab, scope |-> scope,
           pc |-> IF op \in {"refresh", "states_refresh"} THEN "queue" ELSE "look",
           need |-> FirstNeed(op, m), todo |-> <<>>, roster |-> Unread,
           map |-> [x \in Minions |-> 0],
           clients |-> IF op = "remove" THEN pod_clients(k8s) ELSE <<>>,
           row |-> op = "remove" /\ rows[m] # Absent, delete_key |-> delete_key,
           partial |-> {}, half |-> {}, unapplied |-> {}]
<1>3. Go(v, begun) /\ Silent
  BY <1>2 DEF Begin
<1> HIDE DEF begun
<1> QED
  BY <1>3, GoReports

LEMMA OthersReportNothing ==
    ASSUME NEW v, RequestStep(v),
           ~remove_drop(v),
           \A keys_ok, presence_ok \in BOOLEAN : ~remove_confirm(v, keys_ok, presence_ok)
    PROVE  NoReport(v)
<1>1. CASE Begins(v)
  BY <1>1, BeginsReportsNothing
<1>2. CASE \E k8s \in BOOLEAN : Look(v, k8s)
  BY <1>2, GoReports DEF Look
<1>3. CASE \E keys_ok, presence_ok \in BOOLEAN : ReadPod(v, keys_ok, presence_ok)
  BY <1>3, GoReports DEF ReadPod
<1>4. CASE \E ok \in BOOLEAN : MapPod(v, ok)
  BY <1>4, GoReports DEF MapPod
<1>5. CASE \E ok \in BOOLEAN : \/ detail_call(v, ok) \/ refresh_one_call(v, ok)
                               \/ beacon_act(v, ok) \/ states_refresh(v, ok)
  <2>1. \E got \in BOOLEAN : Done(v, Answer(got))
    BY <1>5 DEF detail_call, refresh_one_call, beacon_act, states_refresh, Reached
  <2> QED
    BY <2>1, DoneReports, AnswerIsPlain
<1>6. CASE \E ok \in BOOLEAN : refresh_now(v, ok)
  BY <1>6, DoneReports, NoneIsPlain DEF refresh_now
<1>7. CASE \E ok, applied \in BOOLEAN : remove_delete(v, ok, applied)
  BY <1>7, GoReports DEF remove_delete
<1>8. CASE \E allowed \in SUBSET Minions : refresh(v, allowed)
  BY <1>8, GoReports, DoneReports, NoneIsPlain DEF refresh
<1>9. CASE FillRoster(v) \/ FillMap(v)
  BY <1>9, GoReports DEF FillRoster, FillMap
<1>10. CASE index_page(v) \/ export_csv(v)
  BY <1>10, DoneReports, PageIsNoReport DEF index_page, export_csv, ShowsRoster
<1>11. CASE presence_cached(v)
  BY <1>11, DoneReports, GoReports, PageIsNoReport DEF presence_cached
<1>12. CASE presence_page(v)
  BY <1>12, DoneReports, PageIsNoReport, NoneIsPlain DEF presence_page
<1>13. CASE detail(v) \/ refresh_one_asks(v)
  <2>1. Skipped(v) \/ Done(v, None) \/ CallsMinion(v)
    <3>1. CASE detail(v)
      BY <3>1 DEF detail
    <3>2. CASE refresh_one_asks(v)
      BY <3>2 DEF refresh_one_asks
    <3> QED
      BY <1>13, <3>1, <3>2
  <2>2. [kind |-> "skipped", m |-> req[v].m, heard |-> req[v].roster.heard].kind = "skipped"
    OBVIOUS
  <2> QED
    BY <2>1, <2>2, DoneReports, GoReports, NoneIsPlain DEF Skipped, CallsMinion
<1>14. CASE refresh_one_row(v)
  BY <1>14, DoneReports, GoReports, NoneIsPlain DEF refresh_one_row
<1>15. CASE remove_look(v)
  BY <1>15, DoneReports, GoReports, NoneIsPlain DEF remove_look
<1>16. CASE remove_cleared(v)
  <2>1. [kind |-> "unchanged"].kind = "unchanged"
    OBVIOUS
  <2> QED
    BY <1>16, <2>1, DoneReports, GoReports DEF remove_cleared
<1>17. CASE Die(v)
  BY <1>17, DoneReports, NoneIsPlain DEF Die
<1> QED
  BY <1>1, <1>2, <1>3, <1>4, <1>5, <1>6, <1>7, <1>8, <1>9, <1>10, <1>11, <1>12, <1>13, <1>14,
     <1>15, <1>16, <1>17 DEF RequestStep

\* What a removal reports.
Honest(w) ==
    /\ out'.kind = "unknown" => held[w] \subseteq out'.half
    /\ out'.kind = "removed" => held[w] \subseteq out'.partial \cup out'.unapplied

LEMMA ConfirmIsHonest ==
    ASSUME IInv, NEW w \in Workers, NEW keys_ok \in BOOLEAN, NEW presence_ok \in BOOLEAN,
           remove_confirm(w, keys_ok, presence_ok)
    PROVE  Honest(w) /\ \E r : req' = [req EXCEPT ![w] = r]
<1> DEFINE q == req[w]
           p == Head(q.todo)
           sub == live_roster(p, keys_ok, presence_ok)
           half == IF presence_ok /\ ~keys_ok THEN q.half \cup {p} ELSE q.half
<1>1. /\ At(w, "confirm") /\ q \in Request /\ q.todo # <<>>
      /\ held[w] \subseteq q.half \cup ToSet(q.todo)
  BY AtFacts DEF remove_confirm, Placed, StillNamed
<1>2. q.todo \in Seq(Pods)
  BY <1>1 DEF Request
<1>3. CASE confirms_absent(w, sub) /\ ~(Len(q.todo) > 1)
  <2>1. Done(w, [kind |-> "unknown", half |-> half])
    BY <1>3 DEF remove_confirm
  <2>2. /\ out'.kind = "unknown" /\ out'.half = half
        /\ req' = [req EXCEPT ![w] = Idle]
    BY <2>1 DEF Done
  <2>3. p \in held[w] => p \in half
    BY <1>1, <1>3, ConfirmNames
  <2>4. ToSet(q.todo) = {p}
    <3>1. Len(q.todo) \in Nat \ {0}
      BY <1>1, <1>2, TodoFacts
    <3>2. \A n \in Nat \ {0} : ~(n > 1) => n <= 1
      OBVIOUS
    <3>3. Len(q.todo) <= 1
      BY <1>3, <3>1, <3>2, Zenon
    <3> QED
      BY <1>1, <1>2, <3>3, TodoFacts
  <2>5. held[w] \subseteq half
    BY <1>1, <2>3, <2>4
  <2> HIDE DEF half
  <2> QED
    BY <2>2, <2>5 DEF Honest
<1>4. CASE ~(confirms_absent(w, sub) /\ ~(Len(q.todo) > 1))
  <2>1. NoReport(w)
    BY <1>4, GoReports DEF remove_confirm
  <2> QED
    BY <2>1 DEF NoReport, Honest
<1> QED
  BY <1>3, <1>4

LEMMA DropIsHonest ==
    ASSUME IInv, NEW w \in Workers, remove_drop(w)
    PROVE  Honest(w) /\ \E r : req' = [req EXCEPT ![w] = r]
<1>1. StillNamed(req[w], held[w]) /\ req[w].pc = "drop"
  BY AtFacts DEF remove_drop
<1>2. req' = [req EXCEPT ![w] = Idle]
  BY DEF remove_drop, Done
<1>3. CASE req[w].delete_key
  <2>1. out' = [kind |-> "removed", partial |-> req[w].partial, unapplied |-> req[w].unapplied]
    BY <1>3 DEF remove_drop, Done
  <2>2. out'.kind = "removed" /\ out'.partial = req[w].partial /\ out'.unapplied = req[w].unapplied
    BY <2>1
  <2>3. held[w] \subseteq req[w].partial \cup req[w].unapplied
    BY <1>1, <1>3 DEF StillNamed
  <2> QED
    BY <1>2, <2>2, <2>3 DEF Honest
<1>4. CASE ~req[w].delete_key
  <2>1. out' = None
    BY <1>4 DEF remove_drop, Done
  <2> QED
    BY <1>2, <2>1, NoneIsPlain DEF Honest
<1> QED
  BY <1>3, <1>4

\* What the report of a removal leaves out: a pod of those it asked that had the key
\* all along is one whose key list failed while its presence answered when the minion
\* is called unknown, and when the key is called deleted one the report names or one
\* that answered the delete without applying it (remove).
THEOREM RemovalReportsAreHonest == Spec => RemoveIsHonest
<1> DEFINE A == \A w \in Workers :
                   req[w] # Idle /\ req[w].op = "remove" /\ req'[w] = Idle => Honest(w)
<1>1. IInv /\ [Next]_vars => [A]_vars
  <2> SUFFICES ASSUME IInv, Next, NEW w \in Workers, req[w] # Idle, req'[w] = Idle
               PROVE  Honest(w)
    OBVIOUS
  <2>1. \E v \in Workers : RequestStep(v)
    <3>1. CASE Surroundings
      <4>1. UNCHANGED req
        BY <3>1 DEF Surroundings, Expire, RedisTurns, ScanExpires, Reconnect, KeyComes, KeyActs,
                    Event
      <4> QED
        BY <4>1
    <3>2. CASE UNCHANGED fleetVars
      BY <3>2 DEF fleetVars
    <3> QED
      BY <3>1, <3>2 DEF Next
  <2>2. PICK v \in Workers : RequestStep(v)
    BY <2>1
  <2>3. Honest(v) /\ \E r : req' = [req EXCEPT ![v] = r]
    <3>1. CASE remove_drop(v)
      BY <3>1, DropIsHonest
    <3>2. CASE \E keys_ok, presence_ok \in BOOLEAN : remove_confirm(v, keys_ok, presence_ok)
      BY <3>2, ConfirmIsHonest
    <3>3. CASE ~remove_drop(v) /\ \A keys_ok, presence_ok \in BOOLEAN :
                                     ~remove_confirm(v, keys_ok, presence_ok)
      <4>1. NoReport(v)
        BY <2>2, <3>3, OthersReportNothing
      <4> QED
        BY <4>1 DEF NoReport, Honest
    <3> QED
      BY <3>1, <3>2, <3>3
  <2>4. v = w
    <3>1. req = [u \in Workers |-> req[u]]
      BY DEF IInv, ReqOK
    <3> QED
      BY <2>3, <3>1
  <2> QED
    BY <2>3, <2>4
<1>2. [][A]_vars => RemoveIsHonest
  BY PTL DEF RemoveIsHonest, Honest
<1> QED
  BY <1>1, <1>2, FleetInvHolds, PTL DEF Spec
=============================================================================
