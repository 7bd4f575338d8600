------------------------------ MODULE KeyTrust ------------------------------
(***************************************************************************)
(* Trust in one minion's key across the master pods (keys.py).  Every pod  *)
(* has its own key files.  An operator's accept, reject or delete fans out *)
(* pod by pod; the reconcile button and the hourly CronJob then complete   *)
(* trust that some pod already gives: reconcile_keys() accepts a pending   *)
(* key whose fingerprint another pod accepted, backfill_absent_keys()      *)
(* copies an accepted key file onto pods that have none.                   *)
(*                                                                         *)
(* Each call to a pod is a step: between the read of one pod and the write *)
(* to another, pods fail, the minion checks in and other passes run.  All  *)
(* operations treat each minion id alone, so one id is modelled.  The      *)
(* inventory row that a delete removes is in JobSync (DeleteMinionRow).    *)
(***************************************************************************)
EXTENDS Naturals, FiniteSets

CONSTANTS
    N,          \* number of master pods, visited in order
    Keys,       \* the public keys the minion may present
    NoKey,      \* an absent key file
    Passes,     \* concurrent automation passes (CronJob, button, accepts
                \* of other ids)
    Human,      \* the operator's request
    Acts,       \* the key actions operators use
    MaxActs,    \* bound: key actions
    MaxOutages  \* bound: pod failures

ASSUME PodsAssumption == N \in Nat \ {0}
ASSUME KeysAssumption == NoKey \notin Keys
ASSUME ActorsAssumption == Human \notin Passes
ASSUME ActsAssumption == Acts \subseteq {"accept", "reject", "delete"}
ASSUME BoundsAssumption == MaxActs \in Nat /\ MaxOutages \in Nat

Pods == 1..N
Actors == Passes \cup {Human}

VARIABLES
    files,      \* files[p]: the key files of the minion on pod p
    health,     \* health[p]: up; mute, key.finger fails; down, all calls do
    presents,   \* the key the minion authenticates with
    run,        \* the requests and passes under way
    approved,   \* keys an operator's accept has moved to accepted
    last,       \* the operator's last decision; a delete once every pod
                \* applied it
    acts,       \* key actions so far
    outages     \* pod failures so far

saltVars == <<files, health, presents>>
boundVars == <<acts, outages>>
vars == <<saltVars, run, approved, last, boundVars>>

-----------------------------------------------------------------------------
Key == Keys \cup {NoKey}
Files == [pending: Key, accepted: Key, rejected: Key, denied: Key]
NoFiles == [pending |-> NoKey, accepted |-> NoKey, rejected |-> NoKey,
            denied |-> NoKey]

\* What a pass knows of a pod: nothing, or the status tab of the minion there
\* ("absent" for none) and the fingerprint listed under that tab.
View == [tab: {"unread", "pending", "accepted", "rejected", "denied", "absent"},
         fp: Key]
Unread == [p \in Pods |-> [tab |-> "unread", fp |-> NoKey]]

\* A request or a pass.  at is the next pod to visit, todo the planned pods.
Run == [phase: {"idle", "fanout", "read", "accept", "reread", "print", "copy"},
        act: Acts \cup {"none"}, at: 1..N + 1, view: [Pods -> View],
        todo: SUBSET Pods, pem: Key, failed: SUBSET Pods, unapplied: SUBSET Pods]

Idle == [phase |-> "idle", act |-> "none", at |-> 1, view |-> Unread,
         todo |-> {}, pem |-> NoKey, failed |-> {}, unapplied |-> {}]

TypeOK ==
    /\ files \in [Pods -> Files]
    /\ health \in [Pods -> {"up", "mute", "down"}]
    /\ presents \in Keys
    /\ run \in [Actors -> Run]
    /\ \A a \in Actors : run[a].phase \in {"print", "copy"} => run[a].todo # {}
    /\ approved \subseteq Keys
    /\ last \in {"none", "accept", "reject", "delete"}
    /\ acts \in 0..MaxActs
    /\ outages \in 0..MaxOutages

Init ==
    /\ files = [p \in Pods |-> NoFiles]
    /\ health = [p \in Pods |-> "up"]
    /\ presents \in Keys
    /\ run = [a \in Actors |-> Idle]
    /\ approved = {}
    /\ last = "none"
    /\ acts = 0
    /\ outages = 0

AllIdle == \A a \in Actors : run[a].phase = "idle"
First(S) == CHOOSE p \in S : \A q \in S : p <= q

-----------------------------------------------------------------------------
(* Salt's key store (external).                                             *)

\* The minion authenticates at pod p: an unknown id is filed pending; a key
\* other than the filed one is filed denied; a rejected id changes nothing.
MinionAuths(p) ==
    LET f == files[p]
        filed == IF f.accepted # NoKey THEN f.accepted ELSE f.pending
    IN  /\ health[p] # "down"
        /\ f.rejected = NoKey
        /\ files' = [files EXCEPT ![p] =
               IF filed = NoKey THEN [f EXCEPT !.pending = presents]
               ELSE IF filed # presents THEN [f EXCEPT !.denied = presents]
               ELSE f]
        /\ UNCHANGED <<health, presents, run, approved, last, boundVars>>

\* The minion is reinstalled and presents a new key.
MinionRotates ==
    /\ \E k \in Keys \ {presents} : presents' = k
    /\ UNCHANGED <<files, health, run, approved, last, boundVars>>

PodFails(p) ==
    /\ health[p] = "up" /\ outages < MaxOutages
    /\ \E h \in {"mute", "down"} : health' = [health EXCEPT ![p] = h]
    /\ outages' = outages + 1
    /\ UNCHANGED <<files, presents, run, approved, last, acts>>

PodReturns(p) ==
    /\ health[p] # "up"
    /\ health' = [health EXCEPT ![p] = "up"]
    /\ UNCHANGED <<files, presents, run, approved, last, boundVars>>

\* wheel key.accept, as reconcile calls it: moves a pending key only.
WheelAccept(f) ==
    IF f.pending = NoKey THEN f
    ELSE [f EXCEPT !.accepted = f.pending, !.pending = NoKey]

\* The possible results of the wheel call of an operator's action.  Accept
\* includes rejected and denied keys; reject moves a pending key only.
Wheel(action, f) ==
    LET movable == {f.pending, f.rejected, f.denied} \ {NoKey} IN
    CASE action = "accept" ->
             IF movable = {} THEN {f}
             ELSE {[NoFiles EXCEPT !.accepted = k] : k \in movable}
      [] action = "reject" ->
             IF f.pending = NoKey THEN {f}
             ELSE {[f EXCEPT !.rejected = f.pending, !.pending = NoKey]}
      [] OTHER -> {NoFiles}

-----------------------------------------------------------------------------
(* act: the Keys page.                                                      *)

\* key_action_applied: the post-change listing shows the target state, or no
\* file at all.
key_action_applied(action, f) ==
    \/ f = NoFiles
    \/ action = "accept" /\ f.accepted # NoKey
    \/ action = "reject" /\ f.rejected # NoKey

\* merged_key_data: a pod that answers lists the minion under some tab.
OnRoster == \E p \in Pods : health[p] # "down" /\ files[p] # NoFiles

\* A request passes its gate and starts its calls to the pods.
Requested(action) ==
    /\ run[Human].phase = "idle" /\ acts < MaxActs
    /\ run' = [run EXCEPT ![Human] =
                  [Idle EXCEPT !.phase = "fanout", !.act = action]]
    /\ acts' = acts + 1
    /\ last' = IF action = "delete" THEN "none" ELSE action
    /\ UNCHANGED <<saltVars, approved, outages>>

\* The Keys page.  Only a listing every pod answered may stop a delete.
Begin(action) ==
    /\ \/ OnRoster
       \/ action = "delete" /\ \E p \in Pods : health[p] = "down"
    /\ Requested(action)

\* salt-key on the console: the same fan-out, but a key no answering pod lists
\* is unknown, for a delete too.
cmd_key(action) ==
    /\ OnRoster
    /\ Requested(action)

\* The request once the fan-out has visited every pod: an accept that reached
\* some pod goes on to backfill_key, which works on the whole fleet.
AfterFanOut(y) ==
    IF y.at <= N THEN y
    ELSE IF y.act = "accept" /\ y.failed # Pods
         THEN [Idle EXCEPT !.phase = "reread"]
         ELSE Idle

\* Mutant: a pod that did not answer is not reported.
FanOutIgnoresFailure ==
    LET y == run[Human]
        p == y.at
        next == [y EXCEPT !.at = p + 1]
    IN  /\ y.phase = "fanout"
        /\ \E f \in IF health[p] = "down" THEN {files[p]} ELSE Wheel(y.act, files[p]) :
             /\ files' = [files EXCEPT ![p] = f]
             /\ approved' = IF y.act = "accept" THEN approved \cup ({f.accepted} \ {NoKey})
                            ELSE approved
        /\ run' = [run EXCEPT ![Human] = AfterFanOut(next)]
        /\ last' = IF y.act = "delete" /\ p = N THEN "delete" ELSE last
        /\ UNCHANGED <<health, presents, boundVars>>

\* The message of a request: applied on every pod, or the pods that did not
\* answer or were left in another state.
AppliedEverywhere(y) == y.failed \cup y.unapplied = {}

\* One pod of the fan-out: it does not answer, or the wheel call runs there.
FanOut ==
    LET y == run[Human]
        p == y.at
        answers == health[p] # "down"
    IN  /\ y.phase = "fanout"
        /\ \E f \in IF answers THEN Wheel(y.act, files[p]) ELSE {files[p]} :
             LET next == [y EXCEPT !.at = p + 1,
                             !.failed = IF answers THEN @ ELSE @ \cup {p},
                             !.unapplied = IF answers /\ ~key_action_applied(y.act, f)
                                           THEN @ \cup {p} ELSE @]
             IN  /\ files' = [files EXCEPT ![p] = f]
                 /\ approved' = IF y.act = "accept" /\ f # files[p]
                                THEN approved \cup {f.accepted} ELSE approved
                 /\ run' = [run EXCEPT ![Human] = AfterFanOut(next)]
                 /\ last' = IF y.act = "delete" /\ p = N /\ AppliedEverywhere(next)
                            THEN "delete" ELSE last
        /\ UNCHANGED <<health, presents, boundVars>>

-----------------------------------------------------------------------------
(* Automation: reconcile_keys, then backfill_absent_keys.                   *)

\* The status of the minion on a pod: the first tab that lists it.
Tab(f) ==
    IF f.pending # NoKey THEN "pending"
    ELSE IF f.accepted # NoKey THEN "accepted"
    ELSE IF f.rejected # NoKey THEN "rejected"
    ELSE IF f.denied # NoKey THEN "denied" ELSE "absent"

\* _attribute_fingerprints: the fingerprint listed under a tab; none when
\* key.finger failed or the minion is not there.
Fingerprint(p, tab) ==
    IF health[p] = "mute" \/ tab = "absent" THEN NoKey ELSE files[p][tab]

\* _fleet_key_states for one pod.
PodView(p) ==
    LET tab == Tab(files[p])
    IN  IF health[p] = "down" THEN [tab |-> "unread", fp |-> NoKey]
        ELSE [tab |-> tab, fp |-> Fingerprint(p, tab)]

Listed(view, tab) == {p \in Pods : view[p].tab = tab}

\* Someone decided against this minion on a pod that was read.
Decided(view) == Listed(view, "rejected") \cup Listed(view, "denied") # {}

\* Mutant: any pending key is completed once some pod trusts the minion.
AcceptAnyPending(view) ==
    IF Decided(view) \/ Listed(view, "accepted") = {} THEN {}
    ELSE Listed(view, "pending")

\* reconcile_keys: the pods to accept on.
AcceptPlan(view) ==
    LET trusted == {view[p].fp : p \in Listed(view, "accepted")} \ {NoKey}
    IN  IF Decided(view) THEN {}
        ELSE {p \in Listed(view, "pending") : view[p].fp \in trusted}

\* Mutant: copies are never made.
CopyNowhere(view) == {}

\* _backfill_candidates: the pods to copy to.
CopyPlan(view) ==
    LET fps == {view[p].fp : p \in Listed(view, "accepted")}
    IN  IF ~Decided(view) /\ Cardinality(fps) = 1 /\ NoKey \notin fps
        THEN Listed(view, "absent")
        ELSE {}

\* The CronJob or the button starts a pass.
StartReconcile(a) ==
    /\ run[a].phase = "idle"
    /\ run' = [run EXCEPT ![a] = [Idle EXCEPT !.phase = "read"]]
    /\ UNCHANGED <<saltVars, approved, last, boundVars>>

\* The accept of another minion's key backfills the whole fleet.
StartBackfill(a) ==
    /\ run[a].phase = "idle"
    /\ run' = [run EXCEPT ![a] = [Idle EXCEPT !.phase = "reread"]]
    /\ UNCHANGED <<saltVars, approved, last, boundVars>>

\* Mutant: the backfill goes on without a pod to copy to.
AfterReadNoPlan(y) ==
    IF y.at <= N THEN y
    ELSE IF y.phase = "read"
    THEN IF Listed(y.view, "unread") = Pods THEN Idle
         ELSE [y EXCEPT !.phase = "accept", !.todo = AcceptPlan(y.view)]
    ELSE IF Listed(y.view, "accepted") = {} THEN Idle
         ELSE [y EXCEPT !.phase = "print", !.todo = CopyPlan(y.view)]

\* The pass once every pod is read.  A reconcile that reached no pod ends.
AfterRead(y) ==
    IF y.at <= N THEN y
    ELSE IF y.phase = "read"
    THEN IF Listed(y.view, "unread") = Pods THEN Idle
         ELSE [y EXCEPT !.phase = "accept", !.todo = AcceptPlan(y.view)]
    ELSE IF CopyPlan(y.view) = {} THEN Idle
         ELSE [y EXCEPT !.phase = "print", !.todo = CopyPlan(y.view)]

ReadPod(a) ==
    LET y == run[a] IN
    /\ y.phase \in {"read", "reread"}
    /\ run' = [run EXCEPT ![a] =
                  AfterRead([y EXCEPT !.at = @ + 1, !.view[y.at] = PodView(y.at)])]
    /\ UNCHANGED <<saltVars, approved, last, boundVars>>

\* The wheel accept on the next planned pod; a pod that is down is an error.
AcceptPod(a) ==
    LET y == run[a]
        p == First(y.todo)
    IN  /\ y.phase = "accept" /\ y.todo # {}
        /\ files' = [files EXCEPT ![p] =
                        IF health[p] = "down" THEN @ ELSE WheelAccept(@)]
        /\ run' = [run EXCEPT ![a].todo = @ \ {p}]
        /\ UNCHANGED <<health, presents, approved, last, boundVars>>

\* The accepts are through; backfill reads the fleet afresh.
BeginBackfill(a) ==
    /\ run[a].phase = "accept" /\ run[a].todo = {}
    /\ run' = [run EXCEPT ![a] = [Idle EXCEPT !.phase = "reread"]]
    /\ UNCHANGED <<saltVars, approved, last, boundVars>>

\* _read_accepted_pubkey on the first accepting pod: the accepted key there
\* now, or the end of the pass when it cannot be read.
ReadPubkey(a) ==
    LET y == run[a]
        source == First(Listed(y.view, "accepted"))
        pem == files[source].accepted
    IN  /\ y.phase = "print"
        /\ run' = [run EXCEPT ![a] =
               IF health[source] = "down" \/ pem = NoKey THEN Idle
               ELSE [y EXCEPT !.phase = "copy", !.pem = pem]]
        /\ UNCHANGED <<saltVars, approved, last, boundVars>>

\* The exec of _backfill_script on the next planned pod moves the key file
\* into place whatever is there by then; or the exec fails.
Copied(a, p) ==
    run' = [run EXCEPT ![a] =
        IF run[a].todo = {p} THEN Idle ELSE [run[a] EXCEPT !.todo = @ \ {p}]]

CopyKey(a) ==
    LET p == First(run[a].todo) IN
    /\ run[a].phase = "copy"
    /\ health[p] # "down"
    /\ files' = [files EXCEPT ![p].accepted = run[a].pem]
    /\ Copied(a, p)
    /\ UNCHANGED <<health, presents, approved, last, boundVars>>

CopyFails(a) ==
    /\ run[a].phase = "copy"
    /\ Copied(a, First(run[a].todo))
    /\ UNCHANGED <<saltVars, approved, last, boundVars>>

-----------------------------------------------------------------------------
PassStep(a) ==
    \/ ReadPod(a) \/ AcceptPod(a) \/ BeginBackfill(a) \/ ReadPubkey(a)
    \/ CopyKey(a) \/ CopyFails(a)

Environment ==
    \/ \E p \in Pods : MinionAuths(p) \/ PodFails(p) \/ PodReturns(p)
    \/ MinionRotates

Work == FanOut \/ \E a \in Actors : PassStep(a)

Next ==
    \/ Environment
    \/ Work
    \/ \E action \in Acts : Begin(action) \/ cmd_key(action)
    \/ \E a \in Passes : StartReconcile(a) \/ StartBackfill(a)

Spec == Init /\ [][Next]_vars

\* Operators' requests and passes one after the other; check-ins, rotations
\* and outages still fall between their calls.
OneAtATime ==
    \/ Environment
    \/ Work
    \/ AllIdle /\ \E action \in Acts : Begin(action) \/ cmd_key(action)
    \/ AllIdle /\ \E a \in Passes : StartReconcile(a) \/ StartBackfill(a)

LoneSpec == Init /\ [][OneAtATime]_vars

(***************************************************************************)
(* Fairness.  Outages end; the CronJob starts a pass every hour            *)
(* (concurrencyPolicy Forbid: after the last one ended); a request that    *)
(* runs goes on; an exec on a pod that is up does not fail for ever.       *)
(***************************************************************************)
FairSpec ==
    /\ LoneSpec
    /\ \A p \in Pods : WF_vars(PodReturns(p))
    /\ \A a \in Passes : SF_vars(AllIdle /\ StartReconcile(a))
    /\ WF_vars(Work)
    /\ \A a \in Passes : SF_vars(CopyKey(a))

-----------------------------------------------------------------------------
(* Properties.                                                              *)

\* "Never invents trust" (reconcile_cli): every key a pod accepts is one that
\* an operator's accept moved to accepted on some pod.
InventsNoTrust ==
    \A p \in Pods : files[p].accepted \in approved \cup {NoKey}

\* A delete that every pod applied stays: no pod accepts the key again before
\* an operator's next action, through outages, check-ins and passes.
DeleteSticks == last = "delete" => \A p \in Pods : files[p].accepted = NoKey

\* A step of automation (a pass, or the backfill of an accept) makes pod p
\* accept a key.
Grants(p) ==
    /\ files'[p].accepted \notin {NoKey, files[p].accepted}
    /\ run[Human].phase # "fanout" \/ run'[Human] = run[Human]

\* "Accept on a pod what another pod already trusts with the identical
\* fingerprint, and copy a byte-identical accepted key": the key automation
\* grants is accepted on another pod at that moment, whatever the minion
\* presented and whichever pods failed since the pass read them.
SameTrust ==
    [][\A p \in Pods : Grants(p) =>
          \E q \in Pods \ {p} : files[q].accepted = files'[p].accepted]_vars

\* Some pod accepts a key and every other pod accepts it too, has it pending
\* or has no key file.
Completable ==
    \E k \in Keys :
        /\ \E p \in Pods : files[p].accepted = k
        /\ \A p \in Pods : files[p] \in {NoFiles, [NoFiles EXCEPT !.accepted = k],
                                        [NoFiles EXCEPT !.pending = k]}

\* "Accepted-keys divergence converges within the hour": a split that
\* automation may complete does not last.
TrustConverges ==
    []<>(Completable => \A p \in Pods : files[p].accepted # NoKey)
=============================================================================
