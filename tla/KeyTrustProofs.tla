--------------------------- MODULE KeyTrustProofs ---------------------------
(***************************************************************************)
(* What KeyTrust guarantees for any number of pods, keys and passes.       *)
(* Types hold however requests and passes interleave; the trust properties *)
(* hold when requests and passes run one after the other (LoneSpec), with  *)
(* check-ins, rotations and outages anywhere between their calls.          *)
(***************************************************************************)
EXTENDS KeyTrust, FiniteSetTheorems, WellFoundedInduction, TLAPS

-----------------------------------------------------------------------------
(* Facts about the operators.                                               *)

\* The next planned pod is one of the planned pods, and the first of them.
LEMMA FirstIsLeast ==
    ASSUME NEW S \in SUBSET Pods, S # {}
    PROVE  First(S) \in S /\ \A q \in S : First(S) <= q
<1> DEFINE R == {ss \in Nat \X Nat : ss[1] < ss[2]}
<1>1. IsWellFoundedOn(R, Nat)
  BY NatLessThanWellFounded DEF OpToRel
<1>2. S \subseteq Nat
  BY PodsAssumption DEF Pods
<1>3. PICK x \in S : \A y \in S : ~(<<y, x>> \in R)
  <2> HIDE DEF R
  <2> QED  BY <1>1, <1>2, WFMin
<1>4. \A y \in S : x <= y
  <2> TAKE y \in S
  <2>1. <<y, x>> \notin R
    BY <1>3
  <2>2. y \in Nat /\ x \in Nat
    BY <1>2
  <2>3. ~(y < x)
    BY <2>1, <2>2, Z3
  <2> QED  BY <2>2, <2>3
<1> QED  BY <1>4 DEF First

\* An actor that runs nothing is a well-formed one.
LEMMA IdleType == Idle \in Run
BY PodsAssumption DEF Idle, Run, Unread, View, Key, Pods

\* The wheel calls turn key files into key files.
LEMMA WheelType ==
    ASSUME NEW f \in Files
    PROVE  /\ WheelAccept(f) \in Files
           /\ \A action : Wheel(action, f) \subseteq Files
<1>1. NoFiles \in Files
  BY DEF NoFiles, Files, Key
<1>2. WheelAccept(f) \in Files
  BY DEF WheelAccept, Files, Key
<1>3. ASSUME NEW action
      PROVE  Wheel(action, f) \subseteq Files
  BY <1>1 DEF Wheel, Files, Key, NoFiles
<1> QED  BY <1>2, <1>3

\* A delete leaves no file; only an accept makes a pod accept a key.
LEMMA WheelAccepted ==
    ASSUME NEW g \in Files, NEW action, NEW f \in Wheel(action, g)
    PROVE  /\ action = "delete" => f.accepted = NoKey
           /\ \/ f.accepted \in {g.accepted, NoKey}
              \/ action = "accept" /\ f # g
<1>1. CASE action = "accept"
  BY <1>1
<1>2. CASE action = "reject"
  <2>1. Wheel(action, g) = IF g.pending = NoKey THEN {g}
                           ELSE {[g EXCEPT !.rejected = g.pending, !.pending = NoKey]}
    BY <1>2 DEF Wheel
  <2> QED  BY <1>2, <2>1 DEF Files
<1>3. CASE action \notin {"accept", "reject"}
  <2>1. Wheel(action, g) = {NoFiles}
    BY <1>3 DEF Wheel
  <2> QED  BY <2>1 DEF NoFiles
<1> QED  BY <1>1, <1>2, <1>3

\* What a pass reads of a pod is a view.
LEMMA PodViewType ==
    ASSUME TypeOK, NEW p \in Pods
    PROVE  PodView(p) \in View
<1>1. files[p] \in Files
  BY DEF TypeOK
<1>2. Tab(files[p]) \in {"pending", "accepted", "rejected", "denied", "absent"}
  BY DEF Tab
<1>3. Fingerprint(p, Tab(files[p])) \in Key
  BY <1>1, <1>2 DEF Fingerprint, Files, Key
<1> QED  BY <1>2, <1>3 DEF PodView, View, Key

\* The plans name pods.
LEMMA PlanType ==
    ASSUME NEW view
    PROVE  AcceptPlan(view) \subseteq Pods /\ CopyPlan(view) \subseteq Pods
BY DEF AcceptPlan, CopyPlan, Listed

\* A copy is planned only when some pod accepts the minion.
LEMMA CopyPlanSource ==
    ASSUME NEW view, CopyPlan(view) # {}
    PROVE  Listed(view, "accepted") # {}
<1> SUFFICES ASSUME Listed(view, "accepted") = {} PROVE FALSE
  OBVIOUS
<1>1. {view[p].fp : p \in Listed(view, "accepted")} = {}
  OBVIOUS
<1> QED  BY <1>1, FS_EmptySet DEF CopyPlan

-----------------------------------------------------------------------------
(* Type correctness.                                                        *)

\* The loops over the pods are within their range.
AtInRange ==
    \A a \in Actors : run[a].phase \in {"fanout", "read", "reread"} => run[a].at \in Pods

\* A backfill that reads the accepted key has a pod to read it from.
HasSource ==
    \A a \in Actors : run[a].phase = "print" => Listed(run[a].view, "accepted") # {}

\* The strengthening of TypeOK that is inductive.
TypeInv == TypeOK /\ AtInRange /\ HasSource

LEMMA InitTypeInv == Init => TypeInv
<1> SUFFICES ASSUME Init PROVE TypeInv
  OBVIOUS
<1>1. NoFiles \in Files
  BY DEF NoFiles, Files, Key
<1>2. \A a \in Actors : run[a] = Idle
  BY DEF Init
<1>3. \A a \in Actors : run[a].phase = "idle"
  BY <1>2 DEF Idle
<1>4. AtInRange
  BY <1>3 DEF AtInRange
<1>5. TypeOK
  BY <1>1, <1>3, IdleType, BoundsAssumption DEF Init, TypeOK
<1>6. HasSource
  BY <1>3 DEF HasSource
<1> QED  BY <1>4, <1>5, <1>6 DEF TypeInv

\* Steps of the minion and of the pods.
LEMMA EnvironmentTypeInv ==
    ASSUME TypeInv, Environment
    PROVE  TypeInv'
<1> USE DEF TypeInv, boundVars, saltVars
<1>1. ASSUME NEW p \in Pods, MinionAuths(p)
      PROVE  TypeInv'
  <2>1. files[p] \in Files /\ presents \in Key
    BY DEF TypeOK, Key
  <2>2. /\ [files[p] EXCEPT !.pending = presents] \in Files
        /\ [files[p] EXCEPT !.denied = presents] \in Files
    BY <2>1 DEF Files
  <2>3. files' \in [Pods -> Files]
    BY <1>1, <2>1, <2>2 DEF MinionAuths, TypeOK
  <2> QED  BY <1>1, <2>3 DEF MinionAuths, TypeOK, AtInRange, HasSource
<1>2. ASSUME NEW p \in Pods, PodFails(p)
      PROVE  TypeInv'
  BY <1>2, BoundsAssumption DEF PodFails, TypeOK, AtInRange, HasSource
<1>3. ASSUME NEW p \in Pods, PodReturns(p)
      PROVE  TypeInv'
  BY <1>3 DEF PodReturns, TypeOK, AtInRange, HasSource
<1>4. CASE MinionRotates
  BY <1>4 DEF MinionRotates, TypeOK, AtInRange, HasSource
<1> QED  BY <1>1, <1>2, <1>3, <1>4 DEF Environment

\* A request or a pass that starts or ends keeps the types.
LEMMA RunTypeInv ==
    ASSUME TypeInv, NEW a \in Actors, NEW y \in Run,
           y.phase \in {"print", "copy"} => y.todo # {},
           y.phase \in {"fanout", "read", "reread"} => y.at \in Pods,
           y.phase = "print" => Listed(y.view, "accepted") # {},
           run' = [run EXCEPT ![a] = y],
           files' \in [Pods -> Files], UNCHANGED <<health, presents, outages>>,
           approved' \subseteq Keys, last' \in {"none", "accept", "reject", "delete"},
           acts' \in 0..MaxActs
    PROVE  TypeInv'
<1>1. run' \in [Actors -> Run] /\ \A b \in Actors : run'[b] \in {run[b], y}
  BY DEF TypeInv, TypeOK
<1>2. \A b \in Actors : run'[b].phase \in {"print", "copy"} => run'[b].todo # {}
  BY <1>1 DEF TypeInv, TypeOK
<1>3. AtInRange'
  BY <1>1 DEF TypeInv, AtInRange
<1>4. HasSource'
  <2> SUFFICES ASSUME NEW b \in Actors, run'[b].phase = "print"
               PROVE  Listed(run'[b].view, "accepted") # {}
    BY DEF HasSource, Listed
  <2>1. CASE run'[b] = y
    BY <2>1
  <2>2. CASE run'[b] = run[b]
    BY <2>2 DEF TypeInv, HasSource
  <2> QED  BY <1>1, <2>1, <2>2
<1> QED  BY <1>1, <1>2, <1>3, <1>4 DEF TypeInv, TypeOK

\* A request, a pass or a backfill of the whole fleet begins.
LEMMA StartTypeInv ==
    ASSUME TypeInv,
           \/ \E action \in Acts : Begin(action) \/ cmd_key(action)
           \/ \E a \in Passes : StartReconcile(a) \/ StartBackfill(a)
    PROVE  TypeInv'
<1> USE DEF saltVars, boundVars
<1>1. 1 \in Pods /\ Idle.at = 1
  BY PodsAssumption DEF Pods, Idle
<1>2. ASSUME NEW action \in Acts, Requested(action)
      PROVE  TypeInv'
  <2> DEFINE y == [Idle EXCEPT !.phase = "fanout", !.act = action]
  <2>1. y \in Run /\ y.phase = "fanout" /\ y.at = 1
    BY <1>1, IdleType DEF Run, Idle
  <2>2. run' = [run EXCEPT ![Human] = y] /\ Human \in Actors
    BY <1>2 DEF Requested, Actors
  <2>3. acts' \in 0..MaxActs /\ last' \in {"none", "accept", "reject", "delete"}
    BY <1>2, ActsAssumption, BoundsAssumption DEF Requested, TypeInv, TypeOK
  <2>4. files' \in [Pods -> Files] /\ approved' \subseteq Keys
        /\ UNCHANGED <<health, presents, outages>>
    BY <1>2 DEF Requested, TypeInv, TypeOK
  <2> HIDE DEF y
  <2> QED  BY <1>1, <2>1, <2>2, <2>3, <2>4, RunTypeInv
<1>3. ASSUME NEW a \in Passes, StartReconcile(a) \/ StartBackfill(a)
      PROVE  TypeInv'
  <2>1. PICK ph \in {"read", "reread"} : run' = [run EXCEPT ![a] = [Idle EXCEPT !.phase = ph]]
    BY <1>3 DEF StartReconcile, StartBackfill
  <2> DEFINE y == [Idle EXCEPT !.phase = ph]
  <2>2. y \in Run /\ y.phase \in {"read", "reread"} /\ y.at = 1
    BY <1>1, IdleType DEF Run, Idle
  <2>3. /\ files' \in [Pods -> Files] /\ approved' \subseteq Keys
        /\ UNCHANGED <<health, presents, outages>>
        /\ acts' \in 0..MaxActs /\ last' \in {"none", "accept", "reject", "delete"}
    BY <1>3 DEF StartReconcile, StartBackfill, TypeInv, TypeOK
  <2>4. run' = [run EXCEPT ![a] = y] /\ a \in Actors
    BY <2>1 DEF Actors
  <2> HIDE DEF y
  <2> QED  BY <1>1, <2>2, <2>3, <2>4, RunTypeInv
<1> QED  BY <1>2, <1>3 DEF Begin, cmd_key

\* One pod of the fan-out.
LEMMA FanOutTypeInv ==
    ASSUME TypeInv, FanOut
    PROVE  TypeInv'
<1> DEFINE y == run[Human]
           p == y.at
           answers == health[p] # "down"
<1>1. Human \in Actors
  BY DEF Actors
<1>2. y \in Run /\ y.phase = "fanout" /\ p \in Pods /\ files[p] \in Files
  BY <1>1 DEF FanOut, TypeInv, TypeOK, AtInRange
<1>3. PICK f \in IF answers THEN Wheel(y.act, files[p]) ELSE {files[p]} :
        LET next == [y EXCEPT !.at = p + 1,
                        !.failed = IF answers THEN @ ELSE @ \cup {p},
                        !.unapplied = IF answers /\ ~key_action_applied(y.act, f)
                                      THEN @ \cup {p} ELSE @]
        IN  /\ files' = [files EXCEPT ![p] = f]
            /\ approved' = IF y.act = "accept" /\ f # files[p]
                           THEN approved \cup {f.accepted} ELSE approved
            /\ run' = [run EXCEPT ![Human] = AfterFanOut(next)]
            /\ last' = IF y.act = "delete" /\ p = N /\ AppliedEverywhere(next)
                       THEN "delete" ELSE last
  BY DEF FanOut
<1> DEFINE next == [y EXCEPT !.at = p + 1,
                        !.failed = IF answers THEN @ ELSE @ \cup {p},
                        !.unapplied = IF answers /\ ~key_action_applied(y.act, f)
                                      THEN @ \cup {p} ELSE @]
<1>4. f \in Files
  BY <1>2, <1>3, WheelType
<1>5. next \in Run /\ next.phase = "fanout" /\ next.at \in 1..N + 1
  <2> DEFINE F == IF answers THEN y.failed ELSE y.failed \cup {p}
             U == IF answers /\ ~key_action_applied(y.act, f)
                  THEN y.unapplied \cup {p} ELSE y.unapplied
  <2>1. F \in SUBSET Pods /\ U \in SUBSET Pods
    BY <1>2 DEF Run
  <2>2. p + 1 \in 1..N + 1
    BY <1>2, PodsAssumption DEF Pods
  <2>3. next = [y EXCEPT !.at = p + 1, !.failed = F, !.unapplied = U]
    OBVIOUS
  <2> HIDE DEF y, p, answers, F, U, next
  <2> QED  BY <1>2, <2>1, <2>2, <2>3 DEF Run
<1>6. /\ AfterFanOut(next) \in Run
      /\ AfterFanOut(next).phase \notin {"print", "copy"}
      /\ AfterFanOut(next).phase \in {"fanout", "read", "reread"}
            => AfterFanOut(next).at \in Pods
  <2> HIDE DEF next
  <2>1. CASE next.at <= N
    BY <1>5, <2>1, PodsAssumption DEF AfterFanOut, Pods
  <2>2. CASE ~(next.at <= N)
    <3>1. [Idle EXCEPT !.phase = "reread"] \in Run
      BY IdleType DEF Run
    <3>2. 1 \in Pods
      BY PodsAssumption DEF Pods
    <3> QED  BY <2>2, <3>1, <3>2, IdleType DEF AfterFanOut, Idle
  <2> QED  BY <2>1, <2>2
<1>7. approved' \subseteq Keys
  <2>1. CASE y.act = "accept" /\ f # files[p]
    <3>1. f \in Wheel("accept", files[p])
      BY <1>3, <2>1
    <3>2. f.accepted \in Keys
      BY <1>2, <2>1, <3>1, KeysAssumption DEF Wheel, Files, Key, NoFiles
    <3> QED  BY <1>3, <2>1, <3>2 DEF TypeInv, TypeOK
  <2>2. CASE ~(y.act = "accept" /\ f # files[p])
    BY <1>3, <2>2 DEF TypeInv, TypeOK
  <2> QED  BY <2>1, <2>2
<1>8. /\ files' \in [Pods -> Files] /\ UNCHANGED <<health, presents, outages>>
      /\ acts' \in 0..MaxActs /\ last' \in {"none", "accept", "reject", "delete"}
  BY <1>2, <1>3, <1>4 DEF FanOut, TypeInv, TypeOK, boundVars
<1>9. run' = [run EXCEPT ![Human] = AfterFanOut(next)]
  BY <1>3
<1> HIDE DEF next, y, p, answers
<1> QED  BY <1>1, <1>6, <1>7, <1>8, <1>9, RunTypeInv

\* The pass after a pod was read.
LEMMA AfterReadType ==
    ASSUME NEW y \in Run, y.phase \in {"read", "reread"}
    PROVE  /\ AfterRead(y) \in Run
           /\ AfterRead(y).phase \in {"print", "copy"} => AfterRead(y).todo # {}
           /\ AfterRead(y).phase \in {"fanout", "read", "reread"} => AfterRead(y).at \in Pods
           /\ AfterRead(y).phase = "print" => Listed(AfterRead(y).view, "accepted") # {}
<1>1. CASE y.at <= N
  BY <1>1, PodsAssumption DEF AfterRead, Run, Pods
<1>2. CASE ~(y.at <= N)
  <2>1. [y EXCEPT !.phase = "accept", !.todo = AcceptPlan(y.view)] \in Run
    BY PlanType DEF Run
  <2>2. [y EXCEPT !.phase = "print", !.todo = CopyPlan(y.view)] \in Run
    BY PlanType DEF Run
  <2>3. Idle \in Run /\ Idle.phase = "idle"
    BY IdleType DEF Idle
  <2>4. CopyPlan(y.view) # {} => Listed(y.view, "accepted") # {}
    BY CopyPlanSource
  <2>5. [y EXCEPT !.phase = "print", !.todo = CopyPlan(y.view)].view = y.view
    BY DEF Run
  <2> QED  BY <1>2, <2>1, <2>2, <2>3, <2>4, <2>5 DEF AfterRead, Run
<1> QED  BY <1>1, <1>2

\* One call of a pass.
LEMMA PassStepTypeInv ==
    ASSUME TypeInv, NEW a \in Actors, PassStep(a)
    PROVE  TypeInv'
<1> DEFINE y == run[a]
<1> USE DEF saltVars, boundVars
<1>1. y \in Run
  BY DEF TypeInv, TypeOK
<1>2. TypeOK
  BY DEF TypeInv
<1>3. Idle \in Run /\ Idle.phase = "idle"
  BY IdleType DEF Idle
<1>4. 1 \in Pods /\ [Idle EXCEPT !.phase = "reread"] \in Run
  BY PodsAssumption, IdleType DEF Pods, Run
<1>5. CASE ReadPod(a)
  <2> DEFINE z == [y EXCEPT !.at = y.at + 1, !.view[y.at] = PodView(y.at)]
  <2>1. y.phase \in {"read", "reread"} /\ y.at \in Pods
    BY <1>5 DEF ReadPod, TypeInv, AtInRange
  <2>2. PodView(y.at) \in View
    BY <1>2, <2>1, PodViewType
  <2>3. y.at + 1 \in 1..N + 1
    BY <2>1, PodsAssumption DEF Pods
  <2>4. z \in Run /\ z.phase \in {"read", "reread"}
    <3> HIDE DEF y
    <3> QED  BY <1>1, <2>1, <2>2, <2>3 DEF Run
  <2>5. run' = [run EXCEPT ![a] = AfterRead(z)]
    BY <1>5 DEF ReadPod
  <2>6. /\ files' \in [Pods -> Files] /\ UNCHANGED <<health, presents, outages>>
        /\ approved' \subseteq Keys /\ acts' \in 0..MaxActs
        /\ last' \in {"none", "accept", "reject", "delete"}
    BY <1>2, <1>5 DEF ReadPod, TypeOK
  <2> HIDE DEF z, y
  <2> QED  BY <2>4, <2>5, <2>6, AfterReadType, RunTypeInv
<1>6. CASE AcceptPod(a)
  <2> DEFINE p == First(y.todo)
             z == [y EXCEPT !.todo = @ \ {p}]
  <2>1. y.phase = "accept" /\ p \in Pods
    BY <1>1, <1>6, FirstIsLeast DEF AcceptPod, Run
  <2>2. z \in Run /\ z.phase = "accept"
    <3> HIDE DEF y, p
    <3> QED  BY <1>1, <2>1 DEF Run
  <2>3. run' = [run EXCEPT ![a] = z]
    BY <1>6 DEF AcceptPod
  <2>4. files' \in [Pods -> Files]
    <3>1. files[p] \in Files /\ WheelAccept(files[p]) \in Files
      BY <1>2, <2>1, WheelType DEF TypeOK
    <3> QED  BY <1>2, <1>6, <2>1, <3>1 DEF AcceptPod, TypeOK
  <2>5. /\ UNCHANGED <<health, presents, outages>>
        /\ approved' \subseteq Keys /\ acts' \in 0..MaxActs
        /\ last' \in {"none", "accept", "reject", "delete"}
    BY <1>2, <1>6 DEF AcceptPod, TypeOK
  <2> HIDE DEF z, y, p
  <2> QED  BY <2>2, <2>3, <2>4, <2>5, RunTypeInv
<1>7. CASE BeginBackfill(a)
  <2>1. /\ run' = [run EXCEPT ![a] = [Idle EXCEPT !.phase = "reread"]]
        /\ [Idle EXCEPT !.phase = "reread"].at = 1
    BY <1>7 DEF BeginBackfill, Idle
  <2>2. /\ files' \in [Pods -> Files] /\ UNCHANGED <<health, presents, outages>>
        /\ approved' \subseteq Keys /\ acts' \in 0..MaxActs
        /\ last' \in {"none", "accept", "reject", "delete"}
    BY <1>2, <1>7 DEF BeginBackfill, TypeOK
  <2>3. [Idle EXCEPT !.phase = "reread"].phase = "reread"
    BY DEF Idle
  <2> QED  BY <1>4, <2>1, <2>2, <2>3, RunTypeInv
<1>8. CASE ReadPubkey(a)
  <2> DEFINE pem == files[First(Listed(y.view, "accepted"))].accepted
             z == IF health[First(Listed(y.view, "accepted"))] = "down" \/ pem = NoKey
                  THEN Idle ELSE [y EXCEPT !.phase = "copy", !.pem = pem]
  <2>1. y.phase = "print" /\ y.todo # {}
    BY <1>2, <1>8 DEF ReadPubkey, TypeOK
  <2>2. pem \in Key
    <3> Listed(y.view, "accepted") # {}
      BY <2>1 DEF TypeInv, HasSource
    <3>1. Listed(y.view, "accepted") \in SUBSET Pods
      BY DEF Listed
    <3>2. First(Listed(y.view, "accepted")) \in Pods
      BY <3>1, FirstIsLeast
    <3> QED  BY <1>2, <3>2 DEF TypeOK, Files
  <2>3. z \in Run /\ (z.phase \in {"print", "copy"} => z.todo # {})
        /\ z.phase \notin {"fanout", "read", "reread"}
    BY <1>1, <1>3, <2>1, <2>2 DEF Run
  <2>4. run' = [run EXCEPT ![a] = z]
    BY <1>8 DEF ReadPubkey
  <2>5. /\ files' \in [Pods -> Files] /\ UNCHANGED <<health, presents, outages>>
        /\ approved' \subseteq Keys /\ acts' \in 0..MaxActs
        /\ last' \in {"none", "accept", "reject", "delete"}
    BY <1>2, <1>8 DEF ReadPubkey, TypeOK
  <2>6. z.phase # "print"
    BY <1>1, <1>3 DEF Run
  <2> HIDE DEF z, y, pem
  <2> QED  BY <2>3, <2>4, <2>5, <2>6, RunTypeInv
<1>9. CASE CopyKey(a) \/ CopyFails(a)
  <2> DEFINE p == First(y.todo)
             z == IF y.todo = {p} THEN Idle ELSE [y EXCEPT !.todo = @ \ {p}]
  <2>1. y.phase = "copy" /\ y.todo # {}
    BY <1>2, <1>9 DEF CopyKey, CopyFails, TypeOK
  <2>2. p \in y.todo /\ p \in Pods
    BY <1>1, <2>1, FirstIsLeast DEF Run
  <2>3. /\ z \in Run /\ z.phase \in {"idle", "copy"}
        /\ z.phase = "copy" => z.todo # {}
    <3> HIDE DEF y, p
    <3> QED  BY <1>1, <1>3, <2>1, <2>2 DEF Run
  <2>4. run' = [run EXCEPT ![a] = z]
    BY <1>9 DEF CopyKey, CopyFails, Copied
  <2>5. files' \in [Pods -> Files]
    <3>1. CASE CopyKey(a)
      <4>1. [files[p] EXCEPT !.accepted = y.pem] \in Files
        BY <1>1, <1>2, <2>2 DEF TypeOK, Files, Run
      <4> QED  BY <1>2, <2>2, <3>1, <4>1 DEF CopyKey, TypeOK
    <3>2. CASE CopyFails(a)
      BY <1>2, <3>2 DEF CopyFails, TypeOK
    <3> QED  BY <1>9, <3>1, <3>2
  <2>6. /\ UNCHANGED <<health, presents, outages>>
        /\ approved' \subseteq Keys /\ acts' \in 0..MaxActs
        /\ last' \in {"none", "accept", "reject", "delete"}
    BY <1>2, <1>9 DEF CopyKey, CopyFails, TypeOK
  <2> HIDE DEF z, y, p
  <2> QED  BY <2>3, <2>4, <2>5, <2>6, RunTypeInv
<1> QED  BY <1>5, <1>6, <1>7, <1>8, <1>9 DEF PassStep

\* A stuttering step changes nothing the invariant reads.
LEMMA StutterTypeInv ==
    ASSUME TypeInv, UNCHANGED vars
    PROVE  TypeInv'
BY DEF vars, saltVars, boundVars, TypeInv, TypeOK, AtInRange, HasSource

LEMMA NextTypeInv == TypeInv /\ [Next]_vars => TypeInv'
BY EnvironmentTypeInv, StartTypeInv, FanOutTypeInv, PassStepTypeInv, StutterTypeInv
   DEF Next, Work

\* The key files, the requests and the passes stay well formed however
\* requests, passes, check-ins and outages interleave: the loops of act(),
\* _fleet_key_states and backfill_absent_keys stay within the pods, and a
\* backfill that copies has a pod to copy from and one to copy to.
THEOREM TypeCorrect == Spec => []TypeOK
<1>1. Init => TypeInv
  BY InitTypeInv
<1>2. TypeInv /\ [Next]_vars => TypeInv'
  BY NextTypeInv
<1>3. TypeInv => TypeOK
  BY DEF TypeInv
<1> QED  BY <1>1, <1>2, <1>3, PTL DEF Spec

-----------------------------------------------------------------------------
(* Trust, when requests and passes run one after the other.                 *)

\* At most one request or pass is under way, and only a request fans out.
Lone ==
    /\ \A a, b \in Actors : run[a].phase # "idle" /\ run[b].phase # "idle" => a = b
    /\ \A a \in Actors : run[a].phase = "fanout" => a = Human

\* What a pass has read still holds: a fingerprint listed under accepted is
\* the accepted key, one listed under pending is the pending key (until the
\* pass itself accepts it).
ViewHolds(a) ==
    \A p \in Pods :
        /\ run[a].view[p].tab = "accepted"
              => run[a].view[p].fp \in {NoKey, files[p].accepted}
        /\ run[a].view[p].tab = "pending" /\ (run[a].phase = "accept" => p \in run[a].todo)
              => run[a].view[p].fp \in {NoKey, files[p].pending}

\* What a pass is about to do: accept where the plan says, copy to pods
\* without a file the key that an accepting pod still has.
PlanHolds(a) ==
    /\ run[a].phase = "accept" => run[a].todo \subseteq AcceptPlan(run[a].view)
    /\ run[a].phase \in {"print", "copy"} => run[a].todo \subseteq Listed(run[a].view, "absent")
    /\ run[a].phase = "copy" =>
          /\ run[a].pem # NoKey
          /\ \E q \in Listed(run[a].view, "accepted") : files[q].accepted = run[a].pem

Busy == {"read", "accept", "reread", "print", "copy"}

PassesHold == \A a \in Actors : run[a].phase \in Busy => ViewHolds(a) /\ PlanHolds(a)

\* A delete under way has emptied the pods it visited, but for the pods that
\* did not answer; while a request runs, no delete counts as done.
FanOutHolds ==
    run[Human].phase = "fanout" =>
        /\ last # "delete"
        /\ run[Human].act = "delete" =>
              \A q \in Pods : q < run[Human].at /\ q \notin run[Human].failed
                                  => files[q].accepted = NoKey

\* The invariant of LoneSpec.
LoneInv ==
    TypeInv /\ Lone /\ PassesHold /\ FanOutHolds /\ DeleteSticks /\ InventsNoTrust

LEMMA InitLoneInv == Init => LoneInv
<1> SUFFICES ASSUME Init PROVE LoneInv
  OBVIOUS
<1>1. TypeInv
  BY InitTypeInv
<1>2. Human \in Actors
  BY DEF Actors
<1>3. \A a \in Actors : run[a].phase = "idle"
  BY DEF Init, Idle
<1>4. Lone /\ PassesHold /\ FanOutHolds
  BY <1>2, <1>3 DEF Lone, PassesHold, Busy, FanOutHolds
<1>5. \A p \in Pods : files[p].accepted = NoKey
  BY DEF Init, NoFiles
<1> QED  BY <1>1, <1>4, <1>5 DEF LoneInv, DeleteSticks, InventsNoTrust

\* A check-in, a rotation or an outage accepts nothing and leaves what a pass
\* read as it was: a pending key is not replaced.
LEMMA EnvironmentFiles ==
    ASSUME TypeInv, Environment
    PROVE  /\ \A q \in Pods : /\ files'[q].accepted = files[q].accepted
                              /\ files[q].pending # NoKey
                                    => files'[q].pending = files[q].pending
           /\ UNCHANGED <<run, approved, last>>
<1> USE DEF boundVars, saltVars
<1>1. ASSUME NEW p \in Pods, MinionAuths(p)
      PROVE  \A q \in Pods : /\ files'[q].accepted = files[q].accepted
                             /\ files[q].pending # NoKey
                                   => files'[q].pending = files[q].pending
  <2> DEFINE f == files[p]
             filed == IF f.accepted # NoKey THEN f.accepted ELSE f.pending
             g == IF filed = NoKey THEN [f EXCEPT !.pending = presents]
                  ELSE IF filed # presents THEN [f EXCEPT !.denied = presents]
                  ELSE f
  <2>1. f \in Files /\ files \in [Pods -> Files]
    BY DEF TypeInv, TypeOK
  <2>2. files' = [files EXCEPT ![p] = g]
    BY <1>1 DEF MinionAuths
  <2>3. g.accepted = f.accepted /\ (f.pending # NoKey => g.pending = f.pending)
    <3> HIDE DEF f
    <3> QED  BY <2>1 DEF Files
  <2>4. TAKE q \in Pods
  <2>5. CASE q = p
    <3>1. files'[q] = g
      BY <2>1, <2>2, <2>5
    <3> QED  BY <2>3, <2>5, <3>1
  <2>6. CASE q # p
    BY <2>1, <2>2, <2>6
  <2> QED  BY <2>5, <2>6
<1>2. ASSUME NEW p \in Pods, MinionAuths(p)
      PROVE  UNCHANGED <<run, approved, last>>
  BY <1>2 DEF MinionAuths
<1>3. ASSUME NEW p \in Pods, PodFails(p) \/ PodReturns(p)
      PROVE  UNCHANGED <<files, run, approved, last>>
  BY <1>3 DEF PodFails, PodReturns
<1>4. CASE MinionRotates
  BY <1>4 DEF MinionRotates
<1> QED  BY <1>1, <1>2, <1>3, <1>4 DEF Environment

LEMMA EnvironmentLoneInv ==
    ASSUME LoneInv, Environment
    PROVE  LoneInv'
<1>1. TypeInv /\ TypeInv'
  BY EnvironmentTypeInv DEF LoneInv
<1>2. /\ \A q \in Pods : /\ files'[q].accepted = files[q].accepted
                         /\ files[q].pending # NoKey
                               => files'[q].pending = files[q].pending
      /\ UNCHANGED <<run, approved, last>>
  BY <1>1, EnvironmentFiles
<1>3. Lone' /\ FanOutHolds' /\ DeleteSticks' /\ InventsNoTrust'
  BY <1>2 DEF LoneInv, Lone, FanOutHolds, DeleteSticks, InventsNoTrust
<1>4. PassesHold'
  <2> SUFFICES ASSUME NEW a \in Actors, run[a].phase \in Busy
               PROVE  ViewHolds(a)' /\ PlanHolds(a)'
    BY <1>2 DEF PassesHold, Busy
  <2>1. ViewHolds(a) /\ PlanHolds(a)
    BY DEF LoneInv, PassesHold
  <2>2. ViewHolds(a)'
    BY <1>2, <2>1 DEF ViewHolds
  <2>3. PlanHolds(a)'
    <3>1. Listed(run[a].view, "accepted") \subseteq Pods
      BY DEF Listed
    <3> QED  BY <1>2, <2>1, <3>1 DEF PlanHolds
  <2> QED  BY <2>2, <2>3
<1> QED  BY <1>1, <1>3, <1>4 DEF LoneInv

\* A request or a pass begins when nothing else runs.
LEMMA StartLoneInv ==
    ASSUME LoneInv, AllIdle,
           \/ \E action \in Acts : Begin(action) \/ cmd_key(action)
           \/ \E a \in Passes : StartReconcile(a) \/ StartBackfill(a)
    PROVE  LoneInv'
<1> USE DEF saltVars, boundVars
<1>1. TypeInv /\ TypeInv'
  BY StartTypeInv DEF LoneInv
<1>2. Human \in Actors /\ run \in [Actors -> Run]
  BY <1>1 DEF Actors, TypeInv, TypeOK
<1>3. ASSUME NEW action \in Acts, Requested(action)
      PROVE  LoneInv'
  <2>1. /\ run'[Human].phase = "fanout" /\ run'[Human].at = 1
        /\ \A a \in Actors : a # Human => run'[a].phase = "idle"
    BY <1>2, <1>3 DEF Requested, Idle, AllIdle
  <2>2. Lone' /\ PassesHold'
    BY <2>1 DEF Lone, PassesHold, Busy
  <2>3. last' # "delete" /\ UNCHANGED <<files, approved>>
    BY <1>3, ActsAssumption DEF Requested
  <2>4. FanOutHolds'
    BY <2>1, <2>3, PodsAssumption DEF FanOutHolds, Pods
  <2> QED  BY <1>1, <2>2, <2>3, <2>4 DEF LoneInv, DeleteSticks, InventsNoTrust
<1>4. ASSUME NEW a \in Passes, StartReconcile(a) \/ StartBackfill(a)
      PROVE  LoneInv'
  <2>1. /\ run'[a].phase \in {"read", "reread"} /\ run'[a].view = Unread
        /\ a \in Actors /\ a # Human
        /\ \A b \in Actors : b # a => run'[b].phase = "idle"
    BY <1>2, <1>4, ActorsAssumption DEF StartReconcile, StartBackfill, Idle, AllIdle, Actors
  <2>2. Lone' /\ FanOutHolds'
    BY <1>2, <2>1 DEF Lone, FanOutHolds
  <2>3. ViewHolds(a)' /\ PlanHolds(a)'
    BY <2>1 DEF ViewHolds, PlanHolds, Unread
  <2>4. PassesHold'
    BY <2>1, <2>3 DEF PassesHold, Busy
  <2>5. UNCHANGED <<files, approved, last>>
    BY <1>4 DEF StartReconcile, StartBackfill
  <2> QED  BY <1>1, <2>2, <2>4, <2>5 DEF LoneInv, DeleteSticks, InventsNoTrust
<1> QED  BY <1>3, <1>4 DEF Begin, cmd_key

\* One pod of the fan-out: an accept approves what it accepts, a delete that
\* reaches the pod empties it.
LEMMA FanOutLoneInv ==
    ASSUME LoneInv, FanOut
    PROVE  LoneInv' /\ run'[Human] # run[Human]
<1> DEFINE y == run[Human]
           p == y.at
           answers == health[p] # "down"
<1>1. TypeInv /\ TypeInv'
  BY FanOutTypeInv DEF LoneInv
<1>2. Human \in Actors /\ run \in [Actors -> Run] /\ files \in [Pods -> Files]
  BY <1>1 DEF Actors, TypeInv, TypeOK
<1>3. y \in Run /\ y.phase = "fanout" /\ p \in Pods /\ files[p] \in Files
  BY <1>1, <1>2 DEF FanOut, TypeInv, AtInRange
<1>4. PICK f \in IF answers THEN Wheel(y.act, files[p]) ELSE {files[p]} :
        LET next == [y EXCEPT !.at = p + 1,
                        !.failed = IF answers THEN @ ELSE @ \cup {p},
                        !.unapplied = IF answers /\ ~key_action_applied(y.act, f)
                                      THEN @ \cup {p} ELSE @]
        IN  /\ files' = [files EXCEPT ![p] = f]
            /\ approved' = IF y.act = "accept" /\ f # files[p]
                           THEN approved \cup {f.accepted} ELSE approved
            /\ run' = [run EXCEPT ![Human] = AfterFanOut(next)]
            /\ last' = IF y.act = "delete" /\ p = N /\ AppliedEverywhere(next)
                       THEN "delete" ELSE last
  BY DEF FanOut
<1> DEFINE F == IF answers THEN y.failed ELSE y.failed \cup {p}
           U == IF answers /\ ~key_action_applied(y.act, f)
                THEN y.unapplied \cup {p} ELSE y.unapplied
           next == [y EXCEPT !.at = p + 1, !.failed = F, !.unapplied = U]
<1>5. /\ files' = [files EXCEPT ![p] = f]
      /\ approved' = IF y.act = "accept" /\ f # files[p]
                     THEN approved \cup {f.accepted} ELSE approved
      /\ run' = [run EXCEPT ![Human] = AfterFanOut(next)]
      /\ last' = IF y.act = "delete" /\ p = N /\ AppliedEverywhere(next)
                 THEN "delete" ELSE last
  BY <1>4
<1>6. next.phase = "fanout" /\ next.at = p + 1 /\ next.act = y.act /\ next.failed = F
      /\ p \in Nat /\ p <= N
  <2>1. p \in Nat /\ p <= N
    BY <1>3, PodsAssumption DEF Pods
  <2> HIDE DEF y, p, F, U
  <2> QED  BY <1>3, <2>1 DEF Run
<1>7. /\ answers /\ y.act = "delete" => f.accepted = NoKey
      /\ \/ f.accepted \in {files[p].accepted, NoKey}
         \/ y.act = "accept" /\ f # files[p]
  <2>1. CASE answers
    <3>1. f \in Wheel(y.act, files[p])
      BY <2>1
    <3> QED  BY <1>3, <3>1, WheelAccepted
  <2>2. CASE ~answers
    <3>1. f = files[p]
      BY <2>2
    <3> QED  BY <2>2, <3>1
  <2> QED  BY <2>1, <2>2
<1>8. \A q \in Pods : q # p => files'[q] = files[q]
  BY <1>2, <1>5
<1>9. files'[p] = f
  BY <1>2, <1>3, <1>5
<1> HIDE DEF y, p, answers, next, F, U
<1>10. InventsNoTrust'
  <2>1. InventsNoTrust
    BY DEF LoneInv
  <2>2. approved \subseteq approved'
    BY <1>5
  <2>3. f.accepted \in approved' \cup {NoKey}
    BY <1>3, <1>5, <1>7, <2>1, <2>2 DEF InventsNoTrust
  <2> QED  BY <1>8, <1>9, <2>1, <2>2, <2>3 DEF InventsNoTrust
<1>11. y.act = "delete" => \A q \in Pods : q < p + 1 /\ q \notin F => files'[q].accepted = NoKey
  <2> SUFFICES ASSUME y.act = "delete", NEW q \in Pods, q < p + 1, q \notin F
               PROVE  files'[q].accepted = NoKey
    OBVIOUS
  <2>1. CASE q = p
    BY <1>7, <1>9, <2>1 DEF F, answers
  <2>2. CASE q # p
    <3>1. q < p /\ q \notin y.failed
      BY <1>6, <2>2, PodsAssumption DEF F, Pods
    <3>2. files[q].accepted = NoKey
      BY <1>3, <3>1 DEF LoneInv, FanOutHolds, y, p
    <3> QED  BY <1>8, <2>2, <3>2
  <2> QED  BY <2>1, <2>2
<1>12. last # "delete"
  BY <1>3 DEF LoneInv, FanOutHolds, y
<1>13. run'[Human] = AfterFanOut(next) /\ \A b \in Actors : b # Human => run'[b] = run[b]
  BY <1>2, <1>5
<1>14. \A b \in Actors : b # Human => run[b].phase = "idle"
  BY <1>2, <1>3 DEF LoneInv, Lone, y
<1>15. CASE p < N
  <2>1. run'[Human] = next
    BY <1>6, <1>13, <1>15, PodsAssumption DEF AfterFanOut
  <2>2. last' # "delete"
    BY <1>5, <1>6, <1>12, <1>15, PodsAssumption
  <2>3. FanOutHolds'
    BY <1>6, <1>11, <2>1, <2>2 DEF FanOutHolds
  <2>4. Lone' /\ PassesHold'
    BY <1>6, <1>13, <1>14, <2>1 DEF Lone, PassesHold, Busy
  <2>5. run'[Human] # run[Human]
    BY <1>6, <2>1 DEF y, p
  <2> QED  BY <1>1, <1>10, <2>2, <2>3, <2>4, <2>5 DEF LoneInv, DeleteSticks
<1>16. CASE p = N
  <2>1. run'[Human] = Idle \/ run'[Human] = [Idle EXCEPT !.phase = "reread"]
    BY <1>6, <1>13, <1>16, PodsAssumption DEF AfterFanOut
  <2>2. run'[Human].phase \in {"idle", "reread"} /\ run'[Human].view = Unread
    BY <2>1 DEF Idle
  <2>3. Lone' /\ FanOutHolds'
    BY <1>13, <1>14, <2>2 DEF Lone, FanOutHolds
  <2>4. ViewHolds(Human)' /\ PlanHolds(Human)'
    BY <2>2 DEF ViewHolds, PlanHolds, Unread
  <2>5. PassesHold'
    <3>1. \A b \in Actors : b # Human => run'[b].phase = "idle"
      BY <1>13, <1>14
    <3> QED  BY <2>4, <3>1 DEF PassesHold, Busy
  <2>6. DeleteSticks'
    <3> SUFFICES ASSUME last' = "delete", NEW q \in Pods
                 PROVE  files'[q].accepted = NoKey
      BY DEF DeleteSticks
    <3>1. y.act = "delete" /\ AppliedEverywhere(next)
      BY <1>5, <1>12
    <3>2. F = {}
      BY <1>6, <3>1 DEF AppliedEverywhere
    <3>3. q < p + 1
      BY <1>6, <1>16, PodsAssumption DEF Pods
    <3> QED  BY <1>11, <3>1, <3>2, <3>3
  <2>7. run'[Human] # run[Human]
    BY <1>3, <2>2 DEF y
  <2> QED  BY <1>1, <1>10, <2>3, <2>5, <2>6, <2>7 DEF LoneInv
<1> QED  BY <1>6, <1>15, <1>16, PodsAssumption

\* What a pass reads of a pod is what is there.
LEMMA PodViewHolds ==
    ASSUME TypeInv, NEW p \in Pods
    PROVE  /\ PodView(p).tab = "accepted" => PodView(p).fp \in {NoKey, files[p].accepted}
           /\ PodView(p).tab = "pending" => PodView(p).fp \in {NoKey, files[p].pending}
<1> DEFINE tab == Tab(files[p])
<1>1. tab = "accepted" => Fingerprint(p, tab) \in {NoKey, files[p].accepted}
  BY DEF Fingerprint
<1>2. tab = "pending" => Fingerprint(p, tab) \in {NoKey, files[p].pending}
  BY DEF Fingerprint
<1> HIDE DEF tab
<1> QED  BY <1>1, <1>2 DEF PodView, tab

\* A key that a pass accepts or copies is accepted on another pod right now.
LEMMA PassGrantsKnown ==
    ASSUME LoneInv, NEW a \in Actors, PassStep(a), NEW p \in Pods,
           files'[p].accepted # files[p].accepted
    PROVE  \E q \in Pods \ {p} : /\ files[q].accepted = files'[p].accepted
                                 /\ files[q].accepted # NoKey
<1> DEFINE y == run[a]
<1> USE DEF saltVars, boundVars
<1>1. y \in Run /\ files \in [Pods -> Files]
  BY DEF LoneInv, TypeInv, TypeOK
<1>2. CASE AcceptPod(a)
  <2> DEFINE r == First(y.todo)
  <2>1. y.phase = "accept" /\ y.todo # {}
    BY <1>2 DEF AcceptPod
  <2>2. r \in y.todo /\ r \in Pods
    BY <1>1, <2>1, FirstIsLeast DEF Run
  <2>3. files' = [files EXCEPT ![r] = IF health[r] = "down" THEN files[r] ELSE WheelAccept(files[r])]
    BY <1>2 DEF AcceptPod
  <2>4. p = r /\ files'[p] = WheelAccept(files[p])
    BY <1>1, <2>2, <2>3
  <2>5. files'[p].accepted = files[p].pending /\ files[p].pending # NoKey
    BY <1>1, <2>4 DEF WheelAccept, Files
  <2>6. ViewHolds(a) /\ PlanHolds(a)
    BY <2>1 DEF LoneInv, PassesHold, Busy
  <2>7. p \in AcceptPlan(y.view) /\ p \in y.todo
    BY <2>1, <2>2, <2>4, <2>6 DEF PlanHolds
  <2>8. PICK q \in Listed(y.view, "accepted") : /\ y.view[q].fp = y.view[p].fp
                                                /\ y.view[p].fp # NoKey
    BY <2>7 DEF AcceptPlan
  <2>9. y.view[p].tab = "pending" /\ y.view[q].tab = "accepted" /\ q \in Pods
    BY <2>7 DEF AcceptPlan, Listed
  <2>10. y.view[p].fp = files[p].pending /\ y.view[q].fp = files[q].accepted
    BY <2>6, <2>7, <2>8, <2>9 DEF ViewHolds
  <2> HIDE DEF y
  <2> QED  BY <2>5, <2>8, <2>9, <2>10
<1>3. CASE CopyKey(a)
  <2> DEFINE r == First(y.todo)
  <2>1. y.phase = "copy" /\ y.todo # {}
    BY <1>3 DEF CopyKey, LoneInv, TypeInv, TypeOK
  <2>2. r \in y.todo /\ r \in Pods
    BY <1>1, <2>1, FirstIsLeast DEF Run
  <2>3. files' = [files EXCEPT ![r].accepted = y.pem]
    BY <1>3 DEF CopyKey
  <2>4. p = r
    BY <1>1, <2>2, <2>3
  <2>5. files'[p].accepted = y.pem
    BY <1>1, <2>2, <2>3, <2>4 DEF Files
  <2>6. PlanHolds(a)
    BY <2>1 DEF LoneInv, PassesHold, Busy
  <2>7. PICK q \in Listed(y.view, "accepted") : files[q].accepted = y.pem /\ y.pem # NoKey
    BY <2>1, <2>6 DEF PlanHolds
  <2>8. p \in Listed(y.view, "absent")
    BY <2>1, <2>2, <2>4, <2>6 DEF PlanHolds
  <2>9. q \in Pods /\ q # p
    BY <2>7, <2>8 DEF Listed
  <2> QED  BY <2>5, <2>7, <2>9
<1>4. CASE ReadPod(a) \/ BeginBackfill(a) \/ ReadPubkey(a) \/ CopyFails(a)
  BY <1>4 DEF ReadPod, BeginBackfill, ReadPubkey, CopyFails
<1> QED  BY <1>2, <1>3, <1>4 DEF PassStep

\* The pass keeps its own view and plan true.
LEMMA PassStepHolds ==
    ASSUME LoneInv, NEW a \in Actors, PassStep(a)
    PROVE  /\ run'[a].phase \in Busy \cup {"idle"}
           /\ run'[a].phase \in Busy => ViewHolds(a)' /\ PlanHolds(a)'
           /\ \A b \in Actors : b # a => run'[b] = run[b]
<1> DEFINE y == run[a]
<1> USE DEF saltVars, boundVars
<1>1. y \in Run /\ files \in [Pods -> Files] /\ run \in [Actors -> Run]
  BY DEF LoneInv, TypeInv, TypeOK
<1>2. y.phase \in Busy => ViewHolds(a) /\ PlanHolds(a)
  BY DEF LoneInv, PassesHold
<1>3. CASE ReadPod(a)
  <2> DEFINE z == [y EXCEPT !.at = y.at + 1, !.view[y.at] = PodView(y.at)]
  <2>1. y.phase \in {"read", "reread"} /\ y.at \in Pods
    BY <1>3 DEF ReadPod, LoneInv, TypeInv, AtInRange
  <2>2. run'[a] = AfterRead(z) /\ \A b \in Actors : b # a => run'[b] = run[b]
    BY <1>1, <1>3 DEF ReadPod
  <2>3. files' = files
    BY <1>3 DEF ReadPod
  <2>4. z.phase = y.phase /\ z.view = [y.view EXCEPT ![y.at] = PodView(y.at)]
    <3> HIDE DEF y
    <3> QED  BY <1>1 DEF Run
  <2>5. \A p \in Pods : z.view[p] = IF p = y.at THEN PodView(p) ELSE y.view[p]
    <3>1. y.view \in [Pods -> View]
      BY <1>1 DEF Run
    <3> HIDE DEF y, z
    <3> QED  BY <2>1, <2>4, <3>1
  <2>6. \A p \in Pods :
          /\ z.view[p].tab = "accepted" => z.view[p].fp \in {NoKey, files[p].accepted}
          /\ z.view[p].tab = "pending" => z.view[p].fp \in {NoKey, files[p].pending}
    <3> TAKE p \in Pods
    <3>1. CASE p = y.at
      BY <2>5, <3>1, PodViewHolds DEF LoneInv
    <3>2. CASE p # y.at
      BY <1>2, <2>1, <2>5, <3>2 DEF ViewHolds, Busy
    <3> QED  BY <3>1, <3>2
  <2>7. z \in Run
    <3>1. PodView(y.at) \in View
      BY <2>1, PodViewType DEF LoneInv, TypeInv
    <3>2. y.at + 1 \in 1..N + 1
      BY <2>1, PodsAssumption DEF Pods
    <3> HIDE DEF y
    <3> QED  BY <1>1, <2>1, <3>1, <3>2 DEF Run
  <2> HIDE DEF z, y
  <2>8. \/ AfterRead(z) = z
        \/ AfterRead(z) = Idle
        \/ AfterRead(z) = [z EXCEPT !.phase = "accept", !.todo = AcceptPlan(z.view)]
        \/ AfterRead(z) = [z EXCEPT !.phase = "print", !.todo = CopyPlan(z.view)]
    BY DEF AfterRead
  <2>9. CASE AfterRead(z) = z
    <3>1. run'[a].view = z.view /\ run'[a].phase \in {"read", "reread"}
      BY <2>1, <2>2, <2>4, <2>9
    <3>2. ViewHolds(a)' /\ PlanHolds(a)'
      BY <2>3, <2>6, <3>1 DEF ViewHolds, PlanHolds
    <3> QED  BY <2>2, <3>1, <3>2 DEF Busy
  <2>10. CASE AfterRead(z) = Idle
    BY <2>2, <2>10 DEF Idle, Busy
  <2>11. CASE AfterRead(z) = [z EXCEPT !.phase = "accept", !.todo = AcceptPlan(z.view)]
    <3>1. /\ run'[a].view = z.view /\ run'[a].phase = "accept"
          /\ run'[a].todo = AcceptPlan(z.view)
      BY <2>2, <2>7, <2>11 DEF Run
    <3>2. ViewHolds(a)' /\ PlanHolds(a)'
      BY <2>3, <2>6, <3>1 DEF ViewHolds, PlanHolds
    <3> QED  BY <2>2, <3>1, <3>2 DEF Busy
  <2>12. CASE AfterRead(z) = [z EXCEPT !.phase = "print", !.todo = CopyPlan(z.view)]
    <3>1. /\ run'[a].view = z.view /\ run'[a].phase = "print"
          /\ run'[a].todo = CopyPlan(z.view)
      BY <2>2, <2>7, <2>12 DEF Run
    <3>2. CopyPlan(z.view) \subseteq Listed(z.view, "absent")
      BY DEF CopyPlan
    <3>3. ViewHolds(a)' /\ PlanHolds(a)'
      BY <2>3, <2>6, <3>1, <3>2 DEF ViewHolds, PlanHolds
    <3> QED  BY <2>2, <3>1, <3>3 DEF Busy
  <2> QED  BY <2>8, <2>9, <2>10, <2>11, <2>12
<1>4. CASE AcceptPod(a)
  <2> DEFINE r == First(y.todo)
  <2>1. y.phase = "accept" /\ y.todo # {}
    BY <1>4 DEF AcceptPod
  <2>2. r \in y.todo /\ r \in Pods
    BY <1>1, <2>1, FirstIsLeast DEF Run
  <2>3. /\ run'[a].phase = "accept" /\ run'[a].view = y.view
        /\ run'[a].todo = y.todo \ {r}
        /\ \A b \in Actors : b # a => run'[b] = run[b]
    BY <1>1, <1>4, <2>1 DEF AcceptPod, Run
  <2>4. \A q \in Pods : q # r => files'[q] = files[q]
    BY <1>1, <1>4 DEF AcceptPod
  <2>5. ViewHolds(a) /\ PlanHolds(a)
    BY <1>2, <2>1 DEF Busy
  <2>6. y.view[r].tab = "pending"
    BY <2>1, <2>2, <2>5 DEF PlanHolds, AcceptPlan, Listed
  <2> HIDE DEF r, y
  <2>7. ViewHolds(a)'
    <3> SUFFICES ASSUME NEW p \in Pods
                 PROVE  /\ y.view[p].tab = "accepted"
                              => y.view[p].fp \in {NoKey, files'[p].accepted}
                        /\ y.view[p].tab = "pending" /\ p \in y.todo \ {r}
                              => y.view[p].fp \in {NoKey, files'[p].pending}
      BY <2>3 DEF ViewHolds
    <3>1. CASE p = r
      BY <2>6, <3>1
    <3>2. CASE p # r
      BY <2>1, <2>4, <2>5, <3>2 DEF ViewHolds, y
    <3> QED  BY <3>1, <3>2
  <2>8. PlanHolds(a)'
    BY <2>1, <2>3, <2>5 DEF PlanHolds, y
  <2> QED  BY <2>3, <2>7, <2>8 DEF Busy
<1>5. CASE BeginBackfill(a)
  <2>1. /\ run'[a].phase = "reread" /\ run'[a].view = Unread
        /\ \A b \in Actors : b # a => run'[b] = run[b]
    BY <1>1, <1>5 DEF BeginBackfill, Idle
  <2>2. ViewHolds(a)' /\ PlanHolds(a)'
    BY <2>1 DEF ViewHolds, PlanHolds, Unread
  <2> QED  BY <2>1, <2>2 DEF Busy
<1>6. CASE ReadPubkey(a)
  <2> DEFINE S == Listed(y.view, "accepted")
             pem == files[First(S)].accepted
  <2>1. y.phase = "print" /\ UNCHANGED files
    BY <1>6 DEF ReadPubkey
  <2>2. First(S) \in S
    <3>1. S # {} /\ S \in SUBSET Pods
      BY <2>1 DEF LoneInv, TypeInv, HasSource, Listed
    <3> HIDE DEF S
    <3> QED  BY <3>1, FirstIsLeast
  <2>3. ViewHolds(a) /\ PlanHolds(a)
    BY <1>2, <2>1 DEF Busy
  <2>4. \A b \in Actors : b # a => run'[b] = run[b]
    BY <1>1, <1>6 DEF ReadPubkey
  <2>5. CASE run'[a] = Idle
    BY <2>4, <2>5 DEF Idle, Busy
  <2>6. CASE run'[a] # Idle
    <3>1. run'[a] = [y EXCEPT !.phase = "copy", !.pem = pem] /\ pem # NoKey
      BY <1>1, <1>6, <2>6 DEF ReadPubkey
    <3>2. /\ run'[a].phase = "copy" /\ run'[a].pem = pem
          /\ run'[a].view = y.view /\ run'[a].todo = y.todo
      <4> HIDE DEF pem
      <4> QED  BY <1>1, <3>1 DEF Run
    <3>3. ViewHolds(a)'
      BY <2>1, <2>3, <3>2 DEF ViewHolds
    <3>4. PlanHolds(a)'
      BY <2>1, <2>2, <2>3, <3>1, <3>2 DEF PlanHolds
    <3> QED  BY <2>4, <3>2, <3>3, <3>4 DEF Busy
  <2> QED  BY <2>5, <2>6
<1>7. CASE CopyKey(a) \/ CopyFails(a)
  <2> DEFINE r == First(y.todo)
  <2>1. y.phase = "copy" /\ y.todo # {}
    BY <1>7 DEF CopyKey, CopyFails, LoneInv, TypeInv, TypeOK
  <2>2. r \in y.todo /\ r \in Pods
    BY <1>1, <2>1, FirstIsLeast DEF Run
  <2>3. ViewHolds(a) /\ PlanHolds(a)
    BY <1>2, <2>1 DEF Busy
  <2>4. y.view[r].tab = "absent"
    BY <2>1, <2>2, <2>3 DEF PlanHolds, Listed
  <2>5. run' = [run EXCEPT ![a] = IF y.todo = {r} THEN Idle ELSE [y EXCEPT !.todo = @ \ {r}]]
    BY <1>7 DEF CopyKey, CopyFails, Copied
  <2>6. \A q \in Pods : q # r => files'[q] = files[q]
    BY <1>1, <1>7 DEF CopyKey, CopyFails
  <2>7. \A b \in Actors : b # a => run'[b] = run[b]
    BY <1>1, <2>5
  <2>8. CASE y.todo = {r}
    BY <1>1, <2>5, <2>7, <2>8 DEF Idle, Busy
  <2>9. CASE y.todo # {r}
    <3>1. /\ run'[a].phase = "copy" /\ run'[a].pem = y.pem
          /\ run'[a].view = y.view /\ run'[a].todo = y.todo \ {r}
      <4>1. run'[a] = [y EXCEPT !.todo = @ \ {r}]
        BY <1>1, <2>5, <2>9
      <4> HIDE DEF y, r
      <4> QED  BY <1>1, <2>1, <4>1 DEF Run
    <3> HIDE DEF y, r
    <3>2. ViewHolds(a)'
      <4> SUFFICES ASSUME NEW p \in Pods
                   PROVE  /\ y.view[p].tab = "accepted"
                                => y.view[p].fp \in {NoKey, files'[p].accepted}
                          /\ y.view[p].tab = "pending"
                                => y.view[p].fp \in {NoKey, files'[p].pending}
        BY <3>1 DEF ViewHolds
      <4>1. CASE p = r
        BY <2>4, <4>1
      <4>2. CASE p # r
        BY <2>1, <2>3, <2>6, <4>2 DEF ViewHolds, y
      <4> QED  BY <4>1, <4>2
    <3>3. PlanHolds(a)'
      <4>1. PICK q \in Listed(y.view, "accepted") : files[q].accepted = y.pem /\ y.pem # NoKey
        BY <2>1, <2>3 DEF PlanHolds, y
      <4>2. q \in Pods /\ q # r
        BY <2>4, <4>1 DEF Listed
      <4>3. files'[q].accepted = y.pem
        BY <2>6, <4>1, <4>2
      <4>4. y.todo \subseteq Listed(y.view, "absent")
        BY <2>1, <2>3 DEF PlanHolds, y
      <4> QED  BY <3>1, <4>1, <4>3, <4>4 DEF PlanHolds
    <3> QED  BY <2>7, <3>1, <3>2, <3>3 DEF Busy
  <2> QED  BY <2>8, <2>9
<1> QED  BY <1>3, <1>4, <1>5, <1>6, <1>7 DEF PassStep

LEMMA PassStepLoneInv ==
    ASSUME LoneInv, NEW a \in Actors, PassStep(a)
    PROVE  LoneInv'
<1>1. TypeInv'
  BY PassStepTypeInv DEF LoneInv
<1>2. run[a].phase \in Busy
  BY DEF PassStep, ReadPod, AcceptPod, BeginBackfill, ReadPubkey, CopyKey, CopyFails, Busy
<1>3. \A b \in Actors : b # a => run[b].phase = "idle"
  BY <1>2 DEF LoneInv, Lone, Busy
<1>4. /\ run'[a].phase \in Busy \cup {"idle"}
      /\ run'[a].phase \in Busy => ViewHolds(a)' /\ PlanHolds(a)'
      /\ \A b \in Actors : b # a => run'[b] = run[b]
  BY PassStepHolds
<1>5. \A b \in Actors : b # a => run'[b].phase = "idle"
  BY <1>3, <1>4
<1>6. Lone' /\ PassesHold'
  BY <1>4, <1>5 DEF Lone, PassesHold, Busy
<1>7. FanOutHolds'
  <2>1. Human \in Actors
    BY DEF Actors
  <2>2. run'[Human].phase # "fanout"
    BY <1>4, <1>5, <2>1 DEF Busy
  <2> QED  BY <2>2 DEF FanOutHolds
<1>8. UNCHANGED <<approved, last>>
  BY DEF PassStep, ReadPod, AcceptPod, BeginBackfill, ReadPubkey, CopyKey, CopyFails
<1>9. \A p \in Pods : \/ files'[p].accepted = files[p].accepted
                      \/ \E q \in Pods : /\ files[q].accepted = files'[p].accepted
                                         /\ files[q].accepted # NoKey
  BY PassGrantsKnown
<1>10. DeleteSticks' /\ InventsNoTrust'
  BY <1>8, <1>9 DEF LoneInv, DeleteSticks, InventsNoTrust
<1> QED  BY <1>1, <1>6, <1>7, <1>10 DEF LoneInv

LEMMA OneAtATimeLoneInv == LoneInv /\ [OneAtATime]_vars => LoneInv'
<1>1. ASSUME LoneInv, UNCHANGED vars
      PROVE  LoneInv'
  <2>1. TypeInv'
    BY <1>1, StutterTypeInv DEF LoneInv
  <2>2. UNCHANGED <<files, run, approved, last>>
    BY <1>1 DEF vars, saltVars
  <2> QED  BY <1>1, <2>1, <2>2 DEF LoneInv, Lone, PassesHold, ViewHolds, PlanHolds,
             FanOutHolds, DeleteSticks, InventsNoTrust
<1> QED  BY <1>1, EnvironmentLoneInv, StartLoneInv, FanOutLoneInv, PassStepLoneInv
         DEF OneAtATime, Work

\* A delete that every pod applied stays, for any number of pods: passes that
\* run later find no pod to take trust from, whatever the minion presents and
\* whichever pods fail meanwhile.
THEOREM DeletedKeysStayDeleted == LoneSpec => []DeleteSticks
<1>1. Init => LoneInv
  BY InitLoneInv
<1>2. LoneInv /\ [OneAtATime]_vars => LoneInv'
  BY OneAtATimeLoneInv
<1>3. LoneInv => DeleteSticks
  BY DEF LoneInv
<1> QED  BY <1>1, <1>2, <1>3, PTL DEF LoneSpec

\* "Never invents trust" (reconcile_cli) holds when requests and passes do
\* not overlap: every key a pod accepts was moved there by an operator's
\* accept on some pod.
THEOREM LonePassesInventNoTrust == LoneSpec => []InventsNoTrust
<1>1. Init => LoneInv
  BY InitLoneInv
<1>2. LoneInv /\ [OneAtATime]_vars => LoneInv'
  BY OneAtATimeLoneInv
<1>3. LoneInv => InventsNoTrust
  BY DEF LoneInv
<1> QED  BY <1>1, <1>2, <1>3, PTL DEF LoneSpec

\* The key that automation grants on a pod is accepted on another pod at that
\* moment: between a pass's read and its write nothing replaces a key it
\* compared.
THEOREM AutomationCompletesTrust == LoneSpec => SameTrust
<1> DEFINE Known == \A p \in Pods : Grants(p) =>
                      \E q \in Pods \ {p} : files[q].accepted = files'[p].accepted
<1>1. Init => LoneInv
  BY InitLoneInv
<1>2. LoneInv /\ [OneAtATime]_vars => LoneInv'
  BY OneAtATimeLoneInv
<1>3. ASSUME LoneInv, [OneAtATime]_vars
      PROVE  [Known]_vars
  <2>1. CASE UNCHANGED vars
    BY <2>1
  <2>2. CASE FanOut
    BY <1>3, <2>2, FanOutLoneInv DEF Grants, FanOut
  <2>3. ASSUME NEW a \in Actors, PassStep(a)
        PROVE  Known
    BY <1>3, <2>3, PassGrantsKnown DEF Grants
  <2>4. CASE Environment
    BY <1>3, <2>4, EnvironmentFiles DEF Grants, LoneInv
  <2>5. CASE \/ \E action \in Acts : Begin(action) \/ cmd_key(action)
             \/ \E a \in Passes : StartReconcile(a) \/ StartBackfill(a)
    BY <2>5 DEF Begin, cmd_key, Requested, StartReconcile, StartBackfill, saltVars, Grants
  <2> QED  BY <1>3, <2>1, <2>2, <2>3, <2>4, <2>5 DEF OneAtATime, Work
<1>4. LoneInv /\ [OneAtATime]_vars => [Known]_vars
  BY <1>3
<1> QED  BY <1>1, <1>2, <1>4, PTL DEF LoneSpec, SameTrust
=============================================================================
