---------------------------- MODULE GitSyncProofs ----------------------------
(***************************************************************************)
(* Proofs about GitSync, for every set of remotes and formulas and every   *)
(* bound on the versions and the requests: the type invariant, that a save *)
(* commits what it wrote, that no unpushed commit is lost unforced, and    *)
(* that a cleaning reset keeps the formulas.                               *)
(***************************************************************************)
EXTENDS GitSync, FiniteSets, WellFoundedInduction, TLAPS

-----------------------------------------------------------------------------
(* The inductive invariant.                                                *)

Procs == {"web", "cron"}

Requests ==
    {"none", "sync", "sync_now", "cron", "save", "push", "reset", "reclone", "clone",
     "set_remote", "add", "update", "remove", "re_vendor"}

RequestType ==
    [op: Requests, pc: Labels, force: BOOLEAN, clean: BOOLEAN, url: Remotes,
     f: Formulas \cup {NoFormula}, todo: SUBSET Formulas, hist: SUBSET Nat, v: Nat,
     retry: BOOLEAN, blind: BOOLEAN]

\* Which request is at which label, and that a formula's steps have a formula.
Placed(r) ==
    /\ r.pc = "pull" => r.op \in Syncs
    /\ r.pc \in {"success", "warning", "failed"} => r.op \in Syncs
    /\ r.pc = "refresh" =>
          r.op \in Syncs \cup {"save", "reset", "add", "update", "remove", "clone", "reclone"}
    /\ r.pc = "ahead" => r.op \in {"reset", "reclone", "set_remote"}
    /\ r.pc \in {"write", "add", "commit"} => r.op = "save"
    /\ r.pc \in {"reset", "clean"} => r.op = "reset"
    /\ r.pc \in {"stage", "clear", "install"} => r.op \in {"clone", "reclone"}
    /\ r.pc = "revendor" => r.op \in Loops
    /\ r.pc \in {"fclone", "finstall"} => r.op \in Loops \cup {"add", "update"}
    /\ r.pc = "fdrop" => r.op \in {"update", "remove"}
    /\ r.pc = "exclude" => r.op \in Loops \cup {"add", "update", "remove"}
    /\ r.pc = "row" => r.op = "add"
    /\ r.pc \in {"fclone", "fdrop", "finstall", "exclude", "row"} => r.f \in Formulas

\* The scheduled run is at no label but those of a sync.
CronSyncs == req["cron"].pc \in {"idle", "pull", "refresh", "success", "warning", "failed"}

ReqOK == req \in [Procs -> RequestType] /\ (\A p \in Procs : Placed(req[p])) /\ CronSyncs

\* No version is known anywhere before it is written.
Known ==
    /\ last \in 1..MaxVersions[subject]
    /\ up \in [Remotes -> SUBSET (1..last)]
    /\ head \subseteq 1..last /\ track \subseteq 1..last
    /\ index \in 0..last /\ disk \in 0..last
    /\ \A p \in Procs : req[p].hist \subseteq 1..last /\ req[p].v \in 0..last

StateOK ==
    /\ git \in BOOLEAN /\ rest \in BOOLEAN /\ served \in BOOLEAN /\ cut \in BOOLEAN
    /\ locked \in BOOLEAN
    /\ origin \in Remotes
    /\ excl \subseteq Formulas /\ tree \subseteq Formulas /\ rows \subseteq Formulas
    /\ status \in Statuses
    /\ subject \in Subjects /\ asked \in 0..MaxRequests[subject]

\* A checkout that is gone has no commits; a clone and the end of a re-clone have none.
GoneIsEmpty ==
    /\ ~git => head = {}
    /\ req["web"].pc \in {"ahead", "reset", "clean"} => git
    /\ req["web"].pc = "install" => ~git
    /\ req["web"].op = "clone" /\ req["web"].pc \in {"stage", "clear"} => ~git

\* The edit under way is on disk, and no commit has it.
EditStands ==
    /\ req["web"].pc \in {"add", "commit"} =>
          disk = req["web"].v /\ disk # 0 /\ disk \notin head
    /\ req["web"].pc = "add" => index # disk
    /\ req["web"].pc = "commit" => index = disk

\* Past the check of _ahead_count, an unforced request that saw the checkout finds
\* nothing unpushed.
NothingAhead ==
    /\ req["web"].pc = "reset" /\ ~req["web"].force /\ ~req["web"].blind
          => head \subseteq up[origin]
    /\ req["web"].pc \in {"stage", "clear"} /\ ~req["web"].force /\ ~req["web"].blind
          => head \subseteq up[origin]

\* git ignores every formula that is installed to the end, and a fresh .git finds
\* none there.
VendoredExcluded ==
    /\ req["web"].pc = "install" => tree = {} /\ disk = 0
    /\ req["web"].pc = "exclude" /\ req["web"].op = "remove" => req["web"].f \notin vendored
    /\ req["web"].pc = "exclude" /\ req["web"].op # "remove" => req["web"].f \in tree
    /\ vendored \subseteq tree
    /\ git => vendored \subseteq excl

IInv ==
    /\ ReqOK /\ Known /\ StateOK
    /\ GoneIsEmpty /\ EditStands /\ NothingAhead /\ VendoredExcluded

-----------------------------------------------------------------------------
(* Lemmas about the operators of the model.                                *)

\* A bounded set of numbers that is not empty has a greatest one.
LEMMA GreatestExists ==
    ASSUME NEW n \in Nat, NEW S, S \subseteq 0..n, S # {}
    PROVE  \E x \in S : \A y \in S : x >= y
<1> DEFINE Bounds == {b \in Nat : \A y \in S : y <= b}
           Less == OpToRel(<, Nat)
<1>1. n \in Bounds
  OBVIOUS
<1>2. PICK b \in Bounds : \A c \in Bounds : <<c, b>> \notin Less
  <2> HIDE DEF Less
  <2>1. IsWellFoundedOn(Less, Nat)
    BY NatLessThanWellFounded, Zenon DEF Less
  <2>2. Bounds \subseteq Nat /\ Bounds # {}
    BY <1>1
  <2> HIDE DEF Bounds
  <2> QED
    BY <2>1, <2>2, WFMin
<1>3. \A c \in Bounds : ~(c < b)
  BY <1>2 DEF OpToRel
<1>4. b \in S
  <2> SUFFICES ASSUME b \notin S PROVE FALSE
    OBVIOUS
  <2>1. b # 0
    <3> SUFFICES ASSUME b = 0 PROVE FALSE
      OBVIOUS
    <3>1. PICK y \in S : TRUE
      OBVIOUS
    <3> QED
      BY <3>1
  <2>2. b - 1 \in Bounds
    BY <2>1
  <2> QED
    BY <1>3, <2>2, <2>1
<1> QED
  BY <1>4

\* The tip of a history is one of its versions, or 0.
LEMMA TipIn ==
    ASSUME NEW n \in Nat, NEW h, h \subseteq 1..n
    PROVE  Tip(h) \in h \cup {0} /\ Tip(h) \in 0..n
<1> DEFINE S == h \cup {0}
<1>1. S \subseteq 0..n /\ S # {}
  OBVIOUS
<1>2. \E x \in S : \A y \in S : x >= y
  <2> HIDE DEF S
  <2> QED BY <1>1, GreatestExists
<1>3. Max(S) \in S
  BY <1>2 DEF Max
<1> QED
  BY <1>1, <1>3 DEF Tip

LEMMA GotoFacts ==
    ASSUME req \in [Procs -> RequestType], NEW p \in Procs, NEW label \in Labels,
           Goto(p, label)
    PROVE  /\ req' \in [Procs -> RequestType]
           /\ \A q \in Procs : q # p => req'[q] = req[q]
           /\ req'[p].pc = label
           /\ req'[p].op = req[p].op /\ req'[p].force = req[p].force
           /\ req'[p].clean = req[p].clean /\ req'[p].url = req[p].url
           /\ req'[p].f = req[p].f /\ req'[p].todo = req[p].todo
           /\ req'[p].hist = req[p].hist /\ req'[p].v = req[p].v
           /\ req'[p].retry = req[p].retry /\ req'[p].blind = req[p].blind
BY DEF Goto, RequestType

LEMMA IdleFacts ==
    /\ Idle \in RequestType /\ Placed(Idle)
    /\ Idle.op = "none" /\ Idle.pc = "idle" /\ Idle.hist = {} /\ Idle.v = 0
BY RemotesAssumption DEF Idle, RequestType, Placed, Requests, Labels

LEMMA EndFacts ==
    ASSUME req \in [Procs -> RequestType], NEW p \in Procs, End(p)
    PROVE  /\ req' \in [Procs -> RequestType]
           /\ \A q \in Procs : q # p => req'[q] = req[q]
           /\ req'[p] = Idle
BY IdleFacts DEF End

LEMMA RequestFacts ==
    ASSUME NEW op \in Requests, NEW label \in Labels
    PROVE  /\ Request(op, label) \in RequestType
           /\ Request(op, label).op = op /\ Request(op, label).pc = label
           /\ Request(op, label).hist = {} /\ Request(op, label).v = 0
<1>1. Request(op, label) \in RequestType
  BY IdleFacts DEF Request, RequestType
<1>2. Request(op, label).op = op /\ Request(op, label).pc = label
  BY DEF Request, Idle
<1>3. /\ Request(op, label).hist = {} /\ Request(op, label).v = 0
  BY DEF Request, Idle
<1> QED
  BY <1>1, <1>2, <1>3

\* The arguments of a request.
LEMMA RetryFacts ==
    ASSUME NEW q \in RequestType, NEW b \in BOOLEAN
    PROVE  LET r == [q EXCEPT !.retry = b]
           IN  /\ r \in RequestType /\ r.op = q.op /\ r.pc = q.pc
               /\ r.hist = q.hist /\ r.v = q.v
BY DEF RequestType

LEMMA ResetFacts ==
    ASSUME NEW q \in RequestType, NEW b \in BOOLEAN, NEW c \in BOOLEAN
    PROVE  LET r == [q EXCEPT !.force = b, !.clean = c]
           IN  /\ r \in RequestType /\ r.op = q.op /\ r.pc = q.pc
               /\ r.hist = q.hist /\ r.v = q.v
BY DEF RequestType

LEMMA UrlFacts ==
    ASSUME NEW q \in RequestType, NEW url \in Remotes
    PROVE  LET r == [q EXCEPT !.url = url]
           IN  /\ r \in RequestType /\ r.op = q.op /\ r.pc = q.pc
               /\ r.hist = q.hist /\ r.v = q.v
BY DEF RequestType

LEMMA TodoFacts ==
    ASSUME NEW q \in RequestType, NEW todo \in SUBSET Formulas
    PROVE  LET r == [q EXCEPT !.todo = todo]
           IN  /\ r \in RequestType /\ r.op = q.op /\ r.pc = q.pc
               /\ r.hist = q.hist /\ r.v = q.v
BY DEF RequestType

LEMMA FormulaFacts ==
    ASSUME NEW q \in RequestType, NEW f \in Formulas
    PROVE  LET r == [q EXCEPT !.f = f]
           IN  /\ r \in RequestType /\ r.op = q.op /\ r.pc = q.pc
               /\ r.hist = q.hist /\ r.v = q.v /\ r.f = f
BY DEF RequestType

LEMMA RemoteKnown ==
    ASSUME Known, StateOK
    PROVE  Remote \subseteq 1..last /\ last \in Nat /\ MaxVersions[subject] \in Nat
           /\ last <= MaxVersions[subject] /\ 0..last \subseteq 0..MaxVersions[subject]
BY BoundsAssumption DEF Known, StateOK, Remote

-----------------------------------------------------------------------------
(* Every step keeps the invariant.                                         *)

\* A request that comes in, not yet at a label the invariant constrains but for
\* the start of a clone.
LEMMA AskKeeps ==
    ASSUME IInv, NEW r \in RequestType, Ask(r), Placed(r), r.hist = {}, r.v = 0,
           r.pc \notin {"add", "commit", "install", "exclude", "reset", "clean", "clear"},
           r.pc = "stage" => /\ r.op = "clone" => ~git
                             /\ ~r.force /\ ~r.blind => head \subseteq up[origin],
           r.pc = "ahead" => git,
           UNCHANGED <<up, git, origin, head, index, excl, locked, srvVars, status, served>>,
           track' \subseteq 1..last, rows' \subseteq Formulas
    PROVE  IInv'
<1> USE DEF Procs
<1>1. /\ req["web"] = Idle /\ req' \in [Procs -> RequestType]
      /\ req'["web"] = r /\ req'["cron"] = req["cron"]
      /\ UNCHANGED <<subject, last, cut>> /\ asked' \in 0..MaxRequests[subject]
  <2>1. MaxRequests[subject] \in Nat /\ asked \in Nat
    BY BoundsAssumption DEF IInv, StateOK
  <2> QED
    BY <2>1 DEF Ask, IInv, ReqOK, StateOK
<1>2. ReqOK'
  BY <1>1 DEF IInv, ReqOK, CronSyncs, Placed
<1>3. Known'
  BY <1>1 DEF IInv, Known, srvVars
<1>4. StateOK'
  BY <1>1 DEF IInv, StateOK, srvVars
<1>5. GoneIsEmpty' /\ EditStands' /\ NothingAhead'
  BY <1>1 DEF IInv, GoneIsEmpty, EditStands, NothingAhead, srvVars
<1>6. VendoredExcluded'
  BY <1>1, IdleFacts DEF IInv, VendoredExcluded, srvVars
<1> QED
  BY <1>2, <1>3, <1>4, <1>5, <1>6 DEF IInv

\* The requests of the Files page, the repo controls and the Formulas page.
LEMMA RequestKeeps ==
    ASSUME IInv, FileRequest \/ RepoRequest \/ FormulaRequest
    PROVE  IInv'
<1> USE DEF Procs
<1>1. /\ {"sync", "sync_now", "save", "push", "reset", "reclone", "clone", "set_remote",
          "add", "update", "remove", "re_vendor", "cron"} \subseteq Requests
      /\ {"pull", "write", "send", "ahead", "stage", "fclone", "fdrop", "unrow",
          "revendor"} \subseteq Labels
  BY DEF Requests, Labels
<1>2. Remote \subseteq 1..last /\ track \subseteq 1..last /\ rows \subseteq Formulas
  BY RemoteKnown DEF IInv, Known, StateOK
<1>3. ASSUME NEW op \in {"sync", "sync_now"}, Sync(op) PROVE IInv'
  <2> DEFINE r == [Request(op, "pull") EXCEPT !.retry = (status = "warning")]
  <2>1. r \in RequestType /\ r.op = op /\ r.pc = "pull" /\ r.hist = {} /\ r.v = 0
    <3>1. (status = "warning") \in BOOLEAN
      OBVIOUS
    <3>2. op \in Requests /\ "pull" \in Labels
      BY <1>1
    <3> DEFINE q == Request(op, "pull")
    <3>3. q \in RequestType /\ q.op = op /\ q.pc = "pull" /\ q.hist = {} /\ q.v = 0
      BY <3>2, RequestFacts
    <3> HIDE DEF q
    <3>4. r = [q EXCEPT !.retry = (status = "warning")]
      BY DEF q
    <3> HIDE DEF r
    <3> QED
      BY <3>1, <3>3, <3>4, RetryFacts
  <2> HIDE DEF r
  <2>2. Placed(r)
    BY <2>1 DEF Placed, Syncs
  <2>3. Ask(r) /\ UNCHANGED <<up, gitVars, srvVars, dbVars, served>>
    BY <1>3 DEF Sync, r
  <2> QED
    BY <2>1, <2>2, <2>3, <1>2, AskKeeps DEF gitVars, dbVars
<1>4. ASSUME Save \/ Push PROVE IInv'
  <2> PICK r \in {Request("save", "write"), Request("push", "send")} :
          Ask(r) /\ UNCHANGED <<up, gitVars, srvVars, dbVars, served>>
    BY <1>4 DEF Save, Push
  <2>1. /\ r \in RequestType /\ r.hist = {} /\ r.v = 0
        /\ \/ r.op = "save" /\ r.pc = "write"
           \/ r.op = "push" /\ r.pc = "send"
    BY <1>1, RequestFacts
  <2>2. Placed(r)
    BY <2>1 DEF Placed
  <2> QED
    BY <2>1, <2>2, <1>2, AskKeeps DEF gitVars, dbVars
<1>5. ASSUME Fetch PROVE IInv'
  BY <1>5, <1>2, IdleFacts, AskKeeps DEF Fetch, dbVars
<1>6. ASSUME NEW force \in BOOLEAN, NEW clean \in BOOLEAN, Reset(force, clean) PROVE IInv'
  <2> DEFINE r == [Request("reset", "ahead") EXCEPT !.force = force, !.clean = clean]
  <2>1. r \in RequestType /\ r.op = "reset" /\ r.pc = "ahead" /\ r.hist = {} /\ r.v = 0
    <3> DEFINE q == Request("reset", "ahead")
    <3>1. q \in RequestType /\ q.op = "reset" /\ q.pc = "ahead" /\ q.hist = {} /\ q.v = 0
      BY <1>1, RequestFacts
    <3> HIDE DEF q
    <3>2. r = [q EXCEPT !.force = force, !.clean = clean]
      BY DEF q
    <3> HIDE DEF r
    <3> QED
      BY <1>1, ResetFacts, <3>1, <3>2
  <2> HIDE DEF r
  <2>2. Placed(r)
    BY <2>1 DEF Placed
  <2>3. Ask(r) /\ git /\ UNCHANGED <<up, gitVars, srvVars, dbVars, served>>
    BY <1>6 DEF Reset, r
  <2> QED
    BY <2>1, <2>2, <2>3, <1>2, AskKeeps DEF gitVars, dbVars
<1>7. ASSUME NEW url \in Remotes, NEW force \in BOOLEAN, NEW seen \in BOOLEAN,
             Reclone(url, force, seen)
      PROVE  IInv'
  <2> DEFINE label == IF git /\ seen /\ ~force THEN "ahead" ELSE "stage"
             blind == git /\ ~seen /\ ~force
             r == [Request("reclone", label) EXCEPT !.url = url, !.force = force,
                                                    !.blind = blind]
  <2>1. /\ label \in {"ahead", "stage"} /\ (label = "stage" /\ ~force /\ ~blind => ~git)
        /\ (label = "ahead" => git)
    OBVIOUS
  <2>2. Ask(r) /\ UNCHANGED <<up, gitVars, srvVars, dbVars, served>>
    BY <1>7 DEF Reclone
  <2>3. blind \in BOOLEAN
    BY DEF IInv, StateOK
  <2> HIDE DEF label, blind
  <2>4. /\ r \in RequestType /\ r.op = "reclone" /\ r.pc = label /\ r.hist = {} /\ r.v = 0
        /\ r.force = force /\ r.blind = blind
    <3> DEFINE q == Request("reclone", label)
    <3>1. q \in RequestType /\ q.op = "reclone" /\ q.pc = label /\ q.hist = {} /\ q.v = 0
      BY <1>1, RequestFacts, <2>1
    <3> HIDE DEF q
    <3>2. r = [q EXCEPT !.url = url, !.force = force, !.blind = blind]
      BY DEF q
    <3> HIDE DEF r
    <3>3. r \in RequestType /\ r.op = q.op /\ r.pc = q.pc /\ r.hist = q.hist /\ r.v = q.v
      BY <3>1, <3>2, <2>3 DEF RequestType
    <3>4. r.force = force /\ r.blind = blind
      BY <3>1, <3>2 DEF RequestType
    <3> QED
      BY <3>1, <3>3, <3>4
  <2> HIDE DEF r
  <2>5. Placed(r)
    BY <2>1, <2>4 DEF Placed
  <2>6. r.pc = "stage" => (~r.force /\ ~r.blind => head \subseteq up[origin])
    BY <2>1, <2>4 DEF IInv, GoneIsEmpty
  <2> QED
    BY <2>1, <2>2, <2>4, <2>5, <2>6, <1>2, AskKeeps DEF gitVars, dbVars
<1>8. ASSUME NEW url \in Remotes, NEW replace \in BOOLEAN, Clone(url, replace) PROVE IInv'
  <2> DEFINE r == [Request("clone", "stage") EXCEPT !.url = url]
  <2>1. r \in RequestType /\ r.op = "clone" /\ r.pc = "stage" /\ r.hist = {} /\ r.v = 0
    BY <1>1, RequestFacts, UrlFacts
  <2> HIDE DEF r
  <2>2. Placed(r)
    BY <2>1 DEF Placed
  <2>3. Ask(r) /\ ~git /\ UNCHANGED <<up, gitVars, srvVars, dbVars, served>>
    BY <1>8 DEF Clone, r
  <2>4. head \subseteq up[origin]
    BY <2>3 DEF IInv, GoneIsEmpty
  <2> QED
    BY <2>1, <2>2, <2>3, <2>4, <1>2, AskKeeps DEF gitVars, dbVars
<1>9. ASSUME NEW url \in Remotes, SetRemote(url) PROVE IInv'
  <2> DEFINE r == [Request("set_remote", "ahead") EXCEPT !.url = url]
  <2>1. r \in RequestType /\ r.op = "set_remote" /\ r.pc = "ahead" /\ r.hist = {} /\ r.v = 0
    BY <1>1, RequestFacts, UrlFacts
  <2> HIDE DEF r
  <2>2. Placed(r)
    BY <2>1 DEF Placed
  <2>3. Ask(r) /\ git /\ UNCHANGED <<up, gitVars, srvVars, dbVars, served>>
    BY <1>9 DEF SetRemote, r
  <2> QED
    BY <2>1, <2>2, <2>3, <1>2, AskKeeps DEF gitVars, dbVars
<1>10. ASSUME ReVendor PROVE IInv'
  <2> DEFINE r == [Request("re_vendor", "revendor") EXCEPT !.todo = rows]
  <2>1. r \in RequestType /\ r.op = "re_vendor" /\ r.pc = "revendor" /\ r.hist = {} /\ r.v = 0
    <3> DEFINE q == Request("re_vendor", "revendor")
    <3>1. q \in RequestType /\ q.op = "re_vendor" /\ q.pc = "revendor" /\ q.hist = {} /\ q.v = 0
      BY <1>1, RequestFacts
    <3> HIDE DEF q
    <3>2. r = [q EXCEPT !.todo = rows]
      BY DEF q
    <3> HIDE DEF r
    <3> QED
      BY <1>1, <1>2, TodoFacts, <3>1, <3>2
  <2> HIDE DEF r
  <2>2. Placed(r)
    BY <2>1 DEF Placed, Loops
  <2>3. Ask(r) /\ UNCHANGED <<up, gitVars, srvVars, dbVars, served>>
    BY <1>10 DEF ReVendor, r
  <2> QED
    BY <2>1, <2>2, <2>3, <1>2, AskKeeps DEF gitVars, dbVars
<1>11. ASSUME NEW f \in Formulas, Track(f) PROVE IInv'
  BY <1>11, <1>2, IdleFacts, AskKeeps DEF Track, gitVars
<1>12. ASSUME NEW f \in Formulas, Add(f) \/ Update(f) \/ Remove(f) PROVE IInv'
  <2> DEFINE r(op, label) == [Request(op, label) EXCEPT !.f = f]
  <2>1. \E a \in {<<"add", "fclone">>, <<"update", "fclone">>, <<"remove", "fdrop">>,
                  <<"remove", "unrow">>} : Ask(r(a[1], a[2]))
    BY <1>12 DEF Add, Update, Remove
  <2>2. UNCHANGED <<up, gitVars, srvVars, dbVars, served>>
    BY <1>12 DEF Add, Update, Remove
  <2>3. PICK op \in {"add", "update", "remove"}, label \in {"fclone", "fdrop", "unrow"} :
           /\ label = "fclone" => op \in {"add", "update"}
           /\ label = "fdrop" => op = "remove"
           /\ Ask(r(op, label))
    BY <2>1
  <2>4. /\ r(op, label) \in RequestType /\ r(op, label).op = op /\ r(op, label).pc = label
        /\ r(op, label).hist = {} /\ r(op, label).v = 0 /\ r(op, label).f = f
    BY <1>1, RequestFacts, FormulaFacts
  <2> HIDE DEF r
  <2>5. Placed(r(op, label))
    BY <2>3, <2>4 DEF Placed
  <2>6. r(op, label).pc \notin {"add", "commit", "install", "exclude", "reset", "clean",
                               "clear", "stage"}
    BY <2>4
  <2> QED
    BY <2>2, <2>3, <2>4, <2>5, <2>6, <1>2, AskKeeps DEF gitVars, dbVars
<1> QED
  BY <1>3, <1>4, <1>5, <1>6, <1>7, <1>8, <1>9, <1>10, <1>11, <1>12
     DEF FileRequest, RepoRequest, FormulaRequest

\* The labels no part of the invariant but Placed constrains.
Free == {"idle", "pull", "refresh", "success", "warning", "failed"}

\* A sync goes on to a label of a sync, or ends.
LEMMA SyncMoves ==
    ASSUME ReqOK, NEW p \in Procs, req[p].op \in Syncs,
           NEW label \in {"refresh", "success", "warning", "failed"},
           Goto(p, label) \/ End(p)
    PROVE  /\ ReqOK' /\ req'[p].pc \in Free
           /\ \A q \in Procs : \/ req'[q].hist = req[q].hist /\ req'[q].v = req[q].v
                               \/ req'[q].hist = {} /\ req'[q].v = 0
           /\ p = "cron" => req'["web"] = req["web"]
<1> USE DEF Procs
<1>1. CASE Goto(p, label)
  <2>1. label \in Labels
    BY DEF Labels
  <2>2. Placed(req'[p])
    BY <1>1, <2>1, GotoFacts DEF Placed, ReqOK
  <2>3. CronSyncs'
    BY <1>1, <2>1, GotoFacts DEF ReqOK, CronSyncs
  <2>4. \A q \in Procs : Placed(req'[q])
    BY <1>1, <2>1, <2>2, GotoFacts DEF ReqOK
  <2>5. ReqOK'
    BY <1>1, <2>1, <2>3, <2>4, GotoFacts DEF ReqOK, Placed
  <2> QED
    BY <1>1, <2>1, <2>5, GotoFacts DEF ReqOK, Free
<1>2. CASE End(p)
  <2>1. CronSyncs'
    BY <1>2, EndFacts, IdleFacts DEF ReqOK, CronSyncs
  <2>2. \A q \in Procs : Placed(req'[q])
    BY <1>2, EndFacts, IdleFacts DEF ReqOK
  <2>3. ReqOK'
    BY <1>2, <2>1, <2>2, EndFacts DEF ReqOK, Placed
  <2> QED
    BY <1>2, <2>3, EndFacts, IdleFacts DEF ReqOK, Free
<1> QED
  BY <1>1, <1>2

\* What a pull does to the checkout: over a clean tree forward to the remote's
\* history, perhaps not all the way, or nothing but the tracking branch.
Pulled ==
    /\ track' \in {track, Remote}
    /\ served' \in BOOLEAN /\ locked' \in BOOLEAN
    /\ \/ /\ git /\ Forward(Remote) /\ head' \in {head, Remote}
          /\ index' \in {index, Tip(Remote)} /\ disk' \in {disk, Tip(Remote)}
       \/ UNCHANGED <<head, index, disk>>

LEMMA PulledKeeps ==
    ASSUME IInv, NEW p \in Procs, Pulled, ReqOK',
           req'[p].pc \in Free,
           p = "cron" => req'["web"] = req["web"],
           \A q \in Procs : \/ req'[q].hist = req[q].hist /\ req'[q].v = req[q].v
                            \/ req'[q].hist = {} /\ req'[q].v = 0,
           req[p].pc # "exclude",
           UNCHANGED <<up, git, origin, excl, tree, vendored, rest, rows, auxVars>>, status' \in Statuses
    PROVE  IInv'
<1> USE DEF Procs
<1>1. /\ Remote \subseteq 1..last /\ last \in Nat
      /\ Tip(Remote) \in Remote \cup {0} /\ Tip(Remote) \in 0..last
      /\ Tip(head) \in head \cup {0}
  <2>1. Remote \subseteq 1..last /\ last \in Nat /\ head \subseteq 1..last
    BY RemoteKnown DEF IInv, Known
  <2> QED
    BY <2>1, TipIn
<1>2. Known'
  <2>1. track' \subseteq 1..last /\ head' \subseteq 1..last /\ index' \in 0..last /\ disk' \in 0..last
    BY <1>1 DEF IInv, Known, Pulled
  <2> QED
    BY <1>1, <2>1 DEF IInv, Known, auxVars
<1>3. StateOK'
  BY DEF IInv, StateOK, Pulled, auxVars
<1>4. \/ req'["web"] = req["web"]
      \/ req'["web"].pc \in Free /\ req["web"].pc # "exclude"
  OBVIOUS
<1>5. GoneIsEmpty'
  BY <1>4 DEF IInv, GoneIsEmpty, Pulled, Free
<1>6. EditStands'
  <2>1. CASE req'["web"].pc \in Free
    BY <2>1 DEF EditStands, Free
  <2>2. CASE req'["web"] = req["web"] /\ UNCHANGED <<head, index, disk>>
    BY <2>2 DEF IInv, EditStands
  <2>3. CASE req'["web"] = req["web"] /\ Forward(Remote)
    BY <2>3, <1>1 DEF IInv, EditStands, Forward, Blocked
  <2> QED
    BY <1>4, <2>1, <2>2, <2>3 DEF Pulled
<1>7. NothingAhead'
  BY <1>4 DEF IInv, NothingAhead, Pulled, Free, Remote
<1>8. VendoredExcluded'
  <2>1. req["web"].pc = "install" => disk' = disk
    BY DEF IInv, GoneIsEmpty, Pulled
  <2> QED
    BY <1>4, <2>1 DEF IInv, VendoredExcluded, Free
<1> QED
  BY <1>2, <1>3, <1>5, <1>6, <1>7, <1>8 DEF IInv

\* The steps of a sync, of a web request or of the scheduled run.
LEMMA SyncKeeps ==
    ASSUME IInv, NEW p \in Procs, SyncStep(p)
    PROVE  IInv'
<1> USE DEF Procs
<1>1. CASE SyncPull(p)
  <2>1. req[p].op \in Syncs /\ req[p].pc = "pull"
    BY <1>1 DEF SyncPull, At, IInv, ReqOK, Placed
  <2>2. PICK label \in {"refresh", "success", "warning", "failed"} : Goto(p, label) \/ End(p)
    BY <1>1 DEF SyncPull, AfterPull, SyncDone
  <2>3. Pulled
    BY <1>1 DEF SyncPull, Pulled, CheckedOut, HalfCheckedOut, IInv, StateOK
  <2>4. UNCHANGED <<up, git, origin, excl, tree, vendored, rest, rows, auxVars>> /\ status' \in Statuses
    BY <1>1 DEF SyncPull, dbVars, IInv, StateOK
  <2>5. ReqOK
    BY DEF IInv
  <2> QED
    BY <2>1, <2>2, <2>3, <2>4, <2>5, SyncMoves, PulledKeeps
<1>2. CASE SyncRefresh(p)
  <2>1. req[p].op \in Syncs /\ req[p].pc = "refresh"
    BY <1>2 DEF SyncRefresh, At, IInv, ReqOK, Placed
  <2>2. PICK label \in {"refresh", "success", "warning", "failed"} : Goto(p, label) \/ End(p)
    BY <1>2 DEF SyncRefresh, SyncDone
  <2>3. Pulled
    BY <1>2 DEF SyncRefresh, Pulled, IInv, StateOK, gitVars, srvVars
  <2>4. UNCHANGED <<up, git, origin, excl, tree, vendored, rest, rows, auxVars>> /\ status' \in Statuses
    BY <1>2 DEF SyncRefresh, dbVars, gitVars, srvVars, IInv, StateOK
  <2>5. ReqOK
    BY DEF IInv
  <2> QED
    BY <2>1, <2>2, <2>3, <2>4, <2>5, SyncMoves, PulledKeeps
<1>3. CASE SyncStatus(p)
  <2>1. req[p].op \in Syncs /\ req[p].pc \in {"success", "warning", "failed"} /\ End(p)
    BY <1>3 DEF SyncStatus, IInv, ReqOK, Placed
  <2>2. Pulled
    BY <1>3 DEF SyncStatus, Pulled, IInv, StateOK, gitVars, srvVars
  <2>3. UNCHANGED <<up, git, origin, excl, tree, vendored, rest, rows, auxVars>> /\ status' \in Statuses
    BY <1>3, <2>1 DEF SyncStatus, Statuses, gitVars, srvVars
  <2>4. ReqOK
    BY DEF IInv
  <2>5. "refresh" \in {"refresh", "success", "warning", "failed"}
    OBVIOUS
  <2> QED
    BY <2>1, <2>2, <2>3, <2>4, <2>5, SyncMoves, PulledKeeps
<1> QED
  BY <1>1, <1>2, <1>3 DEF SyncStep

LEMMA CronStartKeeps ==
    ASSUME IInv, CronStart
    PROVE  IInv'
<1> USE DEF Procs
<1> DEFINE r == [Request("cron", "pull") EXCEPT !.retry = (status = "warning")]
<1>1. r \in RequestType /\ r.op = "cron" /\ r.pc = "pull" /\ r.hist = {} /\ r.v = 0
  <2>1. (status = "warning") \in BOOLEAN
    OBVIOUS
  <2>2. "cron" \in Requests /\ "pull" \in Labels
    BY DEF Requests, Labels
  <2> DEFINE q == Request("cron", "pull")
  <2>3. q \in RequestType /\ q.op = "cron" /\ q.pc = "pull" /\ q.hist = {} /\ q.v = 0
    BY <2>2, RequestFacts
  <2> HIDE DEF q
  <2>4. r = [q EXCEPT !.retry = (status = "warning")]
    BY DEF q
  <2> HIDE DEF r
  <2> QED
    BY <2>1, <2>3, <2>4, RetryFacts
<1>2. req' = [req EXCEPT !["cron"] = r]
  BY DEF CronStart
<1> HIDE DEF r
<1>3. Placed(r)
  BY <1>1 DEF Placed, Syncs
<1>4. req' \in [Procs -> RequestType] /\ req'["cron"] = r /\ req'["web"] = req["web"]
  BY <1>1, <1>2 DEF IInv, ReqOK
<1>5. ReqOK'
  BY <1>1, <1>3, <1>4 DEF IInv, ReqOK, CronSyncs, Placed
<1>6. Pulled
  BY DEF CronStart, Pulled, gitVars, srvVars, IInv, StateOK
<1>7. UNCHANGED <<up, git, origin, excl, tree, vendored, rest, rows, auxVars>> /\ status' \in Statuses
  BY DEF CronStart, dbVars, gitVars, srvVars, IInv, StateOK
<1>8. \A q \in Procs : \/ req'[q].hist = req[q].hist /\ req'[q].v = req[q].v
                       \/ req'[q].hist = {} /\ req'[q].v = 0
  BY <1>1, <1>4
<1>9. req["cron"].pc # "exclude" /\ req'["cron"].pc \in Free
  BY <1>1, <1>4 DEF IInv, ReqOK, CronSyncs, Free
<1> QED
  BY <1>4, <1>5, <1>6, <1>7, <1>8, <1>9, PulledKeeps

\* A request that dies: what it left behind stays, and cut is noted.
LEMMA CrashKeeps ==
    ASSUME IInv, NEW p \in Procs, Crash(p)
    PROVE  IInv'
<1> USE DEF Procs
<1>1. /\ cut' = TRUE /\ UNCHANGED <<up, gitVars, srvVars, dbVars, served, subject, last, asked>>
      /\ req' \in [Procs -> RequestType] /\ req'[p] = Idle
      /\ \A q \in Procs : q # p => req'[q] = req[q]
  BY EndFacts DEF Crash, IInv, ReqOK
<1>2. ReqOK'
  BY <1>1, IdleFacts DEF IInv, ReqOK, CronSyncs, Placed
<1>3. Known' /\ StateOK'
  BY <1>1, IdleFacts DEF IInv, Known, StateOK, gitVars, srvVars, dbVars
<1>4. req'["web"].pc = "idle" \/ req'["web"] = req["web"]
  BY <1>1, IdleFacts
<1>5. GoneIsEmpty' /\ EditStands' /\ NothingAhead' /\ VendoredExcluded'
  BY <1>1, <1>4 DEF IInv, GoneIsEmpty, EditStands, NothingAhead, VendoredExcluded, gitVars, srvVars
<1> QED
  BY <1>2, <1>3, <1>5 DEF IInv

LEMMA UpstreamKeeps ==
    ASSUME IInv, NEW r \in Remotes, UpstreamCommit(r)
    PROVE  IInv'
<1> USE DEF Procs
<1>1. /\ last' = last + 1 /\ last' \in 1..MaxVersions[subject]
      /\ 1..last \subseteq 1..last' /\ 0..last \subseteq 0..last'
  BY BoundsAssumption DEF UpstreamCommit, IInv, Known, StateOK
<1>2. /\ UNCHANGED <<gitVars, srvVars, dbVars, served, req, subject, asked, cut>>
      /\ up' \in [Remotes -> SUBSET (1..last')]
      /\ \A q \in Remotes : up[q] \subseteq up'[q]
  BY <1>1 DEF UpstreamCommit, IInv, Known
<1>3. ReqOK' /\ StateOK'
  BY <1>2 DEF IInv, ReqOK, StateOK, CronSyncs, Placed, gitVars, srvVars, dbVars
<1>4. Known'
  <2>1. head' \subseteq 1..last' /\ track' \subseteq 1..last'
    BY <1>1, <1>2 DEF IInv, Known, gitVars
  <2>2. index' \in 0..last' /\ disk' \in 0..last'
    BY <1>1, <1>2 DEF IInv, Known, gitVars, srvVars
  <2>3. \A p \in Procs : req'[p].hist \subseteq 1..last' /\ req'[p].v \in 0..last'
    BY <1>1, <1>2 DEF IInv, Known
  <2> QED
    BY <1>1, <1>2, <2>1, <2>2, <2>3 DEF Known
<1>5. GoneIsEmpty' /\ EditStands' /\ VendoredExcluded'
  BY <1>2 DEF IInv, GoneIsEmpty, EditStands, VendoredExcluded, gitVars, srvVars
<1>6. NothingAhead'
  <2>1. up[origin] \subseteq up'[origin']
    BY <1>2 DEF IInv, StateOK, gitVars
  <2> QED
    BY <1>2, <2>1 DEF IInv, NothingAhead, gitVars
<1> QED
  BY <1>3, <1>4, <1>5, <1>6 DEF IInv

LEMMA PlaceByHandKeeps ==
    ASSUME IInv, NEW f \in Formulas, PlaceByHand(f)
    PROVE  IInv'
<1>1. /\ tree' = tree \cup {f} /\ served' = FALSE /\ disk # 0
      /\ UNCHANGED <<up, gitVars, disk, vendored, rest, dbVars, req, auxVars>>
  BY DEF PlaceByHand
<1>2. ReqOK' /\ Known' /\ StateOK'
  BY <1>1 DEF IInv, ReqOK, Known, StateOK, CronSyncs, Placed, gitVars, dbVars, auxVars
<1>3. GoneIsEmpty' /\ EditStands' /\ NothingAhead' /\ VendoredExcluded'
  BY <1>1 DEF IInv, GoneIsEmpty, EditStands, NothingAhead, VendoredExcluded, gitVars
<1> QED
  BY <1>2, <1>3 DEF IInv

-----------------------------------------------------------------------------
(* The steps of the web requests.                                          *)

\* The web request goes on, with its arguments as they are, or ends.
LEMMA WebMoves ==
    ASSUME ReqOK, NEW label \in Labels, Goto("web", label) \/ End("web"),
           Goto("web", label) => Placed(req'["web"])
    PROVE  /\ ReqOK' /\ req'["cron"] = req["cron"]
           /\ \/ req'["web"] = Idle
              \/ /\ req'["web"].pc = label /\ req'["web"].op = req["web"].op
                 /\ req'["web"].force = req["web"].force /\ req'["web"].f = req["web"].f
                 /\ req'["web"].blind = req["web"].blind
                 /\ req'["web"].hist = req["web"].hist /\ req'["web"].v = req["web"].v
<1> USE DEF Procs
<1>1. CASE Goto("web", label)
  <2>1. CronSyncs' /\ req' \in [Procs -> RequestType]
    BY <1>1, GotoFacts DEF ReqOK, CronSyncs
  <2>2. \A q \in Procs : Placed(req'[q])
    BY <1>1, GotoFacts DEF ReqOK
  <2>3. ReqOK'
    BY <2>1, <2>2 DEF ReqOK, Placed
  <2> QED
    BY <1>1, <2>3, GotoFacts DEF ReqOK
<1>2. CASE End("web")
  <2>1. CronSyncs' /\ req' \in [Procs -> RequestType]
    BY <1>2, EndFacts DEF ReqOK, CronSyncs
  <2>2. \A q \in Procs : Placed(req'[q])
    BY <1>2, EndFacts, IdleFacts DEF ReqOK
  <2>3. ReqOK'
    BY <2>1, <2>2 DEF ReqOK, Placed
  <2> QED
    BY <1>2, <2>3, EndFacts DEF ReqOK
<1> QED
  BY <1>1, <1>2

\* What Known says of the requests carries over when the web request keeps its
\* arguments or ends.
LEMMA KnownRequests ==
    ASSUME IInv, req'["cron"] = req["cron"],
           \/ req'["web"] = Idle
           \/ req'["web"].hist = req["web"].hist /\ req'["web"].v = req["web"].v
    PROVE  \A p \in Procs : req'[p].hist \subseteq 1..last /\ req'[p].v \in 0..last
BY IdleFacts, RemoteKnown DEF IInv, Known, Procs

LEMMA SaveWriteKeeps ==
    ASSUME IInv, SaveWrite
    PROVE  IInv'
<1> USE DEF Procs
<1> DEFINE n == last + 1
<1>1. /\ last' = n /\ n \in 1..MaxVersions[subject] /\ n \in Nat \ {0} /\ n \in 0..n
      /\ 1..last \subseteq 1..n /\ 0..last \subseteq 0..n /\ n \notin 0..last /\ n \notin 1..last
      /\ disk' = n /\ served' = FALSE
      /\ UNCHANGED <<up, gitVars, tree, vendored, rest, dbVars, subject, asked, cut>>
  BY BoundsAssumption DEF SaveWrite, IInv, Known, StateOK
<1>2. req' = [req EXCEPT !["web"].v = n, !["web"].pc = "add"]
  BY DEF SaveWrite
<1> HIDE DEF n
<1>3. /\ req' \in [Procs -> RequestType]
      /\ req'["web"].pc = "add" /\ req'["web"].v = n /\ req'["web"].op = req["web"].op
      /\ req'["web"].hist = req["web"].hist /\ req'["cron"] = req["cron"]
  <2>1. "add" \in Labels /\ req \in [Procs -> RequestType]
    BY DEF Labels, IInv, ReqOK
  <2> QED
    BY <1>1, <1>2, <2>1 DEF RequestType
<1>4. req["web"].op = "save" /\ req["web"].pc = "write"
  BY DEF SaveWrite, At, IInv, ReqOK, Placed
<1>5. ReqOK'
  BY <1>3, <1>4 DEF IInv, ReqOK, CronSyncs, Placed
<1>6. Known'
  <2>1. up' \in [Remotes -> SUBSET (1..n)]
    BY <1>1 DEF IInv, Known
  <2>2. head' \subseteq 1..n /\ track' \subseteq 1..n /\ index' \in 0..n
    BY <1>1 DEF IInv, Known, gitVars
  <2>3. \A p \in Procs : req'[p].hist \subseteq 1..n /\ req'[p].v \in 0..n
    BY <1>1, <1>3 DEF IInv, Known
  <2> QED
    BY <1>1, <2>1, <2>2, <2>3 DEF Known
<1>7. StateOK'
  BY <1>1 DEF IInv, StateOK, gitVars, dbVars
<1>8. EditStands'
  BY <1>1, <1>3 DEF IInv, Known, EditStands, gitVars
<1>9. GoneIsEmpty' /\ NothingAhead' /\ VendoredExcluded'
  BY <1>1, <1>3, <1>4 DEF IInv, GoneIsEmpty, NothingAhead, VendoredExcluded, gitVars
<1> QED
  BY <1>5, <1>6, <1>7, <1>8, <1>9 DEF IInv

LEMMA CommitKeeps ==
    ASSUME IInv, CommitAdd \/ Commit
    PROVE  IInv'
<1> USE DEF Procs
<1>1. /\ req["web"].op = "save" /\ req["web"].pc \in {"add", "commit"}
      /\ ReqOK /\ "commit" \in Labels /\ "refresh" \in Labels
  BY DEF CommitAdd, Commit, At, IInv, ReqOK, Placed, Labels
<1>2. /\ UNCHANGED <<up, git, origin, track, excl, srvVars, dbVars, served, auxVars>>
      /\ index' \in {index, disk}
      /\ head' = head \/ (git /\ head' = head \cup {disk})
      /\ locked' \in BOOLEAN
  BY DEF CommitAdd, Commit, MayLock, IInv, StateOK
<1>3. PICK label \in {"commit", "refresh"} :
         /\ Goto("web", label) \/ End("web")
         /\ label = "commit" => head' = head /\ (Goto("web", label) => index' = disk)
  BY DEF CommitAdd, Commit
<1>4. Goto("web", label) => Placed(req'["web"]) /\ (label = "commit" => index' = disk)
  BY <1>1, <1>3, GotoFacts DEF Placed, ReqOK
<1>5. /\ ReqOK' /\ req'["cron"] = req["cron"]
      /\ \/ req'["web"] = Idle
         \/ /\ req'["web"].pc = label /\ req'["web"].op = req["web"].op
            /\ req'["web"].hist = req["web"].hist /\ req'["web"].v = req["web"].v
  BY <1>1, <1>3, <1>4, WebMoves
<1>6. Known'
  <2>1. disk # 0 /\ disk \in 0..last /\ last \in Nat
    BY <1>1, RemoteKnown DEF IInv, Known, EditStands
  <2>2. disk \in 1..last
    BY <2>1
  <2>3. head \subseteq 1..last /\ index \in 0..last
    BY DEF IInv, Known
  <2>4. head' \subseteq 1..last /\ index' \in 0..last
    BY <1>2, <2>1, <2>2, <2>3
  <2> QED
    BY <1>2, <1>5, <2>4, KnownRequests DEF IInv, Known, srvVars, auxVars
<1>7. StateOK'
  BY <1>2 DEF IInv, StateOK, srvVars, dbVars, auxVars
<1>8. EditStands'
  <2>1. CASE req'["web"] = Idle
    BY <2>1, IdleFacts DEF EditStands
  <2>2. CASE Goto("web", label)
    BY <2>2, <1>1, <1>2, <1>3, GotoFacts DEF IInv, ReqOK, EditStands, srvVars
  <2> QED
    BY <2>1, <2>2, <1>3, <1>1, EndFacts DEF ReqOK
<1>9. req'["web"].pc \in {"idle", "commit", "refresh"}
  BY <1>5, IdleFacts
<1>10. GoneIsEmpty' /\ NothingAhead' /\ VendoredExcluded'
  BY <1>1, <1>2, <1>9 DEF IInv, GoneIsEmpty, NothingAhead, VendoredExcluded, srvVars, auxVars
<1> QED
  BY <1>5, <1>6, <1>7, <1>8, <1>10 DEF IInv

LEMMA PushSendKeeps ==
    ASSUME IInv, PushSend
    PROVE  IInv'
<1> USE DEF Procs
<1>1. /\ req["web"].pc = "send" /\ ReqOK /\ End("web")
      /\ UNCHANGED <<git, origin, head, index, excl, locked, srvVars, dbVars, served, auxVars>>
      /\ up' \in {up, [up EXCEPT ![origin] = head]} /\ track' \in {track, head}
  BY DEF PushSend, At, IInv
<1>2. ReqOK' /\ req'["cron"] = req["cron"] /\ req'["web"] = Idle
  <2>1. "idle" \in Labels
    BY DEF Labels
  <2>2. req'["web"] = Idle /\ Placed(req'["web"])
    BY <1>1, EndFacts, IdleFacts DEF ReqOK
  <2> QED
    BY <1>1, <2>1, <2>2, WebMoves
<1>3. Known'
  <2>1. up' \in [Remotes -> SUBSET (1..last)] /\ track' \subseteq 1..last
    BY <1>1 DEF IInv, Known
  <2> QED
    BY <1>1, <1>2, <2>1, KnownRequests DEF IInv, Known, srvVars, auxVars
<1>4. StateOK'
  BY <1>1 DEF IInv, StateOK, srvVars, dbVars, auxVars
<1>5. GoneIsEmpty' /\ EditStands' /\ NothingAhead' /\ VendoredExcluded'
  BY <1>1, <1>2, IdleFacts
     DEF IInv, GoneIsEmpty, EditStands, NothingAhead, VendoredExcluded, srvVars, auxVars
<1> QED
  BY <1>2, <1>3, <1>4, <1>5 DEF IInv

LEMMA WebRefreshKeeps ==
    ASSUME IInv, WebRefresh
    PROVE  IInv'
<1> USE DEF Procs
<1>1. /\ req["web"].pc = "refresh"
      /\ req["web"].op \in {"save", "reset", "add", "update", "remove", "clone", "reclone"}
      /\ UNCHANGED <<up, gitVars, srvVars, dbVars, auxVars>> /\ served' \in BOOLEAN
  BY DEF WebRefresh, At, IInv, ReqOK, Placed, StateOK, Syncs
<1> DEFINE next == AfterRefresh[req["web"].op]
           todo == IF next = "revendor" THEN rows ELSE {}
           r == IF next = "idle" THEN Idle
                ELSE [req["web"] EXCEPT !.pc = next, !.todo = todo]
<1>2. /\ next \in {"idle", "unrow", "revendor"}
      /\ next = "unrow" => req["web"].op = "remove"
      /\ next = "revendor" => req["web"].op \in {"clone", "reclone"}
  BY <1>1 DEF AfterRefresh
<1>3. req' = [req EXCEPT !["web"] = r]
  BY DEF WebRefresh
<1>4. todo \in SUBSET Formulas
  BY DEF IInv, StateOK
<1> HIDE DEF next, todo
<1>5. /\ r \in RequestType
      /\ \/ r = Idle
         \/ /\ r.pc = next /\ r.op = req["web"].op /\ r.f = req["web"].f
            /\ r.hist = req["web"].hist /\ r.v = req["web"].v
  <2>1. next \in Labels /\ req["web"] \in RequestType
    BY <1>2 DEF Labels, IInv, ReqOK
  <2> DEFINE q == req["web"]
  <2> HIDE DEF q
  <2>2. q \in RequestType
    BY <2>1 DEF q
  <2>3. LET s == [q EXCEPT !.pc = next, !.todo = todo]
        IN  /\ s \in RequestType /\ s.pc = next /\ s.op = q.op /\ s.f = q.f
            /\ s.hist = q.hist /\ s.v = q.v
    BY <1>4, <2>1, <2>2 DEF RequestType
  <2> QED
    BY <2>3, IdleFacts DEF q
<1> HIDE DEF r
<1>6. req' \in [Procs -> RequestType] /\ req'["web"] = r /\ req'["cron"] = req["cron"]
  BY <1>3, <1>5 DEF IInv, ReqOK

<1>7. Placed(r)
  BY <1>2, <1>5, IdleFacts DEF Placed, Loops
<1>8. ReqOK'
  BY <1>6, <1>7 DEF IInv, ReqOK, CronSyncs, Placed
<1>9. Known'
  <2>1. \A p \in Procs : req'[p].hist \subseteq 1..last /\ req'[p].v \in 0..last
    BY <1>5, <1>6, KnownRequests
  <2> QED
    BY <1>1, <2>1 DEF IInv, Known, gitVars, srvVars, auxVars
<1>10. StateOK'
  BY <1>1 DEF IInv, StateOK, gitVars, srvVars, dbVars, auxVars
<1>11. req'["web"].pc \in {"idle", "unrow", "revendor"}
  BY <1>2, <1>5, <1>6, IdleFacts
<1>12. GoneIsEmpty' /\ EditStands' /\ NothingAhead' /\ VendoredExcluded'
  BY <1>1, <1>11
     DEF IInv, GoneIsEmpty, EditStands, NothingAhead, VendoredExcluded, gitVars, srvVars, auxVars
<1> QED
  BY <1>8, <1>9, <1>10, <1>12 DEF IInv

\* The repo controls.
LEMMA AheadCheckKeeps ==
    ASSUME IInv, AheadCheck
    PROVE  IInv'
<1> USE DEF Procs
<1>1. /\ req["web"].pc = "ahead" /\ ReqOK /\ req["web"].op \in {"reset", "reclone", "set_remote"}
      /\ UNCHANGED <<up, git, origin, head, index, excl, locked, srvVars, dbVars, served,
                     auxVars>>
      /\ track' \in {track, Remote}
  BY DEF AheadCheck, At, IInv, ReqOK, Placed
<1>2. PICK label \in {"reset", "stage", "seturl"} :
         /\ label = AfterAhead[req["web"].op]
         /\ label = "reset" => req["web"].op = "reset"
         /\ label = "stage" => req["web"].op = "reclone"
         /\ label \in Labels
  BY <1>1 DEF AfterAhead, Labels
<1>3. /\ Goto("web", label) \/ End("web")
      /\ Goto("web", label) => head \subseteq up[origin] \/ req["web"].force \/ End("web")
  BY <1>2 DEF AheadCheck, GoAhead, Remote
<1>4. Goto("web", label) => Placed(req'["web"])
  BY <1>1, <1>2, GotoFacts DEF Placed, ReqOK
<1>5. /\ ReqOK' /\ req'["cron"] = req["cron"]
      /\ \/ req'["web"] = Idle
         \/ /\ req'["web"].pc = label /\ req'["web"].op = req["web"].op
            /\ req'["web"].force = req["web"].force /\ req'["web"].blind = req["web"].blind
            /\ req'["web"].hist = req["web"].hist /\ req'["web"].v = req["web"].v
  BY <1>1, <1>2, <1>3, <1>4, WebMoves
<1>6. req'["web"] = Idle \/ (head \subseteq up[origin] \/ req["web"].force \/ req["web"].blind)
  BY <1>1, <1>3, EndFacts DEF ReqOK
<1>7. Known'
  <2>1. track' \subseteq 1..last
    BY <1>1, RemoteKnown DEF IInv, Known
  <2> QED
    BY <1>1, <1>5, <2>1, KnownRequests DEF IInv, Known, srvVars, auxVars
<1>8. StateOK'
  BY <1>1 DEF IInv, StateOK, srvVars, dbVars, auxVars
<1>9. GoneIsEmpty' /\ EditStands' /\ VendoredExcluded'
  BY <1>1, <1>2, <1>5, IdleFacts
     DEF IInv, GoneIsEmpty, EditStands, VendoredExcluded, srvVars, auxVars
<1>10. NothingAhead'
  BY <1>1, <1>5, <1>6, IdleFacts DEF NothingAhead
<1> QED
  BY <1>5, <1>7, <1>8, <1>9, <1>10 DEF IInv

LEMMA ResetKeeps ==
    ASSUME IInv, ResetHard \/ ResetClean \/ SetUrl
    PROVE  IInv'
<1> USE DEF Procs
<1>1. /\ req["web"].pc \in {"reset", "clean", "seturl"} /\ ReqOK
      /\ req["web"].pc \in {"reset", "clean"} => req["web"].op = "reset"
      /\ UNCHANGED <<up, git, track, excl, rest, dbVars, auxVars>>
  BY DEF ResetHard, ResetClean, SetUrl, At, IInv, ReqOK, Placed, gitVars, srvVars
<1>2. /\ origin' \in {origin, req["web"].url}
      /\ head' \in {head, track} /\ (~git => head' \in {head, track})
      /\ index' \in {index, Tip(track)} /\ disk' \in {disk, Tip(track)}
      /\ tree' \in {tree, tree \cap excl} /\ vendored' = vendored \cap tree'
      /\ served' \in BOOLEAN /\ locked' \in BOOLEAN
  <2>1. vendored \subseteq tree
    BY DEF IInv, VendoredExcluded
  <2> QED
    BY <2>1 DEF ResetHard, ResetClean, SetUrl, CheckedOut, HalfCheckedOut, gitVars, srvVars,
                IInv, StateOK

<1>3. Tip(track) \in 0..last /\ track \subseteq 1..last
  <2>1. track \subseteq 1..last /\ last \in Nat
    BY RemoteKnown DEF IInv, Known
  <2> QED
    BY <2>1, TipIn
<1>4. PICK label \in {"clean", "refresh"} :
         /\ Goto("web", label) \/ End("web")
         /\ Goto("web", label) => req["web"].pc # "seturl" \/ End("web")
  BY DEF ResetHard, ResetClean, SetUrl, At
<1>5. Goto("web", label) => End("web") \/ Placed(req'["web"])
  <2>1. label \in Labels
    BY DEF Labels
  <2> QED
    BY <1>1, <1>4, <2>1, GotoFacts DEF Placed, ReqOK
<1>6. /\ ReqOK' /\ req'["cron"] = req["cron"]
      /\ \/ req'["web"] = Idle
         \/ /\ req'["web"].pc = label
            /\ req'["web"].hist = req["web"].hist /\ req'["web"].v = req["web"].v
  <2>1. label \in Labels
    BY DEF Labels
  <2>2. End("web") => Placed(req'["web"])
    BY <1>1, EndFacts, IdleFacts DEF ReqOK
  <2> QED
    BY <1>1, <1>4, <1>5, <2>1, <2>2, WebMoves
<1>7. Known'
  <2>1. head' \subseteq 1..last /\ index' \in 0..last /\ disk' \in 0..last
    BY <1>2, <1>3 DEF IInv, Known
  <2> QED
    BY <1>1, <1>6, <2>1, KnownRequests DEF IInv, Known, auxVars
<1>8. StateOK'
  <2>1. req["web"].url \in Remotes
    BY <1>1 DEF ReqOK, RequestType
  <2> QED
    BY <1>1, <1>2, <2>1 DEF IInv, StateOK, dbVars, auxVars
<1>9. req'["web"].pc \in {"idle", "clean", "refresh"}
  BY <1>6, IdleFacts
<1>10. ~git => head' = head
  BY DEF ResetHard, ResetClean, SetUrl, At, IInv, GoneIsEmpty, HalfCheckedOut, gitVars
<1>11. GoneIsEmpty' /\ EditStands' /\ NothingAhead'
  <2>1. req'["web"].pc = "clean" => git
    <3>1. End("web") => req'["web"].pc = "idle"
      BY <1>1, EndFacts, IdleFacts DEF ReqOK
    <3>2. req["web"].pc \in {"reset", "clean"} => git
      BY DEF IInv, GoneIsEmpty
    <3> QED
      BY <1>1, <1>4, <3>1, <3>2
  <2> QED
    BY <1>1, <1>9, <1>10, <2>1 DEF IInv, GoneIsEmpty, EditStands, NothingAhead
<1>12. VendoredExcluded'
  BY <1>1, <1>2, <1>9 DEF IInv, VendoredExcluded, auxVars
<1> QED
  BY <1>6, <1>7, <1>8, <1>11, <1>12 DEF IInv

LEMMA StageCloneKeeps ==
    ASSUME IInv, StageClone
    PROVE  IInv'
<1> USE DEF Procs
<1>1. /\ req["web"].pc = "stage" /\ ReqOK /\ req["web"].op \in {"clone", "reclone"}
      /\ UNCHANGED <<up, gitVars, srvVars, dbVars, served, auxVars>>
  BY DEF StageClone, At, IInv, ReqOK, Placed
<1> DEFINE h == up[req["web"].url]
<1>2. h \subseteq 1..last /\ h \subseteq Nat
  BY DEF IInv, Known, ReqOK, RequestType
<1>3. \/ req' = [req EXCEPT !["web"].hist = h, !["web"].pc = "clear"]
      \/ End("web")
  BY DEF StageClone
<1> HIDE DEF h
<1>4. CASE End("web")
  <2>1. "idle" \in Labels /\ Placed(req'["web"]) /\ req'["web"] = Idle
    BY <1>1, <1>4, EndFacts, IdleFacts DEF Labels, ReqOK
  <2>2. ReqOK' /\ req'["cron"] = req["cron"]
    BY <1>1, <1>4, <2>1, WebMoves
  <2>3. Known' /\ StateOK'
    BY <1>1, <2>1, <2>2, KnownRequests
       DEF IInv, Known, StateOK, gitVars, srvVars, dbVars, auxVars
  <2>4. GoneIsEmpty' /\ EditStands' /\ NothingAhead' /\ VendoredExcluded'
    BY <1>1, <2>1, IdleFacts
       DEF IInv, GoneIsEmpty, EditStands, NothingAhead, VendoredExcluded, gitVars, srvVars, auxVars
  <2> QED
    BY <2>2, <2>3, <2>4 DEF IInv
<1>5. CASE req' = [req EXCEPT !["web"].hist = h, !["web"].pc = "clear"]
  <2>1. /\ req' \in [Procs -> RequestType]
        /\ req'["web"].pc = "clear" /\ req'["web"].hist = h /\ req'["web"].op = req["web"].op
        /\ req'["web"].v = req["web"].v /\ req'["web"].force = req["web"].force
        /\ req'["web"].blind = req["web"].blind
        /\ req'["cron"] = req["cron"]
    <3>1. "clear" \in Labels /\ req \in [Procs -> RequestType]
      BY DEF Labels, IInv, ReqOK
    <3> QED
      BY <1>2, <1>5, <3>1 DEF RequestType
  <2>2. ReqOK'
    BY <1>1, <2>1 DEF ReqOK, CronSyncs, Placed
  <2>3. Known'
    BY <1>1, <1>2, <2>1 DEF IInv, Known, gitVars, srvVars, auxVars
  <2>4. StateOK'
    BY <1>1 DEF IInv, StateOK, gitVars, srvVars, dbVars, auxVars
  <2>5. GoneIsEmpty' /\ EditStands' /\ NothingAhead' /\ VendoredExcluded'
    BY <1>1, <2>1
       DEF IInv, GoneIsEmpty, EditStands, NothingAhead, VendoredExcluded, gitVars, srvVars, auxVars
  <2> QED
    BY <2>2, <2>3, <2>4, <2>5 DEF IInv
<1> QED
  BY <1>3, <1>4, <1>5

\* A step of the web request that ends it or takes it to `refresh' or `install'
\* leaves a well-formed request.
LEMMA CloneMoves ==
    ASSUME IInv, req["web"].op \in {"clone", "reclone"}, NEW label \in {"refresh", "install"},
           Goto("web", label) \/ End("web")
    PROVE  /\ ReqOK' /\ req'["cron"] = req["cron"]
           /\ \A p \in Procs : req'[p].hist \subseteq 1..last /\ req'[p].v \in 0..last
           /\ Goto("web", label) => req'["web"].pc = label
           /\ End("web") => req'["web"].pc = "idle"
<1> USE DEF Procs
<1>1. label \in Labels /\ ReqOK
  BY DEF Labels, IInv
<1>2. Goto("web", label) => Placed(req'["web"]) /\ req'["web"].pc = label
  BY <1>1, GotoFacts DEF Placed, ReqOK
<1>3. End("web") => req'["web"].pc = "idle"
  BY <1>1, EndFacts, IdleFacts DEF ReqOK
<1> QED
  BY <1>1, <1>2, <1>3, WebMoves, KnownRequests

LEMMA ClearKeeps ==
    ASSUME IInv, ClearAll \/ ClearSome
    PROVE  IInv'
<1> USE DEF Procs
<1>1. /\ req["web"].pc = "clear" /\ req["web"].op \in {"clone", "reclone"}
      /\ UNCHANGED <<subject, last, asked>>
      /\ req["web"].op = "clone" => ~git
  BY DEF ClearAll, ClearSome, At, IInv, ReqOK, Placed, GoneIsEmpty, auxVars
<1>2. PICK gone \in SUBSET ToClear :
         /\ Clear(gone)
         /\ \/ gone = ToClear /\ Goto("web", "install") /\ cut' = cut
            \/ End("web") /\ cut' = TRUE
  BY DEF ClearAll, ClearSome, auxVars
<1>3. /\ UNCHANGED <<up, origin, dbVars>> /\ served' = FALSE /\ rest' \in BOOLEAN
      /\ \/ /\ git' = FALSE /\ head' = {} /\ track' = {} /\ index' = 0 /\ excl' = {}
            /\ locked' = FALSE
         \/ ".git" \notin gone /\ UNCHANGED <<git, head, track, index, excl, locked>>
      /\ \/ disk' = 0 /\ tree' = {} /\ vendored' = {}
         \/ "salt" \notin gone /\ UNCHANGED <<disk, tree, vendored>>
  BY <1>2 DEF Clear, IInv, StateOK
<1>4. /\ ReqOK' /\ req'["cron"] = req["cron"]
      /\ \A p \in Procs : req'[p].hist \subseteq 1..last /\ req'[p].v \in 0..last
      /\ \/ req'["web"].pc = "install" /\ gone = ToClear /\ cut' = cut
         \/ req'["web"].pc = "idle" /\ cut' = TRUE
  BY <1>1, <1>2, CloneMoves
<1>5. Known'
  <2>1. /\ head' \subseteq 1..last /\ track' \subseteq 1..last
        /\ index' \in 0..last /\ disk' \in 0..last
    <3>1. last \in Nat /\ 0 \in 0..last /\ {} \subseteq 1..last
      BY RemoteKnown DEF IInv
    <3> QED
      BY <1>3, <3>1 DEF IInv, Known
  <2> QED
    BY <1>1, <1>3, <1>4, <2>1 DEF IInv, Known
<1>6. StateOK'
  BY <1>1, <1>3, <1>4 DEF IInv, StateOK, dbVars
<1>7. GoneIsEmpty'
  BY <1>1, <1>3, <1>4 DEF IInv, GoneIsEmpty, ToClear, Entries
<1>8. EditStands' /\ NothingAhead'
  BY <1>4 DEF EditStands, NothingAhead
<1>9. VendoredExcluded'
  BY <1>1, <1>3, <1>4 DEF IInv, VendoredExcluded, ToClear, Entries
<1> QED
  BY <1>4, <1>5, <1>6, <1>7, <1>8, <1>9 DEF IInv

LEMMA InstallKeeps ==
    ASSUME IInv, InstallAll \/ InstallSome
    PROVE  IInv'
<1> USE DEF Procs
<1>1. /\ req["web"].pc = "install" /\ req["web"].op \in {"clone", "reclone"}
      /\ UNCHANGED <<subject, last, asked>> /\ tree = {}
  BY DEF InstallAll, InstallSome, At, IInv, ReqOK, Placed, VendoredExcluded, auxVars
<1>2. PICK moved \in SUBSET Entries :
         /\ Install(moved)
         /\ \/ moved = Entries /\ Goto("web", "refresh") /\ cut' = cut
            \/ End("web") /\ cut' = TRUE
  BY DEF InstallAll, InstallSome, auxVars
<1>3. /\ UNCHANGED <<up, tree, vendored, dbVars>> /\ served' = FALSE /\ rest' \in BOOLEAN
      /\ \/ /\ git' = TRUE /\ origin' = req["web"].url /\ head' = req["web"].hist
            /\ track' = req["web"].hist /\ index' = Tip(req["web"].hist) /\ excl' = {}
            /\ locked' = FALSE
         \/ UNCHANGED <<git, origin, head, track, index, excl, locked>>
      /\ disk' \in {disk, Tip(req["web"].hist)}
  BY <1>2 DEF Install, IInv, StateOK
<1>4. /\ ReqOK' /\ req'["cron"] = req["cron"]
      /\ \A p \in Procs : req'[p].hist \subseteq 1..last /\ req'[p].v \in 0..last
      /\ \/ req'["web"].pc = "refresh" /\ cut' = cut
         \/ req'["web"].pc = "idle" /\ cut' = TRUE
  BY <1>1, <1>2, CloneMoves
<1>5. Known'
  <2>1. req["web"].hist \subseteq 1..last /\ last \in Nat
    BY RemoteKnown DEF IInv, Known
  <2>2. Tip(req["web"].hist) \in 0..last
    BY <2>1, TipIn
  <2>3. /\ head' \subseteq 1..last /\ track' \subseteq 1..last
        /\ index' \in 0..last /\ disk' \in 0..last
    BY <1>3, <2>1, <2>2 DEF IInv, Known
  <2> QED
    BY <1>1, <1>3, <1>4, <2>3 DEF IInv, Known
<1>6. StateOK'
  <2>1. req["web"].url \in Remotes
    BY DEF IInv, ReqOK, RequestType
  <2> QED
    BY <1>1, <1>3, <1>4, <2>1 DEF IInv, StateOK, dbVars
<1>7. GoneIsEmpty' /\ EditStands' /\ NothingAhead' /\ VendoredExcluded'
  BY <1>1, <1>3, <1>4 DEF IInv, GoneIsEmpty, EditStands, NothingAhead, VendoredExcluded
<1> QED
  BY <1>4, <1>5, <1>6, <1>7 DEF IInv

-----------------------------------------------------------------------------
(* The steps on the formulas.                                              *)

\* They leave the checkout's versions alone: what is left to show of a step is
\* that the request is well-formed and that the tree stays excluded.
LEMMA FormulaKeeps ==
    ASSUME IInv, ReqOK', req'["cron"] = req["cron"],
           \/ req'["web"] = Idle
           \/ req'["web"].hist = req["web"].hist /\ req'["web"].v = req["web"].v,
           req'["web"].pc \in {"idle", "revendor", "fclone", "fdrop", "finstall", "exclude",
                               "row", "refresh"},
           UNCHANGED <<up, git, origin, head, track, index, locked, disk, rest, status, auxVars>>,
           excl' \subseteq Formulas, tree' \subseteq Formulas, rows' \subseteq Formulas,
           served' \in BOOLEAN, VendoredExcluded'
    PROVE  IInv'
<1> USE DEF Procs
<1>1. Known'
  BY KnownRequests DEF IInv, Known, auxVars
<1>2. StateOK'
  BY DEF IInv, StateOK, auxVars
<1>3. GoneIsEmpty' /\ EditStands' /\ NothingAhead'
  BY DEF IInv, GoneIsEmpty, EditStands, NothingAhead
<1> QED
  BY <1>1, <1>2, <1>3 DEF IInv

LEMMA NextRowKeeps ==
    ASSUME IInv, NextRow
    PROVE  IInv'
<1> USE DEF Procs
<1>1. /\ req["web"].pc = "revendor" /\ ReqOK /\ req["web"].op \in Loops
      /\ UNCHANGED <<up, gitVars, srvVars, dbVars, served, auxVars>>
  BY DEF NextRow, At, IInv, ReqOK, Placed
<1>2. CASE End("web")
  <2>1. "idle" \in Labels /\ Placed(req'["web"]) /\ req'["web"] = Idle
    BY <1>1, <1>2, EndFacts, IdleFacts DEF Labels, ReqOK
  <2>2. ReqOK' /\ req'["cron"] = req["cron"]
    BY <1>1, <1>2, <2>1, WebMoves
  <2>3. VendoredExcluded'
    BY <1>1, <2>1, IdleFacts DEF IInv, VendoredExcluded, gitVars, srvVars, auxVars
  <2> QED
    BY <1>1, <2>1, <2>2, <2>3, IdleFacts, FormulaKeeps
       DEF IInv, StateOK, gitVars, srvVars, dbVars
<1>3. ASSUME NEW f \in req["web"].todo,
             req' = [req EXCEPT !["web"].todo = @ \ {f}, !["web"].f = f,
                                !["web"].pc = IF f \notin tree /\ git
                                              THEN "fclone" ELSE "revendor"]
      PROVE  IInv'
  <2> DEFINE label == IF f \notin tree /\ git THEN "fclone" ELSE "revendor"
  <2>1. label \in {"fclone", "revendor"} /\ label \in Labels
    BY DEF Labels
  <2>2. req' = [req EXCEPT !["web"].todo = @ \ {f}, !["web"].f = f, !["web"].pc = label]
    BY <1>3
  <2> HIDE DEF label
  <2>3. /\ req' \in [Procs -> RequestType]
        /\ req'["web"].pc = label /\ req'["web"].op = req["web"].op /\ req'["web"].f = f
        /\ req'["web"].hist = req["web"].hist /\ req'["web"].v = req["web"].v
        /\ req'["cron"] = req["cron"] /\ f \in Formulas
    <3>1. req \in [Procs -> RequestType]
      BY DEF IInv, ReqOK
    <3> DEFINE q == req["web"]
               todo == q.todo \ {f}
    <3>2. req' = [req EXCEPT !["web"] = [q EXCEPT !.todo = todo, !.f = f, !.pc = label]]
      BY <2>2, <3>1
    <3>3. q \in RequestType /\ f \in Formulas /\ todo \in SUBSET Formulas
      BY <3>1, <1>3 DEF RequestType
    <3> HIDE DEF q, todo
    <3> DEFINE r == [q EXCEPT !.todo = todo, !.f = f, !.pc = label]
    <3>4. /\ r \in RequestType /\ r.pc = label /\ r.f = f /\ r.op = q.op
          /\ r.hist = q.hist /\ r.v = q.v
      BY <3>3, <2>1 DEF RequestType
    <3> HIDE DEF r
    <3>5. req' \in [Procs -> RequestType] /\ req'["web"] = r /\ req'["cron"] = req["cron"]
      BY <3>1, <3>2, <3>4 DEF r
    <3> QED
      BY <3>3, <3>4, <3>5 DEF q
  <2>4. ReqOK'
    BY <1>1, <2>1, <2>3 DEF ReqOK, CronSyncs, Placed, Loops
  <2>5. VendoredExcluded'
    BY <1>1, <2>1, <2>3 DEF IInv, VendoredExcluded, gitVars, srvVars, auxVars
  <2> QED
    BY <1>1, <2>1, <2>3, <2>4, <2>5, FormulaKeeps DEF IInv, StateOK, gitVars, srvVars, dbVars
<1> QED
  BY <1>2, <1>3 DEF NextRow

LEMMA FormulaFilesKeep ==
    ASSUME IInv, FormulaClone \/ FormulaDrop \/ FormulaInstall
    PROVE  IInv'
<1> USE DEF Procs
<1>1. /\ req["web"].pc \in {"fclone", "fdrop", "finstall"} /\ ReqOK /\ req["web"].f \in Formulas
      /\ req["web"].pc \in {"fclone", "finstall"} => req["web"].op \in Loops \cup {"add", "update"}
      /\ req["web"].pc = "fdrop" => req["web"].op \in {"update", "remove"}
      /\ UNCHANGED <<up, gitVars, disk, rest, dbVars, auxVars>>
      /\ tree' \subseteq Formulas /\ served' \in BOOLEAN
  BY DEF FormulaClone, FormulaDrop, FormulaInstall, At, IInv, ReqOK, Placed, StateOK, srvVars
<1>2. vendored' \subseteq vendored /\ vendored' \subseteq tree' /\ (git => vendored' \subseteq excl)
  BY DEF FormulaClone, FormulaDrop, FormulaInstall, IInv, VendoredExcluded, srvVars
<1>3. PICK label \in {"fdrop", "finstall", "exclude", "revendor"} :
         /\ Goto("web", label) \/ End("web")
         /\ Goto("web", label) =>
              \/ End("web")
              \/ label = "fdrop" /\ req["web"].op = "update"
              \/ label = "finstall" /\ req["web"].pc = "fclone"
              \/ label = "finstall" /\ req["web"].op = "update"
              \/ label = "revendor" /\ req["web"].op \in Loops
              \/ /\ label = "exclude" /\ req["web"].pc = "fdrop" /\ req["web"].op = "remove"
                 /\ vendored' = vendored \ {req["web"].f}
              \/ /\ label = "exclude" /\ req["web"].pc = "finstall"
                 /\ tree' = tree \cup {req["web"].f}
  <2>1. CASE FormulaClone
    BY <2>1 DEF FormulaClone, FormulaRefused, At
  <2>2. CASE FormulaDrop
    BY <2>2, <1>1 DEF FormulaDrop, At
  <2>3. CASE FormulaInstall
    BY <2>3 DEF FormulaInstall, FormulaRefused, At
  <2> QED
    BY <2>1, <2>2, <2>3
<1>4. label \in Labels
  BY DEF Labels
<1>5. ~(Goto("web", label) /\ End("web"))
  <2> SUFFICES ASSUME Goto("web", label), End("web") PROVE FALSE
    OBVIOUS
  <2>1. req'["web"].pc = label /\ req'["web"] = Idle
    BY <1>1, <1>4, GotoFacts, EndFacts DEF ReqOK
  <2> QED
    BY <2>1, IdleFacts
<1>6. Goto("web", label) => Placed(req'["web"])
  BY <1>1, <1>3, <1>4, <1>5, GotoFacts DEF Placed, ReqOK, Loops
<1>7. ReqOK' /\ req'["cron"] = req["cron"]
  BY <1>1, <1>3, <1>4, <1>6, WebMoves
<1>8. git' = git /\ excl' = excl /\ disk' = disk
  BY <1>1 DEF gitVars
<1>9. CASE End("web")
  <2>1. req'["web"] = Idle
    BY <1>1, <1>9, EndFacts DEF ReqOK
  <2>2. VendoredExcluded'
    BY <1>2, <1>8, <2>1, IdleFacts DEF VendoredExcluded
  <2> QED
    BY <1>1, <1>7, <2>1, <2>2, IdleFacts, FormulaKeeps DEF IInv, StateOK, gitVars, dbVars
<1>10. CASE Goto("web", label)
  <2>1. /\ req'["web"].pc = label /\ req'["web"].op = req["web"].op
        /\ req'["web"].f = req["web"].f
        /\ req'["web"].hist = req["web"].hist /\ req'["web"].v = req["web"].v
    BY <1>1, <1>4, <1>10, GotoFacts DEF ReqOK
  <2>2. VendoredExcluded'
    BY <1>1, <1>2, <1>3, <1>5, <1>8, <1>10, <2>1 DEF VendoredExcluded, Loops
  <2> QED
    BY <1>1, <1>7, <2>1, <2>2, FormulaKeeps DEF IInv, StateOK, gitVars, dbVars
<1> QED
  BY <1>3, <1>9, <1>10

LEMMA FormulaExcludeKeeps ==
    ASSUME IInv, FormulaExclude
    PROVE  IInv'
<1> USE DEF Procs
<1>1. /\ req["web"].pc = "exclude" /\ ReqOK /\ req["web"].f \in Formulas
      /\ req["web"].op \in Loops \cup {"add", "update", "remove"}
      /\ UNCHANGED <<up, git, origin, head, track, index, locked, disk, tree, rest, dbVars,
                     served, auxVars>>
      /\ excl' = Excluded(req["web"].f)
      /\ vendored' = IF req["web"].op = "remove" THEN vendored
                     ELSE vendored \cup {req["web"].f}
  BY DEF FormulaExclude, At, IInv, ReqOK, Placed
<1>2. PICK label \in {"row", "refresh", "revendor"} :
         /\ Goto("web", label)
         /\ label = "refresh" => req["web"].op \in {"update", "remove"}
         /\ label = "revendor" => req["web"].op \in Loops
         /\ label = "row" => req["web"].op = "add"
         /\ label \in Labels
  BY <1>1 DEF FormulaExclude, AfterExclude, Loops, Labels
<1>3. /\ req'["web"].pc = label /\ req'["web"].op = req["web"].op
      /\ req'["web"].f = req["web"].f
      /\ req'["web"].hist = req["web"].hist /\ req'["web"].v = req["web"].v
  BY <1>1, <1>2, GotoFacts DEF ReqOK
<1>4. Placed(req'["web"])
  BY <1>1, <1>2, <1>3 DEF Placed
<1>5. ReqOK' /\ req'["cron"] = req["cron"]
  BY <1>1, <1>2, <1>4, WebMoves
<1>6. excl' \subseteq Formulas
  BY <1>1 DEF Excluded, IInv, StateOK
<1>7. VendoredExcluded'
  BY <1>1, <1>2, <1>3 DEF IInv, VendoredExcluded, Excluded, auxVars
<1> QED
  BY <1>1, <1>2, <1>3, <1>5, <1>6, <1>7, FormulaKeeps DEF IInv, StateOK, dbVars

LEMMA FormulaRowKeeps ==
    ASSUME IInv, FormulaRow
    PROVE  IInv'
<1> USE DEF Procs
<1>1. /\ ReqOK /\ "refresh" \in Labels /\ req["web"].pc \in {"row", "unrow"}
      /\ UNCHANGED <<up, gitVars, srvVars, status, served, auxVars>> /\ rows' \subseteq Formulas
      /\ \/ req["web"].pc = "row" /\ Goto("web", "refresh")
         \/ End("web")
  BY DEF FormulaRow, At, IInv, ReqOK, Placed, StateOK, Labels

<1>2. /\ Goto("web", "refresh") => req'["web"].pc = "refresh"
      /\ End("web") => req'["web"] = Idle
  BY <1>1, GotoFacts, EndFacts DEF ReqOK
<1>3. Goto("web", "refresh") => End("web") \/ Placed(req'["web"])
  <2>1. req["web"].pc = "row" => req["web"].op = "add"
    BY <1>1 DEF ReqOK, Placed
  <2> QED
    BY <1>1, <2>1, GotoFacts DEF Placed, ReqOK
<1>4. End("web") => Placed(req'["web"])
  BY <1>2, IdleFacts
<1>5. /\ ReqOK' /\ req'["cron"] = req["cron"]
      /\ \/ req'["web"] = Idle
         \/ req'["web"].hist = req["web"].hist /\ req'["web"].v = req["web"].v
  BY <1>1, <1>3, <1>4, WebMoves
<1>6. req'["web"].pc \in {"idle", "refresh"}
  BY <1>1, <1>2, IdleFacts
<1>7. VendoredExcluded'
  BY <1>1, <1>6 DEF IInv, VendoredExcluded, gitVars, srvVars, auxVars
<1> QED
  BY <1>1, <1>5, <1>6, <1>7, FormulaKeeps DEF IInv, StateOK, gitVars, srvVars

-----------------------------------------------------------------------------
(* The theorems.                                                           *)

LEMMA InitIInv == Init => IInv
<1> SUFFICES ASSUME Init PROVE IInv
  OBVIOUS
<1> USE DEF Procs
<1>1. req["web"] = Idle /\ req["cron"] = Idle /\ req \in [Procs -> RequestType]
  BY IdleFacts DEF Init
<1>2. ReqOK
  BY <1>1, IdleFacts DEF ReqOK, CronSyncs
<1>3. MaxVersions[subject] \in Nat \ {0} /\ MaxRequests[subject] \in Nat
  BY BoundsAssumption DEF Init
<1>4. Known
  BY <1>1, <1>3, IdleFacts DEF Init, Known
<1>5. StateOK
  <2>1. /\ git \in BOOLEAN /\ rest \in BOOLEAN /\ served \in BOOLEAN /\ cut \in BOOLEAN
        /\ locked \in BOOLEAN
    BY DEF Init
  <2>2. origin \in Remotes /\ status \in Statuses
    BY RemotesAssumption DEF Init, Statuses
  <2>3. excl = {} /\ tree = {} /\ rows = {} /\ subject \in Subjects
    BY DEF Init
  <2>4. asked \in 0..MaxRequests[subject]
    BY <1>3 DEF Init
  <2> QED
    BY <2>1, <2>2, <2>3, <2>4 DEF StateOK
<1>6. GoneIsEmpty /\ EditStands /\ NothingAhead /\ VendoredExcluded
  BY <1>1, IdleFacts DEF Init, GoneIsEmpty, EditStands, NothingAhead, VendoredExcluded
<1> QED
  BY <1>2, <1>4, <1>5, <1>6 DEF IInv

LEMMA StepIInv == IInv /\ [Next]_vars => IInv'
<1> SUFFICES ASSUME IInv, [Next]_vars PROVE IInv'
  OBVIOUS
<1> USE DEF Procs
<1>1. CASE FileRequest \/ RepoRequest \/ FormulaRequest
  BY <1>1, RequestKeeps
<1>2. CASE CronStart
  BY <1>2, CronStartKeeps
<1>3. CASE SyncStep("web") \/ SyncStep("cron")
  BY <1>3, SyncKeeps
<1>4. CASE FileStep
  BY <1>4, SaveWriteKeeps, CommitKeeps, PushSendKeeps, WebRefreshKeeps DEF FileStep
<1>5. CASE RepoStep
  BY <1>5, AheadCheckKeeps, ResetKeeps, StageCloneKeeps, ClearKeeps, InstallKeeps DEF RepoStep
<1>6. CASE FormulaStep
  BY <1>6, NextRowKeeps, FormulaFilesKeep, FormulaExcludeKeeps, FormulaRowKeeps DEF FormulaStep
<1>7. CASE Crash("web") \/ Crash("cron")
  BY <1>7, CrashKeeps
<1>8. ASSUME NEW r \in Remotes, UpstreamCommit(r) PROVE IInv'
  BY <1>8, UpstreamKeeps
<1>9. ASSUME NEW f \in Formulas, PlaceByHand(f) PROVE IInv'
  BY <1>9, PlaceByHandKeeps
<1>10. CASE UNCHANGED vars
  BY <1>10 DEF vars, gitVars, srvVars, dbVars, auxVars, IInv, ReqOK, Placed, CronSyncs, Known,
              StateOK, GoneIsEmpty, EditStands, NothingAhead, VendoredExcluded
<1> QED
  BY <1>1, <1>2, <1>3, <1>4, <1>5, <1>6, <1>7, <1>8, <1>9, <1>10 DEF Next

(* The invariant holds throughout: of the checkout, the volume, the        *)
(* formulas and the requests at every label, beside the scheduled runs and *)
(* with a request cut short anywhere.                                      *)
THEOREM CheckoutInvHolds == Spec => []IInv
BY InitIInv, StepIInv, PTL DEF Spec

(* Type correctness: also that the index, the disk and every history never *)
(* hold a version nobody has written.                                      *)
THEOREM CheckoutTypeCorrect == Spec => []TypeOK
<1>1. IInv => TypeOK
  <2> SUFFICES ASSUME IInv PROVE TypeOK
    OBVIOUS
  <2>1. 1..last \subseteq Versions /\ 0..last \subseteq 0..MaxVersions[subject]
    BY RemoteKnown DEF IInv, Versions
  <2>2. up \in [Remotes -> SUBSET Versions]
    BY <2>1 DEF IInv, Known
  <2>3. head \subseteq Versions /\ track \subseteq Versions
    BY <2>1 DEF IInv, Known
  <2>4. {index, disk, last} \subseteq 0..MaxVersions[subject]
    BY <2>1, RemoteKnown DEF IInv, Known
  <2>5. /\ {git, locked, rest, served, cut} \subseteq BOOLEAN /\ origin \in Remotes
        /\ excl \subseteq Formulas /\ tree \subseteq Formulas /\ rows \subseteq Formulas
        /\ status \in Statuses /\ subject \in Subjects /\ asked \in 0..MaxRequests[subject]
    BY DEF IInv, StateOK
  <2>6. ASSUME NEW p \in {"web", "cron"}
        PROVE  /\ req[p].pc \in Labels
               /\ req[p].url \in Remotes /\ req[p].f \in Formulas \cup {NoFormula}
               /\ req[p].todo \subseteq Formulas
               /\ {req[p].force, req[p].clean, req[p].retry, req[p].blind} \subseteq BOOLEAN
    BY <2>6 DEF IInv, ReqOK, RequestType, Procs
  <2>7. ASSUME NEW p \in {"web", "cron"}
        PROVE  req[p].hist \subseteq Versions /\ req[p].v \in 0..MaxVersions[subject]
    BY <2>1, <2>7 DEF IInv, Known, Procs
  <2>8. vendored \subseteq tree
    BY DEF IInv, VendoredExcluded
  <2> QED
    BY <2>2, <2>3, <2>4, <2>5, <2>6, <2>7, <2>8 DEF TypeOK
<1> QED
  BY <1>1, CheckoutInvHolds, PTL

(* What a save commits is what it wrote, whatever the scheduled run pulls  *)
(* meanwhile (git_commit_file beside git_sync_now).                        *)
THEOREM EditsReachCommits == Spec => []EditReachesCommit
<1>1. IInv => EditReachesCommit
  BY DEF IInv, EditStands, EditReachesCommit
<1> QED
  BY <1>1, CheckoutInvHolds, PTL

(* No step takes a commit from the checkout that no remote has, unless the *)
(* admin forced it or a re-clone got no answer to whether there is a       *)
(* checkout (_ahead_count, reset, reclone, set_remote).                    *)
THEOREM UnpushedCommitsSurvive == Spec => UnpushedSurvive
<1> DEFINE Kept == \A v \in head \ head' :
                      \/ \E r \in Remotes : v \in up'[r]
                      \/ req["web"].force
                      \/ req["web"].blind
<1>1. IInv /\ [Next]_vars => [Kept]_vars
  <2> SUFFICES ASSUME IInv, Next PROVE Kept
    OBVIOUS
  <2>1. CASE head \subseteq head'
    BY <2>1
  <2>2. CASE RepoStep
    <3>1. CASE ResetHard
      <4>1. head \subseteq up[origin] \/ req["web"].force \/ req["web"].blind
        BY <3>1 DEF ResetHard, At, IInv, NothingAhead
      <4>2. up' = up /\ origin \in Remotes
        BY <3>1 DEF ResetHard, IInv, StateOK
      <4> QED
        BY <4>1, <4>2
    <3>2. CASE ClearAll \/ ClearSome
      <4>1. head \subseteq up[origin] \/ req["web"].force \/ req["web"].blind
        BY <3>2 DEF ClearAll, ClearSome, At, IInv, NothingAhead
      <4>2. up' = up /\ origin \in Remotes
        BY <3>2 DEF ClearAll, ClearSome, Clear, IInv, StateOK
      <4> QED
        BY <4>1, <4>2
    <3>3. CASE InstallAll \/ InstallSome
      BY <3>3 DEF InstallAll, InstallSome, At, IInv, GoneIsEmpty
    <3>4. CASE AheadCheck \/ ResetClean \/ SetUrl \/ StageClone
      BY <3>4 DEF AheadCheck, ResetClean, SetUrl, StageClone, gitVars
    <3> QED
      BY <2>2, <3>1, <3>2, <3>3, <3>4 DEF RepoStep
  <2>3. FileRequest \/ RepoRequest \/ FormulaRequest => head' = head
    BY DEF FileRequest, RepoRequest, FormulaRequest, Sync, Save, Fetch, Push, Reset, SetRemote,
           Reclone, Clone, ReVendor, Add, Track, Update, Remove, gitVars
  <2>4. SyncStep("web") \/ SyncStep("cron") => head \subseteq head'
    BY DEF SyncStep, SyncPull, SyncRefresh, SyncStatus, CheckedOut, HalfCheckedOut, Forward,
           gitVars
  <2>5. FileStep => head \subseteq head'
    BY DEF FileStep, SaveWrite, CommitAdd, Commit, PushSend, WebRefresh, gitVars
  <2>6. FormulaStep => head' = head
    BY DEF FormulaStep, NextRow, FormulaClone, FormulaDrop, FormulaInstall, FormulaExclude,
           FormulaRow, gitVars
  <2>7. CronStart \/ Crash("web") \/ Crash("cron") \/ (\E r \in Remotes : UpstreamCommit(r))
           \/ (\E f \in Formulas : PlaceByHand(f))
           => head' = head
    BY DEF CronStart, Crash, UpstreamCommit, PlaceByHand, gitVars
  <2> QED
    BY <2>1, <2>2, <2>3, <2>4, <2>5, <2>6, <2>7 DEF Next
<1> QED
  BY <1>1, CheckoutInvHolds, PTL DEF Spec, UnpushedSurvive

(* A cleaning reset keeps every formula a request has installed to the     *)
(* end, whatever was cut short or re-cloned since (reset,                  *)
(* _add_formula_exclude, _re_vendor_row).                                  *)
THEOREM CleansKeepFormulas == Spec => CleanKeepsFormulas
<1> DEFINE Kept == req["web"].pc = "clean" => vendored \subseteq tree'
<1>1. IInv /\ [Next]_vars => [Kept]_vars
  <2> SUFFICES ASSUME IInv, Next, req["web"].pc = "clean" PROVE vendored \subseteq tree'
    OBVIOUS
  <2>1. vendored \subseteq tree /\ vendored \subseteq excl
    BY DEF IInv, VendoredExcluded, GoneIsEmpty
  <2>2. RepoStep => vendored \subseteq tree'
    BY <2>1 DEF RepoStep, AheadCheck, ResetHard, ResetClean, SetUrl, StageClone, ClearAll,
           ClearSome, InstallAll, InstallSome, At, srvVars
  <2>3. FormulaStep => tree' = tree
    BY DEF FormulaStep, NextRow, FormulaClone, FormulaDrop, FormulaInstall, FormulaExclude,
           FormulaRow, At, srvVars
  <2>4. FileRequest \/ RepoRequest \/ FormulaRequest => tree' = tree
    BY DEF FileRequest, RepoRequest, FormulaRequest, Sync, Save, Fetch, Push, Reset, SetRemote,
           Reclone, Clone, ReVendor, Add, Track, Update, Remove, srvVars
  <2>5. SyncStep("web") \/ SyncStep("cron") \/ FileStep => tree' = tree
    BY DEF SyncStep, SyncPull, SyncRefresh, SyncStatus, FileStep, SaveWrite, CommitAdd, Commit,
           PushSend, WebRefresh, srvVars
  <2>6. CronStart \/ Crash("web") \/ Crash("cron") \/ (\E r \in Remotes : UpstreamCommit(r))
           => tree' = tree
    BY DEF CronStart, Crash, UpstreamCommit, srvVars
  <2>7. (\E f \in Formulas : PlaceByHand(f)) => tree \subseteq tree'
    BY DEF PlaceByHand
  <2> QED
    BY <2>1, <2>2, <2>3, <2>4, <2>5, <2>6, <2>7 DEF Next
<1> QED
  BY <1>1, CheckoutInvHolds, PTL DEF Spec, CleanKeepsFormulas
=============================================================================
