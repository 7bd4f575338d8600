------------------------- MODULE MasterConfigProofs -------------------------
(***************************************************************************)
(* What MasterConfig guarantees for any number of admins, pods, items,     *)
(* requests and rollouts.                                                  *)
(***************************************************************************)
EXTENDS MasterConfig, SequenceTheorems, TLAPS

-----------------------------------------------------------------------------
(* Facts about the operators.                                               *)

LEMMA IdleType == Idle \in Request /\ Len(Idle.revs) <= HISTORY_LIMIT
<1>1. <<>> \in Seq(Contents) /\ Len(<<>>) = 0
  OBVIOUS
<1> QED  BY <1>1, LimitsAssumption DEF Idle, Request, Kinds, Steps, Contents

LEMMA ToggleType ==
    ASSUME NEW S, NEW set \in SUBSET S, NEW x \in S
    PROVE  Toggle(set, x) \in SUBSET S
BY DEF Toggle

\* The files of the form over those that are live are a content.
LEMMA MergedType ==
    ASSUME NEW data \in Contents, NEW given \in Contents, NEW x \in Items
    PROVE  Merged(data, given, x) \in Contents
BY DEF Merged, Contents, File, Toggle, Items, MasterConf

\* An edit of the content that the form showed is one edit of that content.
LEMMA MergedIsToggle ==
    ASSUME NEW data \in Contents, NEW x \in Items
    PROVE  Merged(data, data, x) = Toggle(data, x)
BY ItemsAssumption DEF Merged, Contents, File, Toggle, Items, MasterConf

\* How many revisions a snapshot drops from the history.
Dropped(revs) == IF Len(revs) = HISTORY_LIMIT THEN 1 ELSE 0

\* The history keeps its newest HISTORY_LIMIT revisions, the appended one last.
LEMMA CappedAppend ==
    ASSUME NEW S, NEW revs \in Seq(S), NEW x \in S, Len(revs) <= HISTORY_LIMIT
    PROVE  LET new == Capped(Append(revs, x))
               drop == Dropped(revs)
           IN  /\ new \in Seq(S)
               /\ Len(new) = Len(revs) + 1 - drop
               /\ new[Len(new)] = x
               /\ \A i \in 1..Len(revs) - drop : new[i] = revs[i + drop]
<1> DEFINE u == Append(revs, x)
           n == Len(u)
           drop == Dropped(revs)
           new == Capped(u)
<1>1. /\ u \in Seq(S) /\ n = Len(revs) + 1 /\ u[n] = x /\ Len(revs) \in Nat
      /\ \A i \in 1..Len(revs) : u[i] = revs[i]
  BY AppendProperties, LenProperties
<1>2. HISTORY_LIMIT \in Nat \ {0} /\ drop \in {0, 1} /\ n \in Nat
  BY <1>1, LimitsAssumption DEF Dropped
<1> HIDE DEF u
<1>3. (IF n > HISTORY_LIMIT THEN n - HISTORY_LIMIT + 1 ELSE 1) = 1 + drop
  BY <1>1, <1>2 DEF Dropped
<1>4. new = SubSeq(u, 1 + drop, n)
  BY <1>3 DEF Capped
<1>5. \A i \in (1 + drop)..n : u[i] \in S
  BY <1>1, <1>2, ElementOfSeq
<1>6. /\ new \in Seq(S) /\ Len(new) = n - drop
      /\ \A i \in 1..n - drop : new[i] = u[i + drop]
  <2> HIDE DEF drop, n, new
  <2>1. /\ SubSeq(u, 1 + drop, n) \in Seq(S)
        /\ Len(SubSeq(u, 1 + drop, n)) = IF 1 + drop <= n THEN n - (1 + drop) + 1 ELSE 0
        /\ \A i \in 1..n - (1 + drop) + 1 : SubSeq(u, 1 + drop, n)[i] = u[(1 + drop) + i - 1]
    BY <1>2, <1>5, SubSeqProperties
  <2>2. 1 + drop <= n
    BY <1>1, <1>2 DEF drop, Dropped
  <2> QED  BY <1>2, <1>4, <2>1, <2>2
<1> HIDE DEF new, n, drop
<1>7. \A i \in 1..Len(revs) - drop : new[i] = revs[i + drop]
  <2> TAKE i \in 1..Len(revs) - drop
  <2>1. i + drop \in 1..Len(revs) /\ i \in 1..n - drop
    BY <1>1, <1>2
  <2> QED  BY <1>1, <1>6, <2>1
<1>8. new[Len(new)] = x
  <2>1. n - drop \in 1..n - drop /\ (n - drop) + drop = n
    BY <1>1, <1>2 DEF drop, Dropped
  <2>2. new[n - drop] = u[(n - drop) + drop]
    BY <1>6, <2>1
  <2>3. new[n - drop] = x
    BY <1>1, <2>1, <2>2
  <2> QED  BY <1>6, <2>3
<1>9. Len(new) = Len(revs) + 1 - drop
  BY <1>1, <1>2, <1>6
<1> QED  BY <1>6, <1>7, <1>8, <1>9 DEF new, drop, u

-----------------------------------------------------------------------------
(* Type correctness.                                                        *)

\* What a request of each kind changes, and the steps only one kind takes.
Shape(y) ==
    /\ y.kind \in {"save", "persist"} => y.item \in Items
    /\ y.kind = "group" => y.item \in Groups
    /\ y.kind # "idle" /\ y.step = "form" => y.kind = "save"
    /\ y.step = "sync" => y.kind = "group"
    /\ Len(y.revs) <= HISTORY_LIMIT

\* The strengthening of TypeOK that is inductive.
TypeInv == TypeOK /\ \A a \in Admins : Shape(req[a])

LEMMA InitTypeInv == Init => TypeInv
<1> SUFFICES ASSUME Init PROVE TypeInv
  OBVIOUS
<1>1. \A a \in Admins : req[a] = Idle
  BY DEF Init
<1>2. \A a \in Admins : Shape(req[a])
  BY <1>1, IdleType DEF Shape, Idle
<1>3. left \in [posts: Nat, rollouts: Nat]
  BY LimitsAssumption DEF Init
<1>4. <<>> \in Seq(Contents) /\ Len(<<>>) = 0
  OBVIOUS
<1>5. /\ hist \in [revs: Seq(Contents), rv: Nat] /\ Len(hist.revs) <= HISTORY_LIMIT
      /\ live \in [data: Contents, rv: Nat] /\ past \subseteq Contents
  BY <1>4, LimitsAssumption DEF Init, Contents
<1>6. req \in [Admins -> Request]
  BY IdleType DEF Init
<1>7. state \in [status: Statuses, age: 0..RESTART_STALE + 1]
  BY LimitsAssumption DEF Init, Statuses
<1>8. TypeOK
  <2>1. page \in Page
    BY DEF Init, Page, NoPage
  <2> QED  BY <1>3, <1>5, <1>6, <1>7, <2>1 DEF Init, TypeOK
<1> QED  BY <1>2, <1>8 DEF TypeInv

\* One request goes on as y.
LEMMA GoTypeInv ==
    ASSUME TypeInv, NEW a \in Admins, NEW y \in Request, Shape(y),
           req' = [req EXCEPT ![a] = y]
    PROVE  req' \in [Admins -> Request] /\ \A b \in Admins : Shape(req'[b])
BY DEF TypeInv, TypeOK

\* A request arrives.
LEMMA SubmitsTypeInv ==
    ASSUME TypeInv, NEW a \in Admins, Submits(a)
    PROVE  TypeInv'
<1> USE DEF flagVars, clusterVars
<1>1. ASSUME NEW y \in Request, Shape(y), Start(a, y),
             UNCHANGED <<live, hist, past, rows, flagVars, page, clusterVars, state, threads>>
      PROVE  TypeInv'
  <2>1. req' \in [Admins -> Request] /\ \A b \in Admins : Shape(req'[b])
    BY <1>1, GoTypeInv DEF Start
  <2>2. left' \in [posts: Nat, rollouts: Nat]
    <3>1. /\ left \in [posts: Nat, rollouts: Nat] /\ left.posts > 0
          /\ left' = [left EXCEPT !.posts = @ - 1]
      BY <1>1 DEF Start, TypeInv, TypeOK
    <3> QED  BY <3>1
  <2> QED  BY <1>1, <2>1, <2>2 DEF TypeInv, TypeOK
<1>2. live.data \in Contents /\ live.rv \in Nat
  BY DEF TypeInv, TypeOK
<1>3. ASSUME NEW x \in Items, edit(a, x)
      PROVE  TypeInv'
  <2> DEFINE y == [Idle EXCEPT !.kind = "save", !.item = x, !.given = live.data,
                               !.base = live.rv]
  <2>1. y \in Request /\ Shape(y)
    BY <1>2, IdleType DEF Request, Shape, Kinds, Idle
  <2> HIDE DEF y
  <2> QED  BY <1>1, <1>3, <2>1 DEF edit, y
<1>4. ASSUME NEW x \in Items, persist_to_master_conf(a, x)
      PROVE  TypeInv'
  <2> DEFINE y == [Idle EXCEPT !.kind = "persist", !.item = x, !.step = "hist",
                               !.data = live.data, !.rv = live.rv, !.base = live.rv,
                               !.next = live.data \cup {x}]
  <2>1. live.data \cup {x} \in Contents
    BY <1>2 DEF Contents
  <2>2. y \in Request /\ Shape(y)
    BY <1>2, <2>1, IdleType DEF Request, Shape, Kinds, Steps, Idle
  <2> HIDE DEF y
  <2> QED  BY <1>1, <1>4, <2>2 DEF persist_to_master_conf, y
<1>5. ASSUME NEW x \in Items, load_nodegroups(a, x)
      PROVE  TypeInv'
  <2> DEFINE y == [Idle EXCEPT !.kind = "group", !.item = x, !.step = "read",
                               !.given = Toggle(live.data \cap Groups, x)]
  <2>1. Toggle(live.data \cap Groups, x) \in Contents
    BY <1>2 DEF Contents, Toggle
  <2>2. y \in Request /\ Shape(y)
    BY <1>5, <2>1, IdleType DEF Request, Shape, Kinds, Steps, Idle, load_nodegroups
  <2> HIDE DEF y
  <2> QED  BY <1>1, <1>5, <2>2 DEF load_nodegroups, y
<1>6. CASE revert(a)
  <2> DEFINE y == [Idle EXCEPT !.kind = "revert", !.step = "read", !.next = Last(hist.revs)]
  <2>1. Last(hist.revs) \in Contents
    <3>1. hist.revs \in Seq(Contents) /\ hist.revs # <<>>
      BY <1>6 DEF revert, TypeInv, TypeOK
    <3> QED  BY <3>1, LenProperties, ElementOfSeq, EmptySeq DEF Last
  <2>2. y \in Request /\ Shape(y)
    BY <2>1, IdleType DEF Request, Shape, Kinds, Steps, Idle
  <2> HIDE DEF y
  <2> QED  BY <1>1, <1>6, <2>2 DEF revert, y
<1>7. CASE restart(a)
  <2> DEFINE y == [Idle EXCEPT !.kind = "restart", !.step = "stamp"]
  <2>1. y \in Request /\ Shape(y)
    BY IdleType DEF Request, Shape, Kinds, Steps, Idle
  <2> HIDE DEF y
  <2> QED  BY <1>1, <1>7, <2>1 DEF restart, y
<1> QED  BY <1>3, <1>4, <1>5, <1>6, <1>7 DEF Submits

\* A request ends.
LEMMA DoneType ==
    ASSUME TypeInv, NEW a \in Admins, Done(a)
    PROVE  req' \in [Admins -> Request] /\ \A b \in Admins : Shape(req'[b])
<1>1. Shape(Idle)
  BY IdleType DEF Shape, Idle
<1> QED  BY <1>1, IdleType, GoTypeInv DEF Done, Go

\* A PUT of the live content.
LEMMA ReplaceType ==
    ASSUME TypeInv, NEW data \in Contents, Replace(data)
    PROVE  /\ live' \in [data: Contents, rv: Nat] /\ past' \subseteq Contents
           /\ live'.data = data /\ past' = past \cup {data}
           /\ live'.rv = IF data = live.data THEN live.rv ELSE live.rv + 1
<1>1. live.rv \in Nat /\ past \subseteq Contents
  BY DEF TypeInv, TypeOK
<1> QED  BY <1>1 DEF Replace

\* The steps of a request that only read, or write the history or the content.
LEMMA WriteStepTypeInv ==
    ASSUME TypeInv, NEW a \in Admins,
           \/ save(a) \/ write_nodegroups(a) \/ revert_read(a) \/ revert_fresh(a)
           \/ read_history(a) \/ snapshot(a) \/ replace_live(a)
    PROVE  TypeInv'
<1> USE DEF flagVars, clusterVars
<1>1. /\ live.data \in Contents /\ live.rv \in Nat /\ hist.rv \in Nat
      /\ hist.revs \in Seq(Contents) /\ Len(hist.revs) <= HISTORY_LIMIT
      /\ req[a] \in Request /\ Shape(req[a]) /\ TypeOK
  BY DEF TypeInv, TypeOK
<1>2. ASSUME UNCHANGED <<rows, flagVars, page, clusterVars, state, threads, left>>,
             live' \in [data: Contents, rv: Nat], past' \subseteq Contents,
             hist' \in [revs: Seq(Contents), rv: Nat], Len(hist'.revs) <= HISTORY_LIMIT,
             req' \in [Admins -> Request], \A b \in Admins : Shape(req'[b])
      PROVE  TypeInv'
  BY <1>1, <1>2 DEF TypeInv, TypeOK
<1>3. ASSUME NEW y \in Request, Shape(y), Go(a, y),
             UNCHANGED <<live, hist, past, rows, flagVars, page, clusterVars, state, threads, left>>
      PROVE  TypeInv'
  <2>1. req' \in [Admins -> Request] /\ \A b \in Admins : Shape(req'[b])
    BY <1>3, GoTypeInv DEF Go
  <2> QED  BY <1>1, <1>2, <1>3, <2>1 DEF TypeOK
<1>4. CASE save(a)
  <2> DEFINE next == Merged(live.data, req[a].given, req[a].item)
             y == [req[a] EXCEPT !.step = "hist", !.data = live.data, !.rv = live.rv,
                                 !.next = next]
  <2>1. At(a, "form") /\ UNCHANGED <<live, hist, past, rows, flagVars, page, clusterVars,
                                     state, threads, left>>
    BY <1>4 DEF save
  <2>2. next \in Contents
    BY <1>1, <2>1, MergedType DEF At, Shape, Request
  <2>3. CASE Go(a, y)
    <3>1. y \in Request /\ Shape(y)
      <4> HIDE DEF next
      <4> QED  BY <1>1, <2>2 DEF Request, Shape, Steps
    <3> HIDE DEF y
    <3> QED  BY <1>3, <2>1, <2>3, <3>1
  <2>4. CASE Done(a)
    BY <1>1, <1>2, <2>1, <2>4, DoneType DEF TypeOK
  <2> QED  BY <1>4, <2>3, <2>4 DEF save
<1>5. CASE write_nodegroups(a)
  <2> DEFINE y == [req[a] EXCEPT !.step = "put", !.base = live.rv,
                            !.next = (live.data \ Groups) \cup req[a].given]
  <2>1. (live.data \ Groups) \cup req[a].given \in Contents
    BY <1>1 DEF Request, Contents
  <2>2. y \in Request /\ Shape(y)
    BY <1>1, <2>1 DEF Request, Shape, Steps
  <2> HIDE DEF y
  <2> QED  BY <1>3, <1>5, <2>2 DEF write_nodegroups, y
<1>6. CASE revert_read(a)
  <2> DEFINE y == [req[a] EXCEPT !.step = "hist", !.data = live.data, !.rv = live.rv]
  <2>1. y \in Request /\ Shape(y)
    BY <1>1 DEF Request, Shape, Steps
  <2> HIDE DEF y
  <2> QED  BY <1>3, <1>6, <2>1 DEF revert_read, y
<1>7. CASE revert_fresh(a)
  <2> DEFINE y == [req[a] EXCEPT !.step = "put", !.base = live.rv]
  <2>1. y \in Request /\ Shape(y)
    BY <1>1 DEF Request, Shape, Steps
  <2> HIDE DEF y
  <2> QED  BY <1>3, <1>7, <2>1 DEF revert_fresh, y
<1>8. CASE read_history(a)
  <2> DEFINE y == [req[a] EXCEPT !.step = "hput", !.revs = hist.revs, !.hrv = hist.rv]
  <2>1. y \in Request /\ Shape(y)
    BY <1>1 DEF Request, Shape, Steps
  <2> HIDE DEF y
  <2> QED  BY <1>3, <1>8, <2>1 DEF read_history, y
<1>9. CASE snapshot(a)
  <2>0. UNCHANGED <<live, past, rows, flagVars, page, clusterVars, state, threads, left>>
    BY <1>9 DEF snapshot
  <2>1. CASE Stale(hist, req[a].hrv)
    <3> DEFINE y == [req[a] EXCEPT !.step = "hist", !.retried = TRUE]
    <3>1. y \in Request /\ Shape(y)
      BY <1>1 DEF Request, Shape, Steps
    <3> HIDE DEF y
    <3>2. UNCHANGED hist /\ (Done(a) \/ Go(a, y))
      BY <1>9, <2>1 DEF snapshot, y
    <3>3. CASE Done(a)
      BY <1>1, <1>2, <2>0, <3>2, <3>3, DoneType DEF TypeOK
    <3>4. CASE Go(a, y)
      BY <1>3, <2>0, <3>1, <3>2, <3>4
    <3> QED  BY <3>2, <3>3, <3>4
  <2>2. CASE ~Stale(hist, req[a].hrv)
    <3> DEFINE new == Capped(Append(req[a].revs, req[a].data))
               st == IF req[a].kind = "revert" THEN "fresh" ELSE "put"
               none == <<>>
               y == [req[a] EXCEPT !.step = st, !.snap = hist.rv + 1, !.revs = none,
                                   !.hrv = 0, !.retried = FALSE]
    <3>1. none \in Seq(Contents) /\ Len(none) = 0 /\ st \in {"fresh", "put"}
      OBVIOUS
    <3>2. y \in Request /\ Shape(y)
      <4>1. hist.rv + 1 \in Nat /\ 0 \in Nat /\ 0 <= HISTORY_LIMIT /\ st \in Steps
        BY <1>1, <3>1, LimitsAssumption DEF Steps
      <4> HIDE DEF st, none
      <4>2. y \in Request
        BY <1>1, <3>1, <4>1 DEF Request
      <4>3. y.kind = req[a].kind /\ y.item = req[a].item /\ y.step = st /\ y.revs = none
        BY <1>1 DEF Request
      <4> QED  BY <1>1, <3>1, <4>1, <4>2, <4>3 DEF Shape
    <3>3. hist' = [revs |-> new, rv |-> hist.rv + 1] /\ Go(a, y)
      BY <1>9, <2>2 DEF snapshot
    <3>4. new \in Seq(Contents) /\ Len(new) <= HISTORY_LIMIT
      <4>1. /\ req[a].revs \in Seq(Contents) /\ req[a].data \in Contents
            /\ Len(req[a].revs) <= HISTORY_LIMIT
        BY <1>1 DEF Request, Shape
      <4>2. Len(req[a].revs) \in Nat
        BY <4>1, LenProperties
      <4>3. /\ new \in Seq(Contents)
            /\ Len(new) = Len(req[a].revs) + 1 - Dropped(req[a].revs)
        BY <4>1, CappedAppend
      <4> HIDE DEF new
      <4> QED  BY <4>1, <4>2, <4>3, LimitsAssumption DEF Dropped
    <3> HIDE DEF y, new
    <3>5. req' \in [Admins -> Request] /\ \A b \in Admins : Shape(req'[b])
      BY <3>2, <3>3, GoTypeInv DEF Go
    <3>6. hist' \in [revs: Seq(Contents), rv: Nat] /\ Len(hist'.revs) <= HISTORY_LIMIT
      BY <1>1, <3>3, <3>4
    <3> QED  BY <1>1, <1>2, <2>0, <3>5, <3>6 DEF TypeOK
  <2> QED  BY <2>1, <2>2
<1>10. CASE replace_live(a)
  <2>0. UNCHANGED <<hist, rows, flagVars, page, clusterVars, state, threads, left>>
    BY <1>10 DEF replace_live
  <2>1. CASE Stale(live, req[a].base)
    <3>1. Done(a) /\ UNCHANGED <<live, past>>
      BY <1>10, <2>1 DEF replace_live
    <3> QED  BY <1>1, <1>2, <2>0, <3>1, DoneType DEF TypeOK
  <2>2. CASE ~Stale(live, req[a].base)
    <3> DEFINE st == IF req[a].kind = "revert" THEN "stamp" ELSE "flag"
               y == [Idle EXCEPT !.kind = req[a].kind, !.item = req[a].item,
                                 !.given = req[a].given, !.step = st]
    <3>1. st \in {"stamp", "flag"}
      OBVIOUS
    <3>2. y \in Request /\ Shape(y)
      <4> HIDE DEF st
      <4> QED  BY <1>1, <3>1, IdleType DEF Request, Shape, Steps, Idle
    <3>3. Replace(req[a].next) /\ Go(a, y)
      BY <1>10, <2>2 DEF replace_live
    <3> HIDE DEF y
    <3>4. req' \in [Admins -> Request] /\ \A b \in Admins : Shape(req'[b])
      BY <3>2, <3>3, GoTypeInv DEF Go
    <3>5. live' \in [data: Contents, rv: Nat] /\ past' \subseteq Contents
      BY <1>1, <3>3, ReplaceType DEF Request
    <3> QED  BY <1>1, <1>2, <2>0, <3>4, <3>5 DEF TypeOK
  <2> QED  BY <2>1, <2>2
<1> QED  BY <1>4, <1>5, <1>6, <1>7, <1>8, <1>9, <1>10

\* The steps of a request after its PUT, those of a restart, and its end.
LEMMA FlagStepTypeInv ==
    ASSUME TypeInv, NEW a \in Admins,
           \/ set_restart_needed(a) \/ record_restart_generation(a)
           \/ sync_to_minion_group(a) \/ restart_statefulset(a) \/ start_restart(a)
           \/ Stops(a)
    PROVE  TypeInv'
<1> USE DEF flagVars, clusterVars
<1>1. TypeOK /\ req[a] \in Request /\ Shape(req[a])
  BY DEF TypeInv, TypeOK
<1>2. ASSUME NEW st \in {"gen", "sync", "mark"}, st = "sync" => req[a].kind = "group",
             NEW rv \in Nat, NEW base \in Nat,
             Go(a, [req[a] EXCEPT !.step = st, !.rv = rv, !.base = base])
      PROVE  req' \in [Admins -> Request] /\ \A b \in Admins : Shape(req'[b])
  <2> DEFINE y == [req[a] EXCEPT !.step = st, !.rv = rv, !.base = base]
  <2>1. y \in Request
    BY <1>1, <1>2 DEF Request, Steps
  <2>2. y.kind = req[a].kind /\ y.item = req[a].item /\ y.step = st /\ y.revs = req[a].revs
    BY <1>1 DEF Request
  <2>3. Shape(y)
    BY <1>1, <1>2, <2>2 DEF Shape
  <2> HIDE DEF y
  <2> QED  BY <1>2, <2>1, <2>3, GoTypeInv DEF y, Go
<1>3. /\ [req[a] EXCEPT !.step = "gen"]
            = [req[a] EXCEPT !.step = "gen", !.rv = req[a].rv, !.base = req[a].base]
      /\ [req[a] EXCEPT !.step = "sync"]
            = [req[a] EXCEPT !.step = "sync", !.rv = req[a].rv, !.base = req[a].base]
      /\ req[a].rv \in Nat /\ req[a].base \in Nat
  BY <1>1 DEF Request
<1>4. CASE set_restart_needed(a)
  <2>1. req' \in [Admins -> Request] /\ \A b \in Admins : Shape(req'[b])
    BY <1>2, <1>3, <1>4 DEF set_restart_needed
  <2> QED  BY <1>1, <1>4, <2>1 DEF set_restart_needed, TypeInv, TypeOK
<1>5. CASE record_restart_generation(a)
  <2>1. req' \in [Admins -> Request] /\ \A b \in Admins : Shape(req'[b])
    BY <1>2, <1>3, <1>5, DoneType DEF record_restart_generation, After
  <2>2. flagGen' \in Nat /\ flagRv' \in Nat
    BY <1>1, <1>5 DEF record_restart_generation, TypeOK
  <2> QED  BY <1>1, <1>5, <2>1, <2>2 DEF record_restart_generation, TypeInv, TypeOK
<1>6. CASE sync_to_minion_group(a)
  <2>1. req' \in [Admins -> Request] /\ \A b \in Admins : Shape(req'[b])
    BY <1>6, DoneType DEF sync_to_minion_group
  <2>2. req[a].item \in Groups
    BY <1>1, <1>6 DEF sync_to_minion_group, At, Shape
  <2>3. rows' \subseteq Groups
    BY <1>1, <1>6, <2>2 DEF sync_to_minion_group, TypeOK
  <2> QED  BY <1>1, <1>6, <2>1, <2>3 DEF sync_to_minion_group, TypeInv, TypeOK
<1>7. CASE restart_statefulset(a)
  <2>1. sts.gen + 1 \in Nat /\ live.rv \in Nat
    BY <1>1 DEF TypeOK
  <2>2. req' \in [Admins -> Request] /\ \A b \in Admins : Shape(req'[b])
    BY <1>2, <1>7, <2>1 DEF restart_statefulset
  <2>3. sts' \in [gen: Nat, observed: Nat]
    <3>1. sts \in [gen: Nat, observed: Nat] /\ sts' = [sts EXCEPT !.gen = @ + 1]
      BY <1>1, <1>7 DEF restart_statefulset, TypeOK
    <3> QED  BY <3>1
  <2>4. left' \in [posts: Nat, rollouts: Nat]
    <3>1. /\ left \in [posts: Nat, rollouts: Nat] /\ left.rollouts > 0
          /\ left' = [left EXCEPT !.rollouts = @ - 1]
      BY <1>1, <1>7 DEF restart_statefulset, TypeOK
    <3> QED  BY <3>1
  <2> QED  BY <1>1, <1>7, <2>2, <2>3, <2>4 DEF restart_statefulset, TypeInv, TypeOK
<1>8. CASE start_restart(a)
  <2>1. req' \in [Admins -> Request] /\ \A b \in Admins : Shape(req'[b])
    BY <1>8, DoneType DEF start_restart
  <2>2. [gen |-> req[a].base, rv |-> req[a].rv, polls |-> 0, phase |-> "wait"] \in Thread
    BY <1>3, LimitsAssumption DEF Thread
  <2>3. threads' \subseteq Thread /\ state' \in [status: Statuses, age: 0..RESTART_STALE + 1]
    BY <1>1, <1>8, <2>2, LimitsAssumption DEF start_restart, TypeOK, Statuses
  <2> QED  BY <1>1, <1>8, <2>1, <2>3 DEF start_restart, TypeInv, TypeOK
<1>9. CASE Stops(a)
  <2>1. req' \in [Admins -> Request] /\ \A b \in Admins : Shape(req'[b])
    BY <1>9, DoneType DEF Stops
  <2> QED  BY <1>1, <1>9, <2>1 DEF Stops, TypeInv, TypeOK
<1> QED  BY <1>4, <1>5, <1>6, <1>7, <1>8, <1>9

\* Steps of the restart threads.
LEMMA ThreadTypeInv ==
    ASSUME TypeInv, NEW t \in threads, ThreadStep(t) \/ ThreadDies(t)
    PROVE  TypeInv'
<1> USE DEF flagVars, clusterVars
<1>1. TypeOK /\ t \in Thread /\ threads \subseteq Thread
  BY DEF TypeInv, TypeOK
<1>2. ASSUME NEW ph \in {"health", "ok", "failed", "clear"}, Move(t, ph)
      PROVE  threads' \subseteq Thread
  <2>1. [t EXCEPT !.phase = ph] \in Thread
    BY <1>1 DEF Thread
  <2> QED  BY <1>1, <1>2, <2>1 DEF Move
<1>3. threads' \subseteq Thread
  BY <1>1, <1>2 DEF ThreadStep, wait_rollout, rollout_timed_out, salt_api_healthy,
                    finish_restart, clear_restart_needed, ThreadDies
<1>4. state' \in [status: Statuses, age: 0..RESTART_STALE + 1]
  <2>1. state \in [status: Statuses, age: 0..RESTART_STALE + 1]
    BY <1>1 DEF TypeOK
  <2>2. CASE finish_restart(t)
    BY <1>1, <2>2, LimitsAssumption DEF finish_restart, Statuses
  <2>3. CASE ~finish_restart(t)
    BY <2>1, <2>3 DEF ThreadStep, wait_rollout, rollout_timed_out, salt_api_healthy,
                      clear_restart_needed, ThreadDies
  <2> QED  BY <2>2, <2>3
<1>5. flag' \in BOOLEAN /\ flagGen' \in Nat /\ flagRv' \in Nat
  <2>1. ClearFlag \/ UNCHANGED flagVars
    BY DEF ThreadStep, wait_rollout, rollout_timed_out, salt_api_healthy,
           finish_restart, clear_restart_needed, ThreadDies
  <2>2. flag \in BOOLEAN /\ flagGen \in Nat /\ flagRv \in Nat
    BY <1>1 DEF TypeOK
  <2>3. CASE ClearFlag
    BY <2>3 DEF ClearFlag
  <2>4. CASE UNCHANGED flagVars
    BY <2>2, <2>4
  <2> QED  BY <2>1, <2>3, <2>4
<1>6. UNCHANGED <<live, hist, past, req, rows, page, clusterVars, left>>
  BY DEF ThreadStep, wait_rollout, rollout_timed_out, salt_api_healthy,
         finish_restart, clear_restart_needed, ThreadDies
<1> QED  BY <1>1, <1>3, <1>4, <1>5, <1>6 DEF TypeInv, TypeOK

\* Steps of time, of the pages that read the flag and of the cluster.
LEMMA ClusterTypeInv ==
    ASSUME TypeInv,
           \/ Tick \/ PageStep \/ KubectlRestart \/ Observe
           \/ \E x \in Items : KubectlEdit(x)
           \/ \E p \in Pods : Roll(p) \/ Boot(p)
    PROVE  TypeInv'
<1> USE DEF flagVars, clusterVars
<1>1. TypeOK
  BY DEF TypeInv
<1>2. CASE Tick
  <2>1. state' \in [status: Statuses, age: 0..RESTART_STALE + 1]
    <3>1. /\ state \in [status: Statuses, age: 0..RESTART_STALE + 1]
          /\ state.age <= RESTART_STALE /\ state' = [state EXCEPT !.age = @ + 1]
      BY <1>1, <1>2 DEF Tick, TypeOK
    <3> QED  BY <3>1, LimitsAssumption
  <2>2. threads' \subseteq Thread
    <3>1. ASSUME NEW t \in threads
          PROVE  [t EXCEPT !.polls = @ + 1] \in Thread
      <4>1. t \in Thread /\ t.polls < RESTART_MAX_POLLS
        BY <1>1, <1>2 DEF Tick, TypeOK
      <4> QED  BY <4>1, LimitsAssumption DEF Thread
    <3> QED  BY <1>2, <3>1 DEF Tick
  <2> QED  BY <1>1, <1>2, <2>1, <2>2 DEF Tick, TypeInv, TypeOK
<1>3. CASE PageStep
  <2>1. page' \in Page
    <3>1. page \in Page /\ flagGen \in Nat
      BY <1>1 DEF TypeOK
    <3>2. CASE restart_needed
      BY <3>1, <3>2 DEF restart_needed, Page
    <3>3. CASE statefulset_rollout
      BY <3>1, <3>3 DEF statefulset_rollout, Page
    <3>4. CASE clear_superseded \/ PageEnds
      BY <3>4 DEF clear_superseded, PageEnds, Page, NoPage
    <3> QED  BY <1>3, <3>2, <3>3, <3>4 DEF PageStep
  <2>2. flag' \in BOOLEAN /\ flagGen' \in Nat /\ flagRv' \in Nat
    <3>1. CASE clear_superseded
      BY <3>1 DEF clear_superseded, ClearFlag
    <3>2. CASE UNCHANGED flagVars
      BY <1>1, <3>2 DEF TypeOK
    <3> QED  BY <1>3, <3>1, <3>2 DEF PageStep, restart_needed, statefulset_rollout, PageEnds
  <2>3. UNCHANGED <<live, hist, past, req, rows, clusterVars, state, threads, left>>
    BY <1>3 DEF PageStep, restart_needed, statefulset_rollout, clear_superseded, PageEnds
  <2> QED  BY <1>1, <2>1, <2>2, <2>3 DEF TypeInv, TypeOK
<1>4. CASE KubectlRestart
  <2>1. left' \in [posts: Nat, rollouts: Nat]
    <3>1. /\ left \in [posts: Nat, rollouts: Nat] /\ left.rollouts > 0
          /\ left' = [left EXCEPT !.rollouts = @ - 1]
      BY <1>1, <1>4 DEF KubectlRestart, TypeOK
    <3> QED  BY <3>1
  <2>2. sts' \in [gen: Nat, observed: Nat]
    <3>1. sts \in [gen: Nat, observed: Nat] /\ sts' = [sts EXCEPT !.gen = @ + 1]
      BY <1>1, <1>4 DEF KubectlRestart, TypeOK
    <3> QED  BY <3>1
  <2> QED  BY <1>1, <1>4, <2>1, <2>2 DEF KubectlRestart, TypeInv, TypeOK
<1>5. CASE Observe
  BY <1>1, <1>5 DEF Observe, TypeInv, TypeOK
<1>6. ASSUME NEW x \in Items, KubectlEdit(x)
      PROVE  TypeInv'
  <2>1. left' \in [posts: Nat, rollouts: Nat]
    <3>1. /\ left \in [posts: Nat, rollouts: Nat] /\ left.posts > 0
          /\ left' = [left EXCEPT !.posts = @ - 1]
      BY <1>1, <1>6 DEF KubectlEdit, TypeOK
    <3> QED  BY <3>1
  <2>2. Toggle(live.data, x) \in Contents
    BY <1>1, ToggleType DEF TypeOK, Contents
  <2>3. live' \in [data: Contents, rv: Nat] /\ past' \subseteq Contents
    BY <1>6, <2>2, ReplaceType DEF KubectlEdit
  <2> QED  BY <1>1, <1>6, <2>1, <2>3 DEF KubectlEdit, TypeInv, TypeOK
<1>7. ASSUME NEW p \in Pods, Roll(p) \/ Boot(p)
      PROVE  TypeInv'
  <2>1. pod' \in [Pods -> [gen: Nat, rv: Nat, ready: BOOLEAN]]
    <3> DEFINE P == [gen: Nat, rv: Nat, ready: BOOLEAN]
    <3>1. pod \in [Pods -> P] /\ pod[p] \in P /\ sts.observed \in Nat /\ live.rv \in Nat
      BY <1>1 DEF TypeOK
    <3>2. /\ [pod[p] EXCEPT !.gen = sts.observed, !.ready = FALSE] \in P
          /\ [pod[p] EXCEPT !.ready = TRUE, !.rv = live.rv] \in P
      BY <3>1
    <3>3. \/ pod' = [pod EXCEPT ![p] = [pod[p] EXCEPT !.gen = sts.observed, !.ready = FALSE]]
          \/ pod' = [pod EXCEPT ![p] = [pod[p] EXCEPT !.ready = TRUE, !.rv = live.rv]]
      BY <1>7, <3>1 DEF Roll, Boot
    <3> HIDE DEF P
    <3>4. pod' \in [Pods -> P]
      BY <3>1, <3>2, <3>3
    <3> QED  BY <3>4 DEF P
  <2> QED  BY <1>1, <1>7, <2>1 DEF Roll, Boot, TypeInv, TypeOK
<1> QED  BY <1>2, <1>3, <1>4, <1>5, <1>6, <1>7

LEMMA NextTypeInv == TypeInv /\ [Next]_vars => TypeInv'
<1> SUFFICES ASSUME TypeInv, [Next]_vars PROVE TypeInv'
  OBVIOUS
<1>1. CASE UNCHANGED vars
  BY <1>1 DEF vars, flagVars, clusterVars, TypeInv, TypeOK
<1> QED  BY <1>1, SubmitsTypeInv, WriteStepTypeInv, FlagStepTypeInv, ThreadTypeInv,
            ClusterTypeInv DEF Next, Proceeds

\* The ConfigMaps, the requests, the flag and the restart rows keep their
\* shape for any number of admins, pods and items, and the history never
\* holds more than HISTORY_LIMIT revisions.
THEOREM TypeCorrect == Spec => []TypeOK
<1>1. Init => TypeInv
  BY InitTypeInv
<1>2. TypeInv /\ [Next]_vars => TypeInv'
  BY NextTypeInv
<1>3. TypeInv => TypeOK
  BY DEF TypeInv
<1> QED  BY <1>1, <1>2, <1>3, PTL DEF Spec

-----------------------------------------------------------------------------
(* The snapshot.                                                            *)

\* y and z agree on what the request is and on what it will PUT.
SameWrite(y, z) ==
    /\ y.kind = z.kind /\ y.item = z.item /\ y.given = z.given /\ y.data = z.data
    /\ y.rv = z.rv /\ y.next = z.next /\ y.base = z.base

\* A snapshot is refused, tried again or taken.
LEMMA SnapshotEffect ==
    ASSUME TypeInv, NEW a \in Admins, snapshot(a)
    PROVE  /\ \A b \in Admins : b # a => req'[b] = req[b]
           /\ \/ UNCHANGED hist /\ req'[a] = Idle
              \/ UNCHANGED hist /\ SameWrite(req'[a], req[a]) /\ req'[a].step = "hist"
              \/ /\ hist.rv = req[a].hrv
                 /\ hist' = [revs |-> Capped(Append(req[a].revs, req[a].data)),
                             rv |-> hist.rv + 1]
                 /\ SameWrite(req'[a], req[a]) /\ req'[a].snap = hist.rv + 1
                 /\ req'[a].step = IF req[a].kind = "revert" THEN "fresh" ELSE "put"
<1>1. req \in [Admins -> Request] /\ req[a] \in Request
  BY DEF TypeInv, TypeOK
<1>2. \A b \in Admins : b # a => req'[b] = req[b]
  BY <1>1 DEF snapshot, Done, Go
<1>3. CASE Stale(hist, req[a].hrv) /\ req[a].retried
  BY <1>1, <1>2, <1>3 DEF snapshot, Done, Go
<1>4. CASE Stale(hist, req[a].hrv) /\ ~req[a].retried
  <2> DEFINE y == [req[a] EXCEPT !.step = "hist", !.retried = TRUE]
  <2>1. SameWrite(y, req[a]) /\ y.step = "hist"
    BY <1>1 DEF SameWrite, Request
  <2>2. UNCHANGED hist /\ req'[a] = y
    BY <1>1, <1>4 DEF snapshot, Go
  <2> HIDE DEF y
  <2> QED  BY <1>2, <2>1, <2>2
<1>5. CASE ~Stale(hist, req[a].hrv)
  <2> DEFINE st == IF req[a].kind = "revert" THEN "fresh" ELSE "put"
             none == <<>>
             n == hist.rv + 1
             y == [req[a] EXCEPT !.step = st, !.snap = n, !.revs = none,
                                 !.hrv = 0, !.retried = FALSE]
  <2>1. SameWrite(y, req[a]) /\ y.step = st /\ y.snap = n
    <3> HIDE DEF st, none, n
    <3> QED  BY <1>1 DEF SameWrite, Request
  <2>2. /\ hist' = [revs |-> Capped(Append(req[a].revs, req[a].data)), rv |-> n]
        /\ req'[a] = y
    BY <1>1, <1>5 DEF snapshot, Go
  <2>3. hist.rv = req[a].hrv
    BY <1>5 DEF Stale
  <2> HIDE DEF y
  <2> QED  BY <1>2, <2>1, <2>2, <2>3
<1> QED  BY <1>3, <1>4, <1>5

-----------------------------------------------------------------------------
(* Restarts and the flag.                                                   *)

\* A pod that is up with generation gen or a later one booted with revision
\* rv or a later one.
BootedSince(gen, rv) ==
    \A p \in Pods : pod[p].ready /\ pod[p].gen >= gen => pod[p].rv >= rv

\* Generation gen was stamped while revision rv was live.
StampedAt(gen, rv) == gen <= sts.gen /\ rv <= live.rv /\ BootedSince(gen, rv)

\* The controller and the pods follow the generations and the revisions.
ClusterInOrder ==
    /\ sts.observed <= sts.gen
    /\ \A p \in Pods : pod[p].gen <= sts.observed /\ pod[p].rv <= live.rv

\* What a restart, its thread and the recorded flag know of the rollout.  The
\* flag speaks of the generations after the one it recorded.
RestartInv ==
    /\ ClusterInOrder
    /\ \A a \in Admins : At(a, "mark") => StampedAt(req[a].base, req[a].rv)
    /\ \A t \in threads : StampedAt(t.gen, t.rv)
    /\ flagGen <= sts.gen /\ flagRv <= live.rv /\ BootedSince(flagGen + 1, flagRv)
    /\ RestartApplies

LEMMA InitRestartInv == Init => RestartInv
<1> SUFFICES ASSUME Init PROVE RestartInv
  OBVIOUS
<1>1. \A a \in Admins : ~At(a, "mark")
  BY DEF Init, At, Idle
<1>2. ClusterInOrder /\ BootedSince(flagGen + 1, flagRv)
  BY DEF Init, ClusterInOrder, BootedSince
<1> QED  BY <1>1, <1>2 DEF Init, RestartInv, RestartApplies

\* The numbers that the restart invariant compares.
LEMMA RestartTypes ==
    ASSUME TypeInv
    PROVE  /\ live.rv \in Nat /\ sts.gen \in Nat /\ sts.observed \in Nat
           /\ flagGen \in Nat /\ flagRv \in Nat
           /\ \A p \in Pods : pod[p].gen \in Nat /\ pod[p].rv \in Nat
           /\ \A a \in Admins : req[a].base \in Nat /\ req[a].rv \in Nat
           /\ \A t \in threads : t.gen \in Nat /\ t.rv \in Nat
BY DEF TypeInv, TypeOK, Request, Thread

\* A step that leaves the StatefulSet and its pods alone keeps the invariant
\* if its threads and its flag are ones the invariant allows.
LEMMA RestartKept ==
    ASSUME TypeInv, TypeInv', RestartInv, UNCHANGED clusterVars, live'.rv >= live.rv,
           \A a \in Admins : req'[a].kind # "idle" /\ req'[a].step = "mark"
                                 => req'[a] = req[a],
           \A t \in threads' :
               /\ StampedAt(t.gen, t.rv)
               /\ t.phase \in {"health", "ok", "clear"} => \A p \in Pods : pod[p].rv >= t.rv,
           \/ UNCHANGED <<flagGen, flagRv>>
           \/ flagGen' = 0 /\ flagRv' = 0
           \/ flagGen' = sts.gen /\ flagRv' = live.rv
    PROVE  RestartInv'
<1>1. UNCHANGED <<sts, pod>>
  BY DEF clusterVars
<1>2. /\ live.rv \in Nat /\ live'.rv \in Nat /\ sts.gen \in Nat /\ sts.observed \in Nat
      /\ \A p \in Pods : pod[p].gen \in Nat /\ pod[p].rv \in Nat
      /\ \A t \in threads' : t.gen \in Nat /\ t.rv \in Nat
      /\ \A a \in Admins : req[a].base \in Nat /\ req[a].rv \in Nat
  BY RestartTypes DEF TypeInv, TypeOK, Thread
<1>3. ClusterInOrder'
  BY <1>1, <1>2 DEF RestartInv, ClusterInOrder
<1>4. \A a \in Admins : At(a, "mark")' => StampedAt(req[a].base, req[a].rv)'
  <2> SUFFICES ASSUME NEW a \in Admins, At(a, "mark")'
               PROVE  StampedAt(req[a].base, req[a].rv)'
    OBVIOUS
  <2>1. req'[a] = req[a] /\ At(a, "mark")
    BY DEF At
  <2>2. StampedAt(req[a].base, req[a].rv)
    BY <2>1 DEF RestartInv
  <2>3. /\ req[a].base <= sts'.gen /\ req[a].rv <= live'.rv
        /\ \A p \in Pods : pod'[p].ready /\ pod'[p].gen >= req[a].base
                               => pod'[p].rv >= req[a].rv
    BY <1>1, <1>2, <2>2 DEF StampedAt, BootedSince
  <2> QED  BY <2>1, <2>3 DEF StampedAt, BootedSince
<1>5. \A t \in threads' : StampedAt(t.gen, t.rv)'
  BY <1>1, <1>2 DEF StampedAt, BootedSince
<1>6. RestartApplies'
  BY <1>1 DEF RestartApplies
<1>7. flagGen' <= sts'.gen /\ flagRv' <= live'.rv /\ BootedSince(flagGen + 1, flagRv)'
  <2>1. CASE UNCHANGED <<flagGen, flagRv>>
    <3>1. flagGen \in Nat /\ flagRv \in Nat
      BY RestartTypes
    <3> QED  BY <1>1, <1>2, <2>1, <3>1 DEF RestartInv, BootedSince
  <2>2. CASE flagGen' = 0 /\ flagRv' = 0
    BY <1>1, <1>2, <2>2 DEF BootedSince
  <2>3. CASE flagGen' = sts.gen /\ flagRv' = live.rv
    BY <1>1, <1>2, <2>3 DEF BootedSince, RestartInv, ClusterInOrder
  <2> QED  BY <2>1, <2>2, <2>3
<1> QED  BY <1>3, <1>4, <1>5, <1>6, <1>7 DEF RestartInv

\* A new generation is stamped: no pod has it yet.
LEMMA StampRestartInv ==
    ASSUME TypeInv, TypeInv', RestartInv, sts' = [sts EXCEPT !.gen = @ + 1],
           UNCHANGED <<live, pod, threads, flagGen, flagRv>>,
           \A a \in Admins : req'[a].kind # "idle" /\ req'[a].step = "mark"
                                 => \/ req'[a] = req[a]
                                    \/ req'[a].base = sts.gen + 1 /\ req'[a].rv = live.rv
    PROVE  RestartInv'
<1>1. sts'.gen = sts.gen + 1 /\ sts'.observed = sts.observed
  BY DEF TypeInv, TypeOK
<1>2. /\ live.rv \in Nat /\ sts.gen \in Nat /\ sts.observed \in Nat
      /\ flagGen \in Nat /\ flagRv \in Nat
      /\ \A p \in Pods : pod[p].gen \in Nat /\ pod[p].rv \in Nat
      /\ \A a \in Admins : req[a].base \in Nat /\ req[a].rv \in Nat
      /\ \A t \in threads : t.gen \in Nat /\ t.rv \in Nat
  BY RestartTypes
<1>3. ClusterInOrder'
  BY <1>1, <1>2 DEF RestartInv, ClusterInOrder
<1>4. ASSUME NEW a \in Admins, At(a, "mark")'
      PROVE  StampedAt(req[a].base, req[a].rv)'
  <2>1. CASE req'[a] = req[a]
    <3>1. StampedAt(req[a].base, req[a].rv)
      BY <1>4, <2>1 DEF RestartInv, At
    <3> QED  BY <1>1, <1>2, <2>1, <3>1 DEF StampedAt, BootedSince
  <2>2. CASE req'[a].base = sts.gen + 1 /\ req'[a].rv = live.rv
    BY <1>1, <1>2, <2>2 DEF StampedAt, BootedSince, RestartInv, ClusterInOrder
  <2> QED  BY <1>4, <2>1, <2>2 DEF At
<1>5. \A t \in threads' : StampedAt(t.gen, t.rv)'
  BY <1>1, <1>2 DEF StampedAt, BootedSince, RestartInv
<1>6. flagGen' <= sts'.gen /\ flagRv' <= live'.rv /\ BootedSince(flagGen + 1, flagRv)'
  BY <1>1, <1>2 DEF RestartInv, BootedSince
<1>7. RestartApplies'
  BY DEF RestartInv, RestartApplies
<1> QED  BY <1>3, <1>4, <1>5, <1>6, <1>7 DEF RestartInv

\* The controller sees a generation, replaces a pod, or a pod boots: a pod
\* that comes up has read what is live.
LEMMA PodRestartInv ==
    ASSUME TypeInv, RestartInv,
           Observe \/ \E p \in Pods : Roll(p) \/ Boot(p)
    PROVE  RestartInv'
<1>1. /\ live.rv \in Nat /\ sts.gen \in Nat /\ sts.observed \in Nat
      /\ flagGen \in Nat /\ flagRv \in Nat
      /\ \A p \in Pods : pod[p].gen \in Nat /\ pod[p].rv \in Nat
      /\ \A a \in Admins : req[a].base \in Nat /\ req[a].rv \in Nat
      /\ \A t \in threads : t.gen \in Nat /\ t.rv \in Nat
  BY RestartTypes
<1>2. UNCHANGED <<live, req, flagGen, flagRv, threads>> /\ sts'.gen = sts.gen
  BY DEF Observe, Roll, Boot, flagVars, TypeInv, TypeOK
<1>3. /\ sts'.observed \in Nat /\ sts.observed <= sts'.observed /\ sts'.observed <= sts.gen
      /\ \A p \in Pods : \/ pod'[p] = pod[p]
                         \/ ~pod'[p].ready /\ pod'[p].gen <= sts'.observed /\ pod'[p].rv = pod[p].rv
                         \/ pod'[p].rv = live.rv /\ pod'[p].gen = pod[p].gen
  <2>1. CASE Observe
    BY <1>1, <2>1 DEF Observe, TypeInv, TypeOK, RestartInv, ClusterInOrder
  <2>2. ASSUME NEW p \in Pods, Roll(p) \/ Boot(p)
        PROVE  /\ UNCHANGED sts
               /\ \A q \in Pods : \/ pod'[q] = pod[q]
                                  \/ /\ ~pod'[q].ready /\ pod'[q].gen <= sts'.observed
                                     /\ pod'[q].rv = pod[q].rv
                                  \/ pod'[q].rv = live.rv /\ pod'[q].gen = pod[q].gen
    <3>1. pod \in [Pods -> [gen: Nat, rv: Nat, ready: BOOLEAN]]
      BY DEF TypeInv, TypeOK
    <3>2. UNCHANGED sts
      BY <2>2 DEF Roll, Boot
    <3>3. CASE Roll(p)
      BY <1>1, <3>1, <3>2, <3>3 DEF Roll
    <3>4. CASE Boot(p)
      BY <1>1, <3>1, <3>2, <3>4 DEF Boot
    <3> QED  BY <2>2, <3>2, <3>3, <3>4
  <2> QED  BY <1>1, <2>1, <2>2 DEF RestartInv, ClusterInOrder
<1>4. ClusterInOrder'
  BY <1>1, <1>2, <1>3 DEF RestartInv, ClusterInOrder
<1>5. ASSUME NEW gen \in Nat, NEW rv \in Nat, rv <= live.rv, BootedSince(gen, rv)
      PROVE  \A p \in Pods : pod'[p].ready /\ pod'[p].gen >= gen => pod'[p].rv >= rv
  BY <1>1, <1>3, <1>5 DEF BootedSince
<1>6. ASSUME NEW a \in Admins, At(a, "mark")'
      PROVE  StampedAt(req[a].base, req[a].rv)'
  <2>1. StampedAt(req[a].base, req[a].rv)
    BY <1>2, <1>6 DEF RestartInv, At
  <2>2. \A p \in Pods : pod'[p].ready /\ pod'[p].gen >= req[a].base => pod'[p].rv >= req[a].rv
    BY <1>1, <1>5, <2>1 DEF StampedAt
  <2> QED  BY <1>2, <2>1, <2>2 DEF StampedAt, BootedSince
<1>7. \A t \in threads' : StampedAt(t.gen, t.rv)'
  BY <1>1, <1>2, <1>5 DEF RestartInv, StampedAt, BootedSince
<1>8. flagGen' <= sts'.gen /\ flagRv' <= live'.rv /\ BootedSince(flagGen + 1, flagRv)'
  BY <1>1, <1>2, <1>5 DEF RestartInv, BootedSince
<1>9. RestartApplies'
  <2> SUFFICES ASSUME NEW t \in threads, t.phase \in {"health", "ok", "clear"},
                      NEW p \in Pods
               PROVE  pod'[p].rv >= t.rv
    BY <1>2 DEF RestartApplies
  <2>1. pod[p].rv >= t.rv /\ t.rv <= live.rv
    BY DEF RestartInv, RestartApplies, StampedAt
  <2> QED  BY <1>1, <1>3, <2>1
<1> QED  BY <1>4, <1>6, <1>7, <1>8, <1>9 DEF RestartInv

\* A step of a request.
LEMMA RequestRestartInv ==
    ASSUME TypeInv, TypeInv', RestartInv, NEW a \in Admins,
           Submits(a) \/ Proceeds(a) \/ Stops(a)
    PROVE  RestartInv'
<1> USE DEF flagVars, clusterVars
<1>1. /\ req \in [Admins -> Request] /\ req[a] \in Request /\ live.rv \in Nat
      /\ \A t \in threads : StampedAt(t.gen, t.rv)
      /\ RestartApplies
  BY DEF TypeInv, TypeOK, RestartInv
<1>2. \A t \in threads : t.phase \in {"health", "ok", "clear"} => \A p \in Pods : pod[p].rv >= t.rv
  BY <1>1 DEF RestartApplies
<1>3. ASSUME \A b \in Admins : b # a => req'[b] = req[b],
             req'[a].kind # "idle" => req'[a].step # "mark"
      PROVE  \A b \in Admins : req'[b].kind # "idle" /\ req'[b].step = "mark"
                                   => req'[b] = req[b]
  BY <1>1, <1>3
<1>4. Idle.kind = "idle"
  BY DEF Idle
<1>5. CASE Submits(a)
  <2>1. (\A b \in Admins : b # a => req'[b] = req[b]) /\ req'[a].step # "mark"
    <3>1. ASSUME NEW x \in Items, edit(a, x) \/ persist_to_master_conf(a, x) \/ load_nodegroups(a, x)
          PROVE  (\A b \in Admins : b # a => req'[b] = req[b]) /\ req'[a].step # "mark"
      <4>1. CASE edit(a, x)
        BY <1>1, <4>1 DEF edit, Start, Idle
      <4>2. CASE persist_to_master_conf(a, x)
        BY <1>1, <4>2 DEF persist_to_master_conf, Start, Idle
      <4>3. CASE load_nodegroups(a, x)
        BY <1>1, <4>3 DEF load_nodegroups, Start, Idle
      <4> QED  BY <3>1, <4>1, <4>2, <4>3
    <3>2. CASE revert(a) \/ restart(a)
      BY <1>1, <3>2 DEF revert, restart, Start, Idle
    <3> QED  BY <1>5, <3>1, <3>2 DEF Submits
  <2>2. UNCHANGED <<live, clusterVars, threads, flagGen, flagRv>>
    BY <1>5 DEF Submits, edit, persist_to_master_conf, load_nodegroups, revert, restart
  <2> QED  BY <1>1, <1>2, <1>3, <2>1, <2>2, RestartKept
<1>6. CASE \/ save(a) \/ write_nodegroups(a) \/ revert_read(a) \/ revert_fresh(a)
           \/ read_history(a) \/ snapshot(a) \/ replace_live(a) \/ set_restart_needed(a)
           \/ sync_to_minion_group(a) \/ Stops(a)
  <2>1. /\ \A b \in Admins : b # a => req'[b] = req[b]
        /\ req'[a].kind # "idle" => req'[a].step # "mark"
    <3>1. CASE save(a)
      BY <1>1, <1>4, <3>1 DEF save, Done, Go, Request
    <3>2. CASE sync_to_minion_group(a) \/ Stops(a)
      BY <1>1, <1>4, <3>2 DEF sync_to_minion_group, Stops, Done, Go
    <3>3. CASE write_nodegroups(a) \/ revert_read(a) \/ revert_fresh(a) \/ read_history(a)
      BY <1>1, <3>3 DEF write_nodegroups, revert_read, revert_fresh, read_history, Go, Request
    <3>4. CASE set_restart_needed(a)
      BY <1>1, <3>4 DEF set_restart_needed, Go, Request
    <3>5. CASE snapshot(a)
      BY <1>4, <3>5, SnapshotEffect
    <3>6. CASE replace_live(a)
      BY <1>1, <1>4, <3>6 DEF replace_live, Done, Go, Idle
    <3> QED  BY <1>6, <3>1, <3>2, <3>3, <3>4, <3>5, <3>6
  <2>2. UNCHANGED <<clusterVars, threads, flagGen, flagRv>>
    BY <1>6 DEF save, write_nodegroups, revert_read, revert_fresh, read_history, snapshot,
                replace_live, set_restart_needed, sync_to_minion_group, Stops
  <2>3. live'.rv >= live.rv
    <3>1. CASE replace_live(a) /\ ~Stale(live, req[a].base)
      BY <1>1, <3>1 DEF replace_live, Replace
    <3>2. CASE UNCHANGED live
      BY <1>1, <3>2
    <3> QED  BY <1>6, <3>1, <3>2 DEF save, write_nodegroups, revert_read, revert_fresh,
                read_history, snapshot, replace_live, set_restart_needed,
                sync_to_minion_group, Stops
  <2> QED  BY <1>1, <1>2, <1>3, <2>1, <2>2, <2>3, RestartKept
<1>7. CASE record_restart_generation(a)
  <2>1. /\ \A b \in Admins : b # a => req'[b] = req[b]
        /\ req'[a].kind # "idle" => req'[a].step # "mark"
    BY <1>1, <1>4, <1>7 DEF record_restart_generation, After, Done, Go, Request
  <2>2. /\ UNCHANGED <<live, clusterVars, threads>>
        /\ \/ UNCHANGED <<flagGen, flagRv>>
           \/ flagGen' = sts.gen /\ flagRv' = live.rv
    BY <1>7 DEF record_restart_generation
  <2> QED  BY <1>1, <1>2, <1>3, <2>1, <2>2, RestartKept
<1>8. CASE restart_statefulset(a)
  <2> DEFINE y == [req[a] EXCEPT !.step = "mark", !.rv = live.rv, !.base = sts.gen + 1]
  <2>1. y.base = sts.gen + 1 /\ y.rv = live.rv
    BY <1>1 DEF Request
  <2>2. req' = [req EXCEPT ![a] = y]
    BY <1>8 DEF restart_statefulset, Go
  <2> HIDE DEF y
  <2>3. \A b \in Admins : \/ req'[b] = req[b]
                          \/ req'[b].base = sts.gen + 1 /\ req'[b].rv = live.rv
    BY <1>1, <2>1, <2>2
  <2>4. /\ sts' = [sts EXCEPT !.gen = @ + 1]
        /\ UNCHANGED <<live, pod, threads, flagGen, flagRv>>
    BY <1>8 DEF restart_statefulset
  <2> QED  BY <2>3, <2>4, StampRestartInv
<1>9. CASE start_restart(a)
  <2> DEFINE t == [gen |-> req[a].base, rv |-> req[a].rv, polls |-> 0, phase |-> "wait"]
  <2>1. threads' = threads \cup {t} /\ Done(a) /\ At(a, "mark")
        /\ UNCHANGED <<live, clusterVars, flagGen, flagRv>>
    BY <1>9 DEF start_restart
  <2>2. StampedAt(t.gen, t.rv) /\ t.phase = "wait"
    BY <2>1 DEF RestartInv
  <2>3. (\A b \in Admins : b # a => req'[b] = req[b]) /\ req'[a].kind = "idle"
    BY <1>1, <1>4, <2>1 DEF Done, Go
  <2> HIDE DEF t
  <2> QED  BY <1>1, <1>2, <1>3, <2>1, <2>2, <2>3, RestartKept
<1> QED  BY <1>5, <1>6, <1>7, <1>8, <1>9 DEF Proceeds

\* A step of a restart thread.  A thread that sees the rollout converge has
\* every pod up with the last generation, so with its own or a later one.
LEMMA ThreadRestartInv ==
    ASSUME TypeInv, TypeInv', RestartInv, NEW t \in threads, ThreadStep(t) \/ ThreadDies(t)
    PROVE  RestartInv'
<1> USE DEF flagVars, clusterVars
<1>1. /\ t \in Thread /\ threads \subseteq Thread /\ live.rv \in Nat
      /\ \A u \in threads : StampedAt(u.gen, u.rv)
      /\ RestartApplies
  BY DEF TypeInv, TypeOK, RestartInv
<1>2. \A u \in threads : u.phase \in {"health", "ok", "clear"} => \A p \in Pods : pod[p].rv >= u.rv
  BY <1>1 DEF RestartApplies
<1>3. /\ UNCHANGED <<live, req, clusterVars>>
      /\ UNCHANGED <<flagGen, flagRv>> \/ (flagGen' = 0 /\ flagRv' = 0)
  BY DEF ThreadStep, wait_rollout, rollout_timed_out, salt_api_healthy, finish_restart,
         clear_restart_needed, ThreadDies, ClearFlag
<1>4. \/ threads' = threads \ {t}
      \/ \E ph \in {"health", "ok", "failed", "clear"} :
            /\ threads' = (threads \ {t}) \cup {[t EXCEPT !.phase = ph]}
            /\ ph \in {"health", "ok", "clear"}
                  => t.phase \in {"health", "ok", "clear"} \/ rollout_converged
  BY DEF ThreadStep, wait_rollout, rollout_timed_out, salt_api_healthy, finish_restart,
         clear_restart_needed, ThreadDies, Move
<1>5. rollout_converged => \A p \in Pods : pod[p].rv >= t.rv
  <2> SUFFICES ASSUME rollout_converged, NEW p \in Pods PROVE pod[p].rv >= t.rv
    OBVIOUS
  <2>1. pod[p].ready /\ pod[p].gen = sts.gen
    BY DEF rollout_converged
  <2>2. t.gen <= sts.gen /\ BootedSince(t.gen, t.rv)
    BY <1>1 DEF StampedAt
  <2> QED  BY <2>1, <2>2, RestartTypes DEF BootedSince
<1>6. \A u \in threads' :
        /\ StampedAt(u.gen, u.rv)
        /\ u.phase \in {"health", "ok", "clear"} => \A p \in Pods : pod[p].rv >= u.rv
  <2>1. CASE threads' = threads \ {t}
    BY <1>1, <1>2, <2>1
  <2>2. ASSUME NEW ph \in {"health", "ok", "failed", "clear"},
               threads' = (threads \ {t}) \cup {[t EXCEPT !.phase = ph]},
               ph \in {"health", "ok", "clear"}
                  => t.phase \in {"health", "ok", "clear"} \/ rollout_converged
        PROVE  \A u \in threads' :
                 /\ StampedAt(u.gen, u.rv)
                 /\ u.phase \in {"health", "ok", "clear"} => \A p \in Pods : pod[p].rv >= u.rv
    <3> DEFINE v == [t EXCEPT !.phase = ph]
    <3>1. v.gen = t.gen /\ v.rv = t.rv /\ v.phase = ph
      BY <1>1 DEF Thread
    <3>2. v.phase \in {"health", "ok", "clear"} => \A p \in Pods : pod[p].rv >= v.rv
      BY <1>2, <1>5, <2>2, <3>1
    <3> HIDE DEF v
    <3> QED  BY <1>1, <1>2, <2>2, <3>1, <3>2 DEF v
  <2> QED  BY <1>4, <2>1, <2>2
<1> QED  BY <1>1, <1>3, <1>6, RestartKept

\* Steps of time, of the pages that read the flag and of the cluster.
LEMMA ClusterRestartInv ==
    ASSUME TypeInv, TypeInv', RestartInv,
           \/ Tick \/ PageStep \/ KubectlRestart \/ Observe
           \/ \E x \in Items : KubectlEdit(x)
           \/ \E p \in Pods : Roll(p) \/ Boot(p)
    PROVE  RestartInv'
<1> USE DEF flagVars, clusterVars
<1>1. /\ threads \subseteq Thread /\ live.rv \in Nat
      /\ \A u \in threads : StampedAt(u.gen, u.rv)
      /\ RestartApplies
  BY DEF TypeInv, TypeOK, RestartInv
<1>2. \A u \in threads : u.phase \in {"health", "ok", "clear"} => \A p \in Pods : pod[p].rv >= u.rv
  BY <1>1 DEF RestartApplies
<1>3. CASE Tick
  <2>1. UNCHANGED <<live, req, clusterVars, flagGen, flagRv>>
        /\ threads' = {[u EXCEPT !.polls = @ + 1] : u \in threads}
    BY <1>3 DEF Tick
  <2>2. ASSUME NEW u \in threads
        PROVE  LET v == [u EXCEPT !.polls = @ + 1]
               IN  v.gen = u.gen /\ v.rv = u.rv /\ v.phase = u.phase
    BY <1>1 DEF Thread
  <2>3. \A v \in threads' :
          /\ StampedAt(v.gen, v.rv)
          /\ v.phase \in {"health", "ok", "clear"} => \A p \in Pods : pod[p].rv >= v.rv
    <3> TAKE v \in threads'
    <3>1. PICK u \in threads : v = [u EXCEPT !.polls = @ + 1]
      BY <2>1
    <3>2. v.gen = u.gen /\ v.rv = u.rv /\ v.phase = u.phase
      BY <2>2, <3>1
    <3> QED  BY <1>1, <1>2, <3>2
  <2> QED  BY <1>1, <2>1, <2>3, RestartKept
<1>4. CASE PageStep
  <2>1. /\ UNCHANGED <<live, req, clusterVars, threads>>
        /\ UNCHANGED <<flagGen, flagRv>> \/ (flagGen' = 0 /\ flagRv' = 0)
    BY <1>4 DEF PageStep, restart_needed, statefulset_rollout, clear_superseded, PageEnds,
                ClearFlag
  <2> QED  BY <1>1, <1>2, <2>1, RestartKept
<1>5. CASE KubectlRestart
  <2>1. /\ sts' = [sts EXCEPT !.gen = @ + 1]
        /\ UNCHANGED <<live, pod, req, threads, flagGen, flagRv>>
    BY <1>5 DEF KubectlRestart
  <2> QED  BY <2>1, StampRestartInv
<1>6. ASSUME NEW x \in Items, KubectlEdit(x)
      PROVE  RestartInv'
  <2>1. UNCHANGED <<req, clusterVars, threads, flagGen, flagRv>>
    BY <1>6 DEF KubectlEdit
  <2>2. live'.rv >= live.rv
    BY <1>1, <1>6 DEF KubectlEdit, Replace
  <2> QED  BY <1>1, <1>2, <2>1, <2>2, RestartKept
<1>7. CASE Observe \/ \E p \in Pods : Roll(p) \/ Boot(p)
  BY <1>7, PodRestartInv
<1> QED  BY <1>3, <1>4, <1>5, <1>6, <1>7

LEMMA NextRestartInv == TypeInv /\ TypeInv' /\ RestartInv /\ [Next]_vars => RestartInv'
<1> SUFFICES ASSUME TypeInv, TypeInv', RestartInv, [Next]_vars PROVE RestartInv'
  OBVIOUS
<1>1. CASE UNCHANGED vars
  BY <1>1 DEF vars, flagVars, clusterVars, RestartInv, ClusterInOrder, StampedAt, BootedSince,
              At, RestartApplies
<1> QED  BY <1>1, RequestRestartInv, ThreadRestartInv, ClusterRestartInv DEF Next

\* A restart thread that saw its rollout converge did so after every pod
\* booted with at least the content that was live when the restart was asked
\* for, for any number of pods, restarts, edits and rollouts at the same time.
THEOREM RestartsApply == Spec => []RestartApplies
<1>1. Init => TypeInv /\ RestartInv
  BY InitTypeInv, InitRestartInv
<1>2. TypeInv /\ RestartInv /\ [Next]_vars => TypeInv' /\ RestartInv'
  BY NextTypeInv, NextRestartInv
<1>3. RestartInv => RestartApplies
  BY DEF RestartInv
<1> QED  BY <1>1, <1>2, <1>3, PTL DEF Spec

\* A page that was told of a newer rollout: a flag with the generation it read
\* is satisfied, and a generation that is recorded from now on is another one.
PageInv ==
    page.phase = "clear" =>
        /\ sts.gen > page.gen
        /\ flagGen = page.gen => \A p \in Pods : pod[p].rv >= flagRv

\* What a step may do to what PageInv compares.
LEMMA PageMoves ==
    ASSUME TypeInv, RestartInv, Next
    PROVE  /\ sts'.gen >= sts.gen
           /\ \A p \in Pods : pod'[p].rv >= pod[p].rv
           /\ \/ UNCHANGED <<flagGen, flagRv>>
              \/ flagGen' = 0 /\ flagRv' = 0
              \/ flagGen' = sts.gen /\ flagRv' = live.rv
           /\ PageStep \/ UNCHANGED page
<1> USE DEF flagVars, clusterVars
<1>1. /\ sts \in [gen: Nat, observed: Nat] /\ live.rv \in Nat
      /\ pod \in [Pods -> [gen: Nat, rv: Nat, ready: BOOLEAN]]
      /\ \A p \in Pods : pod[p].rv <= live.rv
  BY DEF TypeInv, TypeOK, RestartInv, ClusterInOrder
<1>2. sts'.gen >= sts.gen /\ \A p \in Pods : pod'[p].rv >= pod[p].rv
  <2>1. UNCHANGED clusterVars => sts'.gen >= sts.gen /\ \A p \in Pods : pod'[p].rv >= pod[p].rv
    BY <1>1
  <2>2. sts' = [sts EXCEPT !.gen = @ + 1] /\ UNCHANGED pod =>
          sts'.gen >= sts.gen /\ \A p \in Pods : pod'[p].rv >= pod[p].rv
    BY <1>1
  <2>3. ASSUME NEW a \in Admins, Submits(a) \/ Proceeds(a) \/ Stops(a)
        PROVE  sts'.gen >= sts.gen /\ \A p \in Pods : pod'[p].rv >= pod[p].rv
    BY <2>1, <2>2, <2>3 DEF Submits, edit, persist_to_master_conf, load_nodegroups, revert,
       restart, Proceeds, save, write_nodegroups, revert_read, revert_fresh, read_history,
       snapshot, replace_live, set_restart_needed, record_restart_generation,
       sync_to_minion_group, restart_statefulset, start_restart, Stops
  <2>4. ASSUME NEW t \in threads, ThreadStep(t) \/ ThreadDies(t)
        PROVE  sts'.gen >= sts.gen /\ \A p \in Pods : pod'[p].rv >= pod[p].rv
    BY <2>1, <2>4 DEF ThreadStep, wait_rollout, rollout_timed_out, salt_api_healthy,
       finish_restart, clear_restart_needed, ThreadDies
  <2>5. CASE Tick \/ PageStep \/ \E x \in Items : KubectlEdit(x)
    BY <2>1, <2>5 DEF Tick, PageStep, restart_needed, statefulset_rollout, clear_superseded,
       PageEnds, KubectlEdit
  <2>6. CASE KubectlRestart
    BY <2>2, <2>6 DEF KubectlRestart
  <2>7. CASE Observe
    <3>1. sts' = [sts EXCEPT !.observed = sts.gen] /\ pod' = pod
      BY <2>7 DEF Observe
    <3> QED  BY <1>1, <3>1
  <2>8. ASSUME NEW q \in Pods, Roll(q) \/ Boot(q)
        PROVE  sts'.gen >= sts.gen /\ \A p \in Pods : pod'[p].rv >= pod[p].rv
    <3>1. /\ sts' = sts
          /\ \/ pod' = [pod EXCEPT ![q].gen = sts.observed, ![q].ready = FALSE]
             \/ pod' = [pod EXCEPT ![q].ready = TRUE, ![q].rv = live.rv]
      BY <2>8 DEF Roll, Boot
    <3>2. ASSUME NEW p \in Pods PROVE pod'[p].rv \in {pod[p].rv, live.rv}
      BY <1>1, <3>1
    <3>3. ASSUME NEW p \in Pods PROVE pod'[p].rv >= pod[p].rv
      BY <1>1, <3>2
    <3>4. sts'.gen >= sts.gen
      BY <1>1, <2>8 DEF Roll, Boot
    <3> QED  BY <3>3, <3>4
  <2> QED  BY <2>3, <2>4, <2>5, <2>6, <2>7, <2>8 DEF Next
<1>3. /\ \/ UNCHANGED <<flagGen, flagRv>>
         \/ flagGen' = 0 /\ flagRv' = 0
         \/ flagGen' = sts.gen /\ flagRv' = live.rv
      /\ PageStep \/ UNCHANGED page
  <2>1. ASSUME NEW a \in Admins, Submits(a)
        PROVE  UNCHANGED <<flagGen, flagRv, page>>
    BY <2>1 DEF Submits, edit, persist_to_master_conf, load_nodegroups, revert, restart
  <2>2. ASSUME NEW a \in Admins, Proceeds(a) \/ Stops(a)
        PROVE  /\ \/ UNCHANGED <<flagGen, flagRv>>
                  \/ flagGen' = sts.gen /\ flagRv' = live.rv
               /\ UNCHANGED page
    BY <2>2 DEF Proceeds, save, write_nodegroups, revert_read, revert_fresh, read_history,
       snapshot, replace_live, set_restart_needed, record_restart_generation,
       sync_to_minion_group, restart_statefulset, start_restart, Stops
  <2>3. ASSUME NEW t \in threads, ThreadStep(t) \/ ThreadDies(t)
        PROVE  /\ UNCHANGED <<flagGen, flagRv>> \/ (flagGen' = 0 /\ flagRv' = 0)
               /\ UNCHANGED page
    BY <2>3 DEF ThreadStep, wait_rollout, rollout_timed_out, salt_api_healthy,
       finish_restart, clear_restart_needed, ThreadDies, ClearFlag
  <2>4. CASE \/ Tick \/ KubectlRestart \/ Observe \/ \E x \in Items : KubectlEdit(x)
             \/ \E p \in Pods : Roll(p) \/ Boot(p)
    BY <2>4 DEF Tick, KubectlRestart, Observe, KubectlEdit, Roll, Boot
  <2>5. CASE PageStep
    BY <2>5 DEF PageStep, restart_needed, statefulset_rollout, clear_superseded, PageEnds,
       ClearFlag
  <2> QED  BY <2>1, <2>2, <2>3, <2>4, <2>5 DEF Next
<1> QED  BY <1>2, <1>3

LEMMA NextPageInv == TypeInv /\ TypeInv' /\ RestartInv /\ PageInv /\ [Next]_vars => PageInv'
<1> SUFFICES ASSUME TypeInv, TypeInv', RestartInv, PageInv, [Next]_vars, page'.phase = "clear"
             PROVE  /\ sts'.gen > page'.gen
                    /\ flagGen' = page'.gen => \A p \in Pods : pod'[p].rv >= flagRv'
  BY DEF PageInv
<1>1. CASE UNCHANGED vars
  BY <1>1 DEF vars, flagVars, clusterVars, PageInv
<1>2. CASE Next
  <2>1. /\ sts'.gen >= sts.gen /\ \A p \in Pods : pod'[p].rv >= pod[p].rv
        /\ \/ UNCHANGED <<flagGen, flagRv>>
           \/ flagGen' = 0 /\ flagRv' = 0
           \/ flagGen' = sts.gen /\ flagRv' = live.rv
        /\ PageStep \/ UNCHANGED page
    BY <1>2, PageMoves
  <2>2. /\ sts.gen \in Nat /\ sts'.gen \in Nat /\ flagRv \in Nat /\ flagGen \in Nat
        /\ page.gen \in Nat /\ \A p \in Pods : pod[p].rv \in Nat /\ pod'[p].rv \in Nat
    BY DEF TypeInv, TypeOK, Page
  <2>3. CASE UNCHANGED page
    <3>1. /\ sts.gen > page.gen /\ page' = page
          /\ flagGen = page.gen => \A p \in Pods : pod[p].rv >= flagRv
      BY <2>3 DEF PageInv
    <3>2. CASE UNCHANGED <<flagGen, flagRv>>
      BY <2>1, <2>2, <3>1, <3>2
    <3>3. CASE flagGen' = 0 /\ flagRv' = 0
      BY <2>1, <2>2, <3>1, <3>3
    <3>4. CASE flagGen' = sts.gen /\ flagRv' = live.rv
      BY <2>1, <2>2, <3>1, <3>4
    <3> QED  BY <2>1, <3>2, <3>3, <3>4
  <2>4. CASE PageStep
    <3>1. statefulset_rollout
      BY <2>4 DEF PageStep, restart_needed, clear_superseded, PageEnds, NoPage
    <3>2. /\ page'.gen = page.gen /\ sts.gen > page.gen
          /\ UNCHANGED <<flagGen, flagRv, sts, pod>>
          /\ \A p \in Pods : pod[p].ready /\ pod[p].gen = sts.gen
      BY <3>1 DEF statefulset_rollout, rollout_superseded, rollout_converged, flagVars,
                  clusterVars, TypeInv, TypeOK, Page
    <3>3. BootedSince(flagGen + 1, flagRv)
      BY DEF RestartInv
    <3> QED  BY <2>2, <3>2, <3>3 DEF BootedSince
  <2> QED  BY <2>1, <2>3, <2>4
<1> QED  BY <1>1, <1>2

\* When a page clears the flag and the generation on file is the one it read,
\* every pod has booted with what was live when that generation was recorded,
\* however saves, clears and rollouts fall between the page's read, the answer
\* of Kubernetes and the delete.
THEOREM HealingIsSound == Spec => HealIsSound
<1> DEFINE Healed == flag /\ ~flag' /\ threads' = threads /\ flagGen = page.gen
                        => \A p \in Pods : pod[p].rv >= flagRv
           Inv == TypeInv /\ RestartInv /\ PageInv
<1>1. Init => Inv
  BY InitTypeInv, InitRestartInv DEF Init, PageInv, NoPage
<1>2. Inv /\ [Next]_vars => Inv'
  BY NextTypeInv, NextRestartInv, NextPageInv
<1>3. ASSUME Inv, Next, flag, ~flag', threads' = threads, flagGen = page.gen
      PROVE  \A p \in Pods : pod[p].rv >= flagRv
  <2>1. clear_superseded \/ \E t \in threads : clear_restart_needed(t)
    <3> USE DEF flagVars
    <3>1. ASSUME NEW a \in Admins, Submits(a)
          PROVE  UNCHANGED flag
      BY <3>1 DEF Submits, edit, persist_to_master_conf, load_nodegroups, revert, restart
    <3>2. ASSUME NEW a \in Admins, Proceeds(a) \/ Stops(a)
          PROVE  UNCHANGED flag \/ flag' = TRUE
      BY <3>2 DEF Proceeds, save, write_nodegroups, revert_read, revert_fresh, read_history,
         snapshot, replace_live, set_restart_needed, record_restart_generation,
         sync_to_minion_group, restart_statefulset, start_restart, Stops
    <3>3. ASSUME NEW t \in threads, ThreadStep(t) \/ ThreadDies(t)
          PROVE  UNCHANGED flag \/ clear_restart_needed(t)
      BY <3>3 DEF ThreadStep, wait_rollout, rollout_timed_out, salt_api_healthy,
         finish_restart, ThreadDies
    <3>4. CASE \/ Tick \/ KubectlRestart \/ Observe \/ \E x \in Items : KubectlEdit(x)
               \/ \E p \in Pods : Roll(p) \/ Boot(p)
      BY <1>3, <3>4 DEF Tick, KubectlRestart, Observe, KubectlEdit, Roll, Boot
    <3>5. CASE PageStep
      BY <1>3, <3>5 DEF PageStep, restart_needed, statefulset_rollout, PageEnds
    <3> QED  BY <1>3, <3>1, <3>2, <3>3, <3>4, <3>5 DEF Next
  <2>2. clear_superseded
    BY <1>3, <2>1 DEF clear_restart_needed
  <2> QED  BY <1>3, <2>2 DEF clear_superseded, PageInv
<1>4. Inv /\ [Next]_vars => [Healed]_vars
  BY <1>3
<1> QED  BY <1>1, <1>2, <1>4, PTL DEF Spec, HealIsSound

-----------------------------------------------------------------------------
(* Writers.  The predicates take the live content l, the history h and the  *)
(* past p as parameters: they are used of the states before and after a     *)
(* step.                                                                    *)

Snapshotting == {"hist", "hput", "fresh", "put"}
Writers == {"save", "persist", "revert"}

\* Which kinds take which steps on the way to the PUT.
Route(y) ==
    /\ y.step \in {"hist", "hput"} => y.kind \in Writers
    /\ y.step = "fresh" => y.kind = "revert"
    /\ y.step = "put" => y.kind \in Writers \cup {"group"}

\* The groups that a request was given are one edit of earlier groups.
GroupsFrom(y, p) == \E c \in p : y.given = Toggle(c \cap Groups, y.item)

\* What a request will PUT, if its base is still the live revision: one edit of
\* the live content, other groups in the live content, or an earlier content.
NextHolds(y, l, p) ==
    /\ y.kind = "save" /\ y.step = "form" /\ y.base = l.rv => y.given = l.data
    /\ y.kind \in {"save", "persist"} /\ y.step \in Snapshotting /\ y.base = l.rv
          => y.next = Toggle(l.data, y.item)
    /\ y.kind = "group" /\ y.step \in {"read", "put"}
          => GroupsFrom(y, p)
    /\ y.kind = "group" /\ y.step = "put" /\ y.base = l.rv
          => y.next = (l.data \ Groups) \cup y.given
    /\ y.kind = "revert" /\ y.step \in Snapshotting \cup {"read"} => y.next \in p

\* What a request snapshots is the content it will overwrite.
DataHolds(y, l, p) ==
    /\ y.step # "mark" => y.base <= l.rv
    /\ y.rv <= l.rv
    /\ y.kind \in Writers /\ y.step \in Snapshotting
          => /\ y.data \in p
             /\ y.rv = l.rv => y.data = l.data
             /\ y.kind # "revert" => y.base <= y.rv

\* Where a snapshot is in the history: the revisions after it are the ones
\* taken since, and the history that a request read is the one on file if its
\* revision still is.
SnapHolds(y, h) ==
    /\ y.step = "hput" => /\ y.hrv <= h.rv
                          /\ y.hrv = h.rv => y.revs = h.revs
    /\ y.kind \in Writers /\ y.step \in {"fresh", "put"}
          => /\ y.snap \in 1..h.rv
             /\ h.rv - y.snap < HISTORY_LIMIT
                   => h.revs[Len(h.revs) - (h.rv - y.snap)] = y.data

Holds(y, l, h, p) ==
    y.kind # "idle" => Route(y) /\ NextHolds(y, l, p) /\ DataHolds(y, l, p) /\ SnapHolds(y, h)

\* The history holds contents that were live, HISTORY_LIMIT of them at most.
HistoryHolds(l, h, p) ==
    /\ l.data \in p
    /\ \A i \in 1..Len(h.revs) : h.revs[i] \in p
    /\ Len(h.revs) = IF h.rv < HISTORY_LIMIT THEN h.rv ELSE HISTORY_LIMIT

WriterInv ==
    /\ HistoryHolds(live, hist, past)
    /\ \A a \in Admins : Holds(req[a], live, hist, past)

Versioned == [data: Contents, rv: Nat]
Histories == [revs: Seq(Contents), rv: Nat]

LEMMA InitWriterInv == Init => WriterInv
<1> SUFFICES ASSUME Init PROVE WriterInv
  OBVIOUS
<1>1. \A a \in Admins : req[a].kind = "idle"
  BY DEF Init, Idle
<1>2. Len(<<>>) = 0
  OBVIOUS
<1>3. HistoryHolds(live, hist, past)
  BY <1>2, LimitsAssumption DEF Init, HistoryHolds
<1> QED  BY <1>1, <1>3 DEF WriterInv, Holds

\* What a request knows stays true when the content is replaced: a base that
\* was current is stale if the content changed.
LEMMA HoldsAfterReplace ==
    ASSUME NEW y \in Request, NEW l \in Versioned, NEW m \in Versioned, NEW h, NEW p,
           m.rv = IF m.data = l.data THEN l.rv ELSE l.rv + 1,
           Holds(y, l, h, p)
    PROVE  Holds(y, m, h, p \cup {m.data})
<1> SUFFICES ASSUME y.kind # "idle" PROVE Holds(y, m, h, p \cup {m.data})
  BY DEF Holds
<1>1. Route(y) /\ NextHolds(y, l, p) /\ DataHolds(y, l, p) /\ SnapHolds(y, h)
  BY DEF Holds
<1>2. y.base \in Nat /\ y.rv \in Nat /\ l.rv \in Nat /\ m.rv \in Nat
  BY DEF Request, Versioned
<1>3. CASE m.data = l.data
  <2>1. m.rv = l.rv
    BY <1>3
  <2>2. NextHolds(y, m, p \cup {m.data})
    BY <1>1, <1>3, <2>1 DEF NextHolds, GroupsFrom
  <2>3. DataHolds(y, m, p \cup {m.data})
    BY <1>1, <1>3, <2>1 DEF DataHolds
  <2> QED  BY <1>1, <2>2, <2>3 DEF Holds
<1>4. CASE m.data # l.data
  <2>1. m.rv = l.rv + 1
    BY <1>4
  <2>2. y.step # "mark" => y.base # m.rv
    BY <1>1, <1>2, <2>1 DEF DataHolds
  <2>3. y.rv # m.rv /\ y.rv <= m.rv /\ (y.step # "mark" => y.base <= m.rv)
    BY <1>1, <1>2, <2>1 DEF DataHolds
  <2>4. NextHolds(y, m, p \cup {m.data})
    BY <1>1, <2>2 DEF NextHolds, Snapshotting, GroupsFrom
  <2>5. DataHolds(y, m, p \cup {m.data})
    BY <1>1, <2>3 DEF DataHolds
  <2> QED  BY <1>1, <2>4, <2>5 DEF Holds
<1> QED  BY <1>3, <1>4

\* The place of a snapshot in the history before and after another one, of
\* n contents at revision rv, d of which are dropped.
LEMMA PlaceShifts ==
    ASSUME NEW n \in Nat, NEW rv \in Nat, NEW max \in Nat \ {0}, NEW s \in 1..rv,
           NEW d \in {0, 1},
           n = IF rv < max THEN rv ELSE max,
           d = IF n = max THEN 1 ELSE 0,
           (rv + 1) - s < max
    PROVE  LET i == (n + 1 - d) - ((rv + 1) - s)
           IN  i + d = n - (rv - s) /\ i \in 1..(n - d) /\ rv - s < max
  OBVIOUS

\* ... and when a snapshot is taken: earlier snapshots move one place up.
LEMMA HoldsAfterSnapshot ==
    ASSUME NEW y \in Request, NEW l, NEW h \in Histories, NEW p, NEW x \in Contents,
           HistoryHolds(l, h, p), Holds(y, l, h, p)
    PROVE  Holds(y, l, [revs |-> Capped(Append(h.revs, x)), rv |-> h.rv + 1], p)
<1> SUFFICES ASSUME y.kind # "idle"
             PROVE  SnapHolds(y, [revs |-> Capped(Append(h.revs, x)), rv |-> h.rv + 1])
  BY DEF Holds
<1> DEFINE new == Capped(Append(h.revs, x))
           n == Len(h.revs)
           d == Dropped(h.revs)
<1>1. SnapHolds(y, h)
  BY DEF Holds
<1>2. /\ h.rv \in Nat /\ h.revs \in Seq(Contents) /\ HISTORY_LIMIT \in Nat \ {0}
      /\ n = IF h.rv < HISTORY_LIMIT THEN h.rv ELSE HISTORY_LIMIT
      /\ y.hrv \in Nat /\ y.snap \in Nat
  BY LimitsAssumption DEF Histories, HistoryHolds, Request
<1>3. n \in Nat /\ n <= HISTORY_LIMIT
  <2> HIDE DEF n
  <2> QED  BY <1>2
<1>4. /\ d \in {0, 1} /\ d = IF n = HISTORY_LIMIT THEN 1 ELSE 0
      /\ Len(new) = n + 1 - d
      /\ \A i \in 1..(n - d) : new[i] = h.revs[i + d]
  <2>1. d \in {0, 1} /\ d = IF n = HISTORY_LIMIT THEN 1 ELSE 0
    BY DEF Dropped
  <2>2. /\ Len(new) = n + 1 - d
        /\ \A i \in 1..(n - d) : new[i] = h.revs[i + d]
    BY <1>2, <1>3, CappedAppend
  <2> HIDE DEF d, n, new
  <2> QED  BY <2>1, <2>2
<1> HIDE DEF new, n, d
<1>6. ASSUME y.step = "hput"
      PROVE  y.hrv <= h.rv + 1 /\ y.hrv # h.rv + 1
  BY <1>1, <1>2, <1>6 DEF SnapHolds
<1>7. ASSUME y.kind \in Writers, y.step \in {"fresh", "put"}
      PROVE  /\ y.snap \in 1..(h.rv + 1)
             /\ (h.rv + 1) - y.snap < HISTORY_LIMIT
                   => new[Len(new) - ((h.rv + 1) - y.snap)] = y.data
  <2>1. /\ y.snap \in 1..h.rv
        /\ h.rv - y.snap < HISTORY_LIMIT => h.revs[n - (h.rv - y.snap)] = y.data
    BY <1>1, <1>7 DEF SnapHolds, n
  <2>2. y.snap \in 1..(h.rv + 1)
    BY <1>2, <2>1
  <2>3. ASSUME (h.rv + 1) - y.snap < HISTORY_LIMIT
        PROVE  new[(n + 1 - d) - ((h.rv + 1) - y.snap)] = y.data
    <3> DEFINE i == (n + 1 - d) - ((h.rv + 1) - y.snap)
    <3>1. i + d = n - (h.rv - y.snap) /\ i \in 1..(n - d) /\ h.rv - y.snap < HISTORY_LIMIT
      <4> DEFINE rv == h.rv
                 s == y.snap
      <4>1. /\ n \in Nat /\ rv \in Nat /\ HISTORY_LIMIT \in Nat \ {0} /\ s \in 1..rv
            /\ d \in {0, 1} /\ n = (IF rv < HISTORY_LIMIT THEN rv ELSE HISTORY_LIMIT)
            /\ d = (IF n = HISTORY_LIMIT THEN 1 ELSE 0) /\ (rv + 1) - s < HISTORY_LIMIT
        BY <1>2, <1>3, <1>4, <2>1, <2>3
      <4> HIDE DEF rv, s
      <4>2. LET j == (n + 1 - d) - ((rv + 1) - s)
            IN  j + d = n - (rv - s) /\ j \in 1..(n - d) /\ rv - s < HISTORY_LIMIT
        BY <4>1, PlaceShifts
      <4> QED  BY <4>2 DEF rv, s
    <3> HIDE DEF i
    <3>2. new[i] = h.revs[i + d]
      BY <1>4, <3>1
    <3>3. new[i] = y.data
      BY <2>1, <3>1, <3>2
    <3> QED  BY <3>3 DEF i
  <2>4. Len(new) = n + 1 - d
    BY <1>4
  <2> QED  BY <2>2, <2>3, <2>4
<1>8. SnapHolds(y, [revs |-> new, rv |-> h.rv + 1])
  <2> DEFINE v == h.rv + 1
             g == [revs |-> new, rv |-> v]
  <2>1. g.revs = new /\ g.rv = v
    OBVIOUS
  <2> HIDE DEF g
  <2> SUFFICES SnapHolds(y, g)
    BY DEF g
  <2>2. y.step = "hput" => y.hrv <= v /\ y.hrv # v
    BY <1>6
  <2>3. y.kind \in Writers /\ y.step \in {"fresh", "put"}
          => /\ y.snap \in 1..v
             /\ v - y.snap < HISTORY_LIMIT => new[Len(new) - (v - y.snap)] = y.data
    BY <1>7
  <2> HIDE DEF v
  <2> QED  BY <2>1, <2>2, <2>3 DEF SnapHolds
<1> QED  BY <1>8 DEF new

\* Away from the steps before its PUT a request only has to know its revisions.
LEMMA HoldsAfterPut ==
    ASSUME NEW y, NEW l, NEW h, NEW p,
           y.step \in {"flag", "gen", "sync", "stamp", "mark"},
           y.step # "mark" => y.base <= l.rv, y.rv <= l.rv
    PROVE  Holds(y, l, h, p)
BY DEF Holds, Route, NextHolds, DataHolds, SnapHolds, Snapshotting, Writers

\* A step that changes at most one request.
LEMMA OneRequestWriterInv ==
    ASSUME WriterInv, NEW a \in Admins, UNCHANGED <<live, hist, past>>,
           \A b \in Admins : b # a => req'[b] = req[b],
           Holds(req'[a], live, hist, past)
    PROVE  WriterInv'
BY DEF WriterInv

\* A request arrives.
LEMMA SubmitsWriterInv ==
    ASSUME TypeInv, WriterInv, NEW a \in Admins, Submits(a)
    PROVE  WriterInv'
<1>1. /\ req \in [Admins -> Request] /\ live.data \in Contents /\ live.rv \in Nat
      /\ hist.revs \in Seq(Contents)
      /\ live.data \in past /\ \A i \in 1..Len(hist.revs) : hist.revs[i] \in past
  BY DEF TypeInv, TypeOK, WriterInv, HistoryHolds
<1>2. ASSUME NEW y, Start(a, y), UNCHANGED <<live, hist, past>>, Holds(y, live, hist, past)
      PROVE  WriterInv'
  <2>1. req'[a] = y /\ \A b \in Admins : b # a => req'[b] = req[b]
    BY <1>1, <1>2 DEF Start
  <2> QED  BY <1>2, <2>1, OneRequestWriterInv
<1> USE DEF Snapshotting, Writers
<1>3. ASSUME NEW x \in Items, edit(a, x)
      PROVE  WriterInv'
  <2> DEFINE y == [Idle EXCEPT !.kind = "save", !.item = x, !.given = live.data,
                               !.base = live.rv]
  <2>1. /\ y.kind = "save" /\ y.step = "form" /\ y.given = live.data /\ y.base = live.rv
        /\ y.rv = 0
    BY DEF Idle
  <2>2. Start(a, y) /\ UNCHANGED <<live, hist, past>>
    BY <1>3 DEF edit
  <2> HIDE DEF y
  <2>3. Holds(y, live, hist, past)
    BY <1>1, <2>1 DEF Holds, Route, NextHolds, DataHolds, SnapHolds
  <2> QED  BY <1>2, <2>2, <2>3
<1>4. ASSUME NEW x \in Items, persist_to_master_conf(a, x)
      PROVE  WriterInv'
  <2> DEFINE y == [Idle EXCEPT !.kind = "persist", !.item = x, !.step = "hist",
                               !.data = live.data, !.rv = live.rv, !.base = live.rv,
                               !.next = live.data \cup {x}]
  <2>1. /\ y.kind = "persist" /\ y.step = "hist" /\ y.item = x /\ y.data = live.data
        /\ y.rv = live.rv /\ y.base = live.rv /\ y.next = live.data \cup {x}
    BY DEF Idle
  <2>2. Start(a, y) /\ x \notin live.data /\ UNCHANGED <<live, hist, past>>
    BY <1>4 DEF persist_to_master_conf
  <2> HIDE DEF y
  <2>3. y.next = Toggle(live.data, y.item)
    BY <2>1, <2>2 DEF Toggle
  <2>4. Holds(y, live, hist, past)
    BY <1>1, <2>1, <2>3 DEF Holds, Route, NextHolds, DataHolds, SnapHolds
  <2> QED  BY <1>2, <2>2, <2>4
<1>5. ASSUME NEW x \in Items, load_nodegroups(a, x)
      PROVE  WriterInv'
  <2> DEFINE y == [Idle EXCEPT !.kind = "group", !.item = x, !.step = "read",
                               !.given = Toggle(live.data \cap Groups, x)]
  <2>1. /\ y.kind = "group" /\ y.step = "read" /\ y.item = x /\ y.rv = 0 /\ y.base = 0
        /\ y.given = Toggle(live.data \cap Groups, x)
    BY DEF Idle
  <2>2. Start(a, y) /\ UNCHANGED <<live, hist, past>>
    BY <1>5 DEF load_nodegroups
  <2> HIDE DEF y
  <2>3. GroupsFrom(y, past)
    BY <1>1, <2>1 DEF GroupsFrom
  <2>4. Holds(y, live, hist, past)
    BY <1>1, <2>1, <2>3 DEF Holds, Route, NextHolds, DataHolds, SnapHolds
  <2> QED  BY <1>2, <2>2, <2>4
<1>6. CASE revert(a)
  <2> DEFINE y == [Idle EXCEPT !.kind = "revert", !.step = "read", !.next = Last(hist.revs)]
  <2>1. /\ y.kind = "revert" /\ y.step = "read" /\ y.rv = 0 /\ y.base = 0
        /\ y.next = Last(hist.revs)
    BY DEF Idle
  <2>2. Start(a, y) /\ hist.revs # <<>> /\ UNCHANGED <<live, hist, past>>
    BY <1>6 DEF revert
  <2> HIDE DEF y
  <2>3. Len(hist.revs) \in 1..Len(hist.revs)
    BY <1>1, <2>2, EmptySeq, LenProperties
  <2>4. y.next \in past
    BY <1>1, <2>1, <2>3 DEF Last
  <2>5. Holds(y, live, hist, past)
    BY <1>1, <2>1, <2>4 DEF Holds, Route, NextHolds, DataHolds, SnapHolds
  <2> QED  BY <1>2, <2>2, <2>5
<1>7. CASE restart(a)
  <2> DEFINE y == [Idle EXCEPT !.kind = "restart", !.step = "stamp"]
  <2>1. y.step = "stamp" /\ y.rv = 0 /\ y.base = 0
    BY DEF Idle
  <2>2. Start(a, y) /\ UNCHANGED <<live, hist, past>>
    BY <1>7 DEF restart
  <2> HIDE DEF y
  <2>3. Holds(y, live, hist, past)
    BY <1>1, <2>1, HoldsAfterPut
  <2> QED  BY <1>2, <2>2, <2>3
<1> QED  BY <1>3, <1>4, <1>5, <1>6, <1>7 DEF Submits

\* A request reads, on the way to its snapshot or its PUT.
LEMMA ReadsWriterInv ==
    ASSUME TypeInv, WriterInv, NEW a \in Admins,
           \/ save(a) \/ write_nodegroups(a) \/ revert_read(a) \/ revert_fresh(a)
           \/ read_history(a)
    PROVE  WriterInv'
<1>1. /\ req \in [Admins -> Request] /\ live.data \in Contents /\ live.rv \in Nat
      /\ hist.rv \in Nat /\ live.data \in past
      /\ Shape(req[a]) /\ Holds(req[a], live, hist, past)
  BY DEF TypeInv, TypeOK, WriterInv, HistoryHolds
<1> DEFINE old == req[a]
<1>2. old \in Request
  BY <1>1
<1>3. ASSUME NEW y, Go(a, y), UNCHANGED <<live, hist, past>>, Holds(y, live, hist, past)
      PROVE  WriterInv'
  <2>1. req'[a] = y /\ \A b \in Admins : b # a => req'[b] = req[b]
    BY <1>1, <1>3 DEF Go
  <2> QED  BY <1>3, <2>1, OneRequestWriterInv
<1>4. old.kind # "idle"
      => Route(old) /\ NextHolds(old, live, past) /\ DataHolds(old, live, past) /\ SnapHolds(old, hist)
  BY <1>1 DEF Holds
<1>5. old.kind # "idle" => (old.step # "mark" => old.base <= live.rv) /\ old.rv <= live.rv
  BY <1>4 DEF DataHolds
<1> HIDE DEF old
<1> USE DEF Snapshotting, Writers
<1>6. CASE save(a)
  <2> DEFINE next == Merged(live.data, old.given, old.item)
             y == [old EXCEPT !.step = "hist", !.data = live.data, !.rv = live.rv,
                              !.next = next]
  <2>1. /\ y.kind = old.kind /\ y.step = "hist" /\ y.item = old.item /\ y.data = live.data
        /\ y.rv = live.rv /\ y.base = old.base /\ y.next = next
    BY <1>2 DEF Request
  <2>2. old.kind = "save" /\ old.step = "form" /\ old.item \in Items
    BY <1>1, <1>6 DEF save, At, Shape, old
  <2>3. old.base = live.rv => next = Toggle(live.data, old.item)
    BY <1>1, <1>4, <2>2, MergedIsToggle DEF NextHolds
  <2>4. (Done(a) \/ Go(a, y)) /\ UNCHANGED <<live, hist, past>>
    BY <1>6 DEF save, old
  <2> HIDE DEF y, next
  <2>5. Holds(y, live, hist, past)
    BY <1>1, <1>5, <2>1, <2>2, <2>3 DEF Holds, Route, NextHolds, DataHolds, SnapHolds
  <2>6. Holds(Idle, live, hist, past)
    BY DEF Holds, Idle
  <2> QED  BY <1>3, <2>4, <2>5, <2>6 DEF Done
<1>7. CASE write_nodegroups(a)
  <2> DEFINE next == (live.data \ Groups) \cup old.given
             y == [old EXCEPT !.step = "put", !.base = live.rv, !.next = next]
  <2>1. /\ y.kind = old.kind /\ y.step = "put" /\ y.item = old.item /\ y.given = old.given
        /\ y.rv = old.rv /\ y.base = live.rv /\ y.next = next
    BY <1>2 DEF Request
  <2>2. old.kind = "group" /\ old.step = "read" /\ Go(a, y) /\ UNCHANGED <<live, hist, past>>
    BY <1>7 DEF write_nodegroups, At, old
  <2>3. y.next = (live.data \ Groups) \cup y.given
    BY <2>1
  <2> HIDE DEF y, next
  <2>4. GroupsFrom(y, past)
    BY <1>4, <2>1, <2>2 DEF NextHolds, GroupsFrom
  <2>5. Holds(y, live, hist, past)
    BY <1>1, <1>5, <2>1, <2>2, <2>3, <2>4 DEF Holds, Route, NextHolds, DataHolds, SnapHolds
  <2> QED  BY <1>3, <2>2, <2>5
<1>8. CASE revert_read(a)
  <2> DEFINE y == [old EXCEPT !.step = "hist", !.data = live.data, !.rv = live.rv]
  <2>1. /\ y.kind = old.kind /\ y.step = "hist" /\ y.data = live.data
        /\ y.rv = live.rv /\ y.base = old.base /\ y.next = old.next
    BY <1>2 DEF Request
  <2>2. old.kind = "revert" /\ old.step = "read" /\ Go(a, y) /\ UNCHANGED <<live, hist, past>>
    BY <1>8 DEF revert_read, At, old
  <2> HIDE DEF y
  <2>3. y.next \in past
    BY <1>4, <2>1, <2>2 DEF NextHolds
  <2>4. Holds(y, live, hist, past)
    BY <1>1, <1>5, <2>1, <2>2, <2>3 DEF Holds, Route, NextHolds, DataHolds, SnapHolds
  <2> QED  BY <1>3, <2>2, <2>4
<1>9. CASE revert_fresh(a)
  <2> DEFINE y == [old EXCEPT !.step = "put", !.base = live.rv]
  <2>1. /\ y.kind = old.kind /\ y.step = "put" /\ y.data = old.data
        /\ y.rv = old.rv /\ y.base = live.rv /\ y.next = old.next /\ y.snap = old.snap
    BY <1>2 DEF Request
  <2>2. old.kind = "revert" /\ old.step = "fresh" /\ Go(a, y) /\ UNCHANGED <<live, hist, past>>
    BY <1>4, <1>9 DEF revert_fresh, At, Route, old
  <2> HIDE DEF y
  <2>3. y.next \in past
    BY <1>4, <2>1, <2>2 DEF NextHolds
  <2>4. DataHolds(y, live, past)
    BY <1>1, <1>4, <2>1, <2>2 DEF DataHolds
  <2>5. SnapHolds(y, hist)
    BY <1>4, <2>1, <2>2 DEF SnapHolds
  <2>6. Holds(y, live, hist, past)
    BY <2>1, <2>2, <2>3, <2>4, <2>5 DEF Holds, Route, NextHolds
  <2> QED  BY <1>3, <2>2, <2>6
<1>10. CASE read_history(a)
  <2> DEFINE y == [old EXCEPT !.step = "hput", !.revs = hist.revs, !.hrv = hist.rv]
  <2>1. /\ y.kind = old.kind /\ y.step = "hput" /\ y.item = old.item /\ y.given = old.given
        /\ y.data = old.data /\ y.rv = old.rv /\ y.base = old.base /\ y.next = old.next
        /\ y.revs = hist.revs /\ y.hrv = hist.rv
    BY <1>2 DEF Request
  <2>2. old.kind \in Writers /\ old.step = "hist" /\ Go(a, y) /\ UNCHANGED <<live, hist, past>>
    BY <1>4, <1>10 DEF read_history, At, Route, old
  <2> HIDE DEF y
  <2>3. NextHolds(y, live, past)
    BY <1>4, <2>1, <2>2 DEF NextHolds
  <2>4. DataHolds(y, live, past)
    BY <1>4, <2>1, <2>2 DEF DataHolds
  <2>5. SnapHolds(y, hist)
    BY <1>1, <2>1 DEF SnapHolds
  <2>6. Holds(y, live, hist, past)
    BY <2>1, <2>2, <2>3, <2>4, <2>5 DEF Holds, Route
  <2> QED  BY <1>3, <2>2, <2>6
<1> QED  BY <1>6, <1>7, <1>8, <1>9, <1>10

\* A snapshot is refused, tried again or taken.  The one that is taken is the
\* last of the history, and what a request has read of it before is stale.
LEMMA SnapshotWriterInv ==
    ASSUME TypeInv, WriterInv, NEW a \in Admins, snapshot(a)
    PROVE  WriterInv'
<1> DEFINE old == req[a]
           new == req'[a]
<1>1. /\ req \in [Admins -> Request] /\ hist \in Histories /\ old \in Request
      /\ HistoryHolds(live, hist, past)
      /\ \A b \in Admins : Holds(req[b], live, hist, past)
      /\ Len(hist.revs) <= HISTORY_LIMIT
  BY DEF TypeInv, TypeOK, WriterInv, Histories
<1>2. /\ old.kind # "idle" /\ old.step = "hput" /\ UNCHANGED <<live, past>>
  BY DEF snapshot, At
<1>3. /\ Route(old) /\ NextHolds(old, live, past) /\ DataHolds(old, live, past)
      /\ SnapHolds(old, hist)
  BY <1>1, <1>2 DEF Holds
<1>4. old.kind \in Writers
  BY <1>2, <1>3 DEF Route
<1>5. ASSUME SameWrite(new, old), new.step \in Snapshotting
      PROVE  NextHolds(new, live, past) /\ DataHolds(new, live, past) /\ new.kind = old.kind
  <2> HIDE DEF old, new
  <2>1. NextHolds(new, live, past)
    BY <1>2, <1>3, <1>4, <1>5 DEF NextHolds, SameWrite, Snapshotting, Writers
  <2>2. DataHolds(new, live, past)
    BY <1>2, <1>3, <1>4, <1>5 DEF DataHolds, SameWrite, Snapshotting, Writers
  <2> QED  BY <1>5, <2>1, <2>2 DEF SameWrite
<1>6. CASE UNCHANGED hist /\ new = Idle
  <2>1. Holds(new, live, hist, past)
    BY <1>6 DEF Holds, Idle
  <2> QED  BY <1>2, <1>6, <2>1, SnapshotEffect, OneRequestWriterInv
<1>7. CASE UNCHANGED hist /\ SameWrite(new, old) /\ new.step = "hist"
  <2>1. NextHolds(new, live, past) /\ DataHolds(new, live, past) /\ new.kind = old.kind
    BY <1>5, <1>7 DEF Snapshotting
  <2>2. Holds(new, live, hist, past)
    <3> HIDE DEF old, new
    <3> QED  BY <1>4, <1>7, <2>1 DEF Holds, Route, SnapHolds, Writers
  <2> QED  BY <1>2, <1>7, <2>2, SnapshotEffect, OneRequestWriterInv
<1>8. CASE /\ hist.rv = old.hrv
           /\ hist' = [revs |-> Capped(Append(old.revs, old.data)), rv |-> hist.rv + 1]
           /\ SameWrite(new, old) /\ new.snap = hist.rv + 1
           /\ new.step = IF old.kind = "revert" THEN "fresh" ELSE "put"
  <2> DEFINE h == [revs |-> Capped(Append(hist.revs, old.data)), rv |-> hist.rv + 1]
             n == Len(hist.revs)
             d == Dropped(hist.revs)
  <2>1. hist' = h
    BY <1>2, <1>3, <1>8 DEF SnapHolds
  <2>2. /\ hist.revs \in Seq(Contents) /\ hist.rv \in Nat /\ n \in Nat
        /\ old.data \in Contents /\ HISTORY_LIMIT \in Nat \ {0}
    BY <1>1, LimitsAssumption, LenProperties DEF Histories, Request
  <2>3. /\ Len(h.revs) = n + 1 - d /\ h.revs[Len(h.revs)] = old.data
        /\ \A i \in 1..(n - d) : h.revs[i] = hist.revs[i + d]
    BY <1>1, <2>2, CappedAppend
  <2>4. /\ d \in {0, 1} /\ d = (IF n = HISTORY_LIMIT THEN 1 ELSE 0)
        /\ n = IF hist.rv < HISTORY_LIMIT THEN hist.rv ELSE HISTORY_LIMIT
    BY <1>1 DEF HistoryHolds, Dropped
  <2>5. h.rv = hist.rv + 1
    OBVIOUS
  <2>6. old.data \in past
    BY <1>2, <1>3, <1>4 DEF DataHolds, Snapshotting
  <2>7. \A b \in Admins : Holds(req[b], live, h, past)
    BY <1>1, <2>2, HoldsAfterSnapshot
  <2> HIDE DEF h, n, d
  <2>8. HistoryHolds(live, h, past)
    <3>1. \A i \in 1..n : hist.revs[i] \in past
      BY <1>1 DEF HistoryHolds, n
    <3>2. \A i \in 1..Len(h.revs) : h.revs[i] \in past
      <4> TAKE i \in 1..Len(h.revs)
      <4>1. CASE i = Len(h.revs)
        BY <2>3, <2>6, <4>1
      <4>2. CASE i # Len(h.revs)
        <5>1. i \in 1..(n - d) /\ i + d \in 1..n
          BY <2>2, <2>3, <2>4, <4>2
        <5> QED  BY <2>3, <3>1, <5>1
      <4> QED  BY <4>1, <4>2
    <3>3. Len(h.revs) = IF h.rv < HISTORY_LIMIT THEN h.rv ELSE HISTORY_LIMIT
      BY <2>2, <2>3, <2>4, <2>5
    <3> QED  BY <1>1, <3>2, <3>3 DEF HistoryHolds
  <2>9. Holds(new, live, h, past)
    <3>1. new.kind = old.kind /\ new.data = old.data /\ new.snap = h.rv
      BY <1>8, <2>5 DEF SameWrite
    <3>2. NextHolds(new, live, past) /\ DataHolds(new, live, past)
      BY <1>5, <1>8 DEF Snapshotting
    <3>3. /\ new.step = "fresh" => new.kind = "revert"
          /\ new.step \in {"fresh", "put"}
      BY <1>8, <3>1
    <3>4. h.rv \in Nat \ {0} /\ h.rv - h.rv = 0 /\ Len(h.revs) \in Nat
      BY <2>2, <2>3, <2>4, <2>5
    <3>5. Len(h.revs) - (h.rv - h.rv) = Len(h.revs)
      BY <3>4
    <3> HIDE DEF old, new
    <3>6. new.snap \in 1..h.rv /\ h.revs[Len(h.revs) - (h.rv - new.snap)] = new.data
      BY <2>3, <3>1, <3>4, <3>5
    <3> QED  BY <1>4, <3>1, <3>2, <3>3, <3>6 DEF Holds, Route, SnapHolds, Writers
  <2>10. \A b \in Admins : b # a => req'[b] = req[b]
    BY SnapshotEffect
  <2>11. \A b \in Admins : Holds(req'[b], live, h, past)
    BY <2>7, <2>9, <2>10
  <2> QED  BY <1>2, <2>1, <2>8, <2>11 DEF WriterInv
<1> QED  BY <1>6, <1>7, <1>8, SnapshotEffect

\* The live content is replaced, and no request is changed.
LEMMA ReplaceKeeps ==
    ASSUME TypeInv, WriterInv, NEW c \in Contents, Replace(c), UNCHANGED hist
    PROVE  /\ HistoryHolds(live, hist, past)'
           /\ \A b \in Admins : Holds(req[b], live', hist', past')
<1>1. /\ live \in Versioned /\ req \in [Admins -> Request]
      /\ HistoryHolds(live, hist, past) /\ \A b \in Admins : Holds(req[b], live, hist, past)
  BY DEF TypeInv, TypeOK, WriterInv, Versioned
<1> DEFINE m == [data |-> c, rv |-> IF c = live.data THEN live.rv ELSE live.rv + 1]
<1>2. live' = m /\ past' = past \cup {c}
  BY DEF Replace
<1>3. m \in Versioned /\ m.data = c /\ m.rv = IF m.data = live.data THEN live.rv ELSE live.rv + 1
  BY <1>1 DEF Versioned
<1> HIDE DEF m
<1>4. \A b \in Admins : Holds(req[b], m, hist, past \cup {m.data})
  BY <1>1, <1>3, HoldsAfterReplace
<1>5. HistoryHolds(m, hist, past \cup {c})
  BY <1>1, <1>3 DEF HistoryHolds
<1> QED  BY <1>2, <1>3, <1>4, <1>5

\* The PUT of the live content, refused or not.
LEMMA PutWriterInv ==
    ASSUME TypeInv, WriterInv, NEW a \in Admins, replace_live(a)
    PROVE  WriterInv'
<1>1. req \in [Admins -> Request] /\ live.rv \in Nat
  BY DEF TypeInv, TypeOK
<1>2. CASE Stale(live, req[a].base)
  <2>1. Done(a) /\ UNCHANGED <<live, hist, past>>
    BY <1>2 DEF replace_live
  <2>2. req'[a] = Idle /\ \A b \in Admins : b # a => req'[b] = req[b]
    BY <1>1, <2>1 DEF Done, Go
  <2>3. Holds(Idle, live, hist, past)
    BY DEF Holds, Idle
  <2> QED  BY <2>1, <2>2, <2>3, OneRequestWriterInv
<1>3. CASE ~Stale(live, req[a].base)
  <2> DEFINE st == IF req[a].kind = "revert" THEN "stamp" ELSE "flag"
             y == [Idle EXCEPT !.kind = req[a].kind, !.item = req[a].item,
                               !.given = req[a].given, !.step = st]
  <2>1. Replace(req[a].next) /\ Go(a, y) /\ UNCHANGED hist
    BY <1>3 DEF replace_live
  <2>2. y.step \in {"flag", "stamp"} /\ y.base = 0 /\ y.rv = 0
    BY DEF Idle
  <2> HIDE DEF y
  <2>3. req[a].next \in Contents
    BY <1>1 DEF Request
  <2>4. /\ HistoryHolds(live, hist, past)'
        /\ \A b \in Admins : Holds(req[b], live', hist', past')
    BY <2>1, <2>3, ReplaceKeeps
  <2>5. live'.rv \in Nat
    BY <1>1, <2>1 DEF Replace
  <2>6. Holds(y, live', hist', past')
    BY <2>2, <2>5, HoldsAfterPut
  <2>7. req'[a] = y /\ \A b \in Admins : b # a => req'[b] = req[b]
    BY <1>1, <2>1 DEF Go
  <2> QED  BY <2>4, <2>6, <2>7 DEF WriterInv
<1> QED  BY <1>2, <1>3

\* The steps after the PUT, those of a restart, and the end of a request.
LEMMA AfterwardsWriterInv ==
    ASSUME TypeInv, WriterInv, NEW a \in Admins,
           \/ set_restart_needed(a) \/ record_restart_generation(a)
           \/ sync_to_minion_group(a) \/ restart_statefulset(a) \/ start_restart(a)
           \/ Stops(a)
    PROVE  WriterInv'
<1>1. /\ req \in [Admins -> Request] /\ live.rv \in Nat /\ sts.gen \in Nat
      /\ Holds(req[a], live, hist, past)
  BY DEF TypeInv, TypeOK, WriterInv
<1> DEFINE old == req[a]
<1>2. old \in Request
  BY <1>1
<1>3. ASSUME NEW y, Go(a, y), UNCHANGED <<live, hist, past>>, Holds(y, live, hist, past)
      PROVE  WriterInv'
  <2>1. req'[a] = y /\ \A b \in Admins : b # a => req'[b] = req[b]
    BY <1>1, <1>3 DEF Go
  <2> QED  BY <1>3, <2>1, OneRequestWriterInv
<1>4. old.kind # "idle" => (old.step # "mark" => old.base <= live.rv) /\ old.rv <= live.rv
  BY <1>1 DEF Holds, DataHolds
<1>5. ASSUME Done(a), UNCHANGED <<live, hist, past>>
      PROVE  WriterInv'
  <2>1. Holds(Idle, live, hist, past)
    BY DEF Holds, Idle
  <2> QED  BY <1>3, <1>5, <2>1 DEF Done
<1>6. ASSUME NEW s \in {"gen", "sync"}, At(a, "flag") \/ At(a, "gen"),
             Go(a, [req[a] EXCEPT !.step = s]), UNCHANGED <<live, hist, past>>
      PROVE  WriterInv'
  <2> DEFINE y == [old EXCEPT !.step = s]
  <2>1. y.step = s /\ y.base = old.base /\ y.rv = old.rv
    BY <1>2 DEF Request
  <2>2. old.kind # "idle" /\ old.step # "mark"
    BY <1>6 DEF At
  <2> HIDE DEF y
  <2>3. Holds(y, live, hist, past)
    BY <1>4, <2>1, <2>2, HoldsAfterPut
  <2> QED  BY <1>3, <1>6, <2>3 DEF y
<1>7. CASE set_restart_needed(a)
  BY <1>6, <1>7 DEF set_restart_needed
<1>8. CASE record_restart_generation(a)
  <2>1. /\ At(a, "gen") /\ UNCHANGED <<live, hist, past>>
        /\ Go(a, [req[a] EXCEPT !.step = "sync"]) \/ Done(a)
    BY <1>8 DEF record_restart_generation, After
  <2> QED  BY <1>5, <1>6, <2>1
<1>9. CASE sync_to_minion_group(a) \/ start_restart(a) \/ Stops(a)
  BY <1>5, <1>9 DEF sync_to_minion_group, start_restart, Stops
<1>10. CASE restart_statefulset(a)
  <2> DEFINE y == [old EXCEPT !.step = "mark", !.rv = live.rv, !.base = sts.gen + 1]
  <2>1. y.step = "mark" /\ y.rv = live.rv
    BY <1>2 DEF Request
  <2>2. Go(a, y) /\ UNCHANGED <<live, hist, past>>
    BY <1>10 DEF restart_statefulset
  <2> HIDE DEF y
  <2>3. Holds(y, live, hist, past)
    BY <1>1, <2>1, HoldsAfterPut
  <2> QED  BY <1>3, <2>2, <2>3
<1> QED  BY <1>7, <1>8, <1>9, <1>10

LEMMA NextWriterInv == TypeInv /\ WriterInv /\ [Next]_vars => WriterInv'
<1> SUFFICES ASSUME TypeInv, WriterInv, [Next]_vars PROVE WriterInv'
  OBVIOUS
<1>1. ASSUME UNCHANGED <<live, hist, past, req>>
      PROVE  WriterInv'
  BY <1>1 DEF WriterInv
<1>2. CASE UNCHANGED vars
  BY <1>1, <1>2 DEF vars
<1>3. ASSUME NEW a \in Admins, Submits(a) \/ Proceeds(a) \/ Stops(a)
      PROVE  WriterInv'
  BY <1>3, SubmitsWriterInv, ReadsWriterInv, SnapshotWriterInv, PutWriterInv,
     AfterwardsWriterInv DEF Proceeds
<1>4. ASSUME NEW t \in threads, ThreadStep(t) \/ ThreadDies(t)
      PROVE  WriterInv'
  BY <1>1, <1>4 DEF ThreadStep, wait_rollout, rollout_timed_out, salt_api_healthy,
     finish_restart, clear_restart_needed, ThreadDies
<1>5. CASE \/ Tick \/ PageStep \/ KubectlRestart \/ Observe
           \/ \E p \in Pods : Roll(p) \/ Boot(p)
  BY <1>1, <1>5 DEF Tick, PageStep, restart_needed, statefulset_rollout, clear_superseded,
     PageEnds, KubectlRestart, Observe, Roll, Boot
<1>6. ASSUME NEW x \in Items, KubectlEdit(x)
      PROVE  WriterInv'
  <2>1. live.data \in Contents
    BY DEF TypeInv, TypeOK
  <2>2. Toggle(live.data, x) \in Contents
    BY <2>1, ToggleType DEF Contents
  <2>3. Replace(Toggle(live.data, x)) /\ UNCHANGED <<hist, req>>
    BY <1>6 DEF KubectlEdit
  <2> QED  BY <2>2, <2>3, ReplaceKeeps DEF WriterInv
<1> QED  BY <1>2, <1>3, <1>4, <1>5, <1>6 DEF Next

LEMMA WritersInvariant == Spec => [](TypeInv /\ WriterInv)
<1>1. Init => TypeInv /\ WriterInv
  BY InitTypeInv, InitWriterInv
<1>2. TypeInv /\ WriterInv /\ [Next]_vars => TypeInv' /\ WriterInv'
  BY NextTypeInv, NextWriterInv
<1> QED  BY <1>1, <1>2, PTL DEF Spec

\* A PUT on a base that is still live is a step of the versioned store.
LEMMA PutIsStoreStep ==
    ASSUME TypeInv, WriterInv, NEW a \in Admins, replace_live(a)
    PROVE  ConfigStore!Next \/ UNCHANGED <<live, past>>
<1> DEFINE old == req[a]
<1>1. old \in Request /\ Shape(old) /\ Holds(old, live, hist, past)
  BY DEF TypeInv, TypeOK, WriterInv
<1>2. CASE Stale(live, old.base)
  BY <1>2 DEF replace_live
<1>3. CASE ~Stale(live, old.base)
  <2>1. old.kind # "idle" /\ old.step = "put" /\ old.base = live.rv /\ Replace(old.next)
    BY <1>3 DEF replace_live, At, Stale
  <2>2. live'.data = old.next /\ past' = past \cup {old.next}
    BY <2>1 DEF Replace
  <2> HIDE DEF old
  <2>3. Route(old) /\ NextHolds(old, live, past)
    BY <1>1, <2>1 DEF Holds
  <2>4. old.kind \in {"save", "persist", "group", "revert"}
    BY <2>1, <2>3 DEF Route, Writers
  <2>5. CASE old.kind \in {"save", "persist"}
    <3>1. old.next = Toggle(live.data, old.item) /\ old.item \in Items
      BY <1>1, <2>1, <2>3, <2>5 DEF NextHolds, Snapshotting, Shape
    <3>2. ConfigStore!Edit
      BY <2>2, <3>1 DEF ConfigStore!Edit, ConfigStore!Become, ConfigStore!Toggle, Toggle
    <3> QED  BY <3>2 DEF ConfigStore!Next
  <2>6. CASE old.kind = "group"
    <3>1. /\ old.next = (live.data \ Groups) \cup old.given /\ old.item \in Groups
          /\ GroupsFrom(old, past)
      BY <1>1, <2>1, <2>3, <2>6 DEF NextHolds, Shape
    <3>2. PICK c \in past : old.given = Toggle(c \cap Groups, old.item)
      BY <3>1 DEF GroupsFrom
    <3>3. ConfigStore!WriteGroups
      BY <2>2, <3>1, <3>2 DEF ConfigStore!WriteGroups, ConfigStore!Become, ConfigStore!Toggle,
                              Toggle
    <3> QED  BY <3>3 DEF ConfigStore!Next
  <2>7. CASE old.kind = "revert"
    <3>1. old.next \in past
      BY <2>1, <2>3, <2>7 DEF NextHolds, Snapshotting
    <3>2. ConfigStore!Restore
      BY <2>2, <3>1 DEF ConfigStore!Restore, ConfigStore!Become
    <3> QED  BY <3>2 DEF ConfigStore!Next
  <2> QED  BY <2>4, <2>5, <2>6, <2>7
<1> QED  BY <1>2, <1>3

\* The content is written by PUTs and by kubectl, and by nothing else.
LEMMA NextIsStoreStep ==
    TypeInv /\ WriterInv /\ [Next]_vars => [ConfigStore!Next]_ConfigStore!avars
<1> SUFFICES ASSUME TypeInv, WriterInv, [Next]_vars
             PROVE  ConfigStore!Next \/ UNCHANGED <<live, past>>
  BY DEF ConfigStore!avars
<1>1. CASE UNCHANGED vars
  BY <1>1 DEF vars
<1>2. ASSUME NEW a \in Admins, Submits(a) \/ Stops(a)
      PROVE  UNCHANGED <<live, past>>
  BY <1>2 DEF Submits, edit, persist_to_master_conf, load_nodegroups, revert, restart, Stops
<1>3. ASSUME NEW a \in Admins, Proceeds(a)
      PROVE  replace_live(a) \/ UNCHANGED <<live, past>>
  BY <1>3 DEF Proceeds, save, write_nodegroups, revert_read, revert_fresh, read_history,
     snapshot, set_restart_needed, record_restart_generation, sync_to_minion_group,
     restart_statefulset, start_restart
<1>4. ASSUME NEW t \in threads, ThreadStep(t) \/ ThreadDies(t)
      PROVE  UNCHANGED <<live, past>>
  BY <1>4 DEF ThreadStep, wait_rollout, rollout_timed_out, salt_api_healthy,
     finish_restart, clear_restart_needed, ThreadDies
<1>5. CASE \/ Tick \/ PageStep \/ KubectlRestart \/ Observe
           \/ \E p \in Pods : Roll(p) \/ Boot(p)
  BY <1>5 DEF Tick, PageStep, restart_needed, statefulset_rollout, clear_superseded,
     PageEnds, KubectlRestart, Observe, Roll, Boot
<1>6. ASSUME NEW x \in Items, KubectlEdit(x)
      PROVE  ConfigStore!Next
  <2>1. live'.data = Toggle(live.data, x) /\ past' = past \cup {Toggle(live.data, x)}
    BY <1>6 DEF KubectlEdit, Replace
  <2>2. ConfigStore!Edit
    BY <2>1 DEF ConfigStore!Edit, ConfigStore!Become, ConfigStore!Toggle, Toggle
  <2> QED  BY <2>2 DEF ConfigStore!Next
<1> QED  BY <1>1, <1>2, <1>3, <1>4, <1>5, <1>6, PutIsStoreStep DEF Next

\* Whatever requests, hand edits, restarts and failures run at the same time,
\* the live content moves by one edit of what is live, by other groups in what
\* is live, or back to an earlier content: the configuration implements the
\* versioned store.
THEOREM ConfigRefinesStore == Spec => EditsCompose
<1>1. Init => ConfigStore!Init
  BY DEF Init, ConfigStore!Init
<1>2. TypeInv /\ WriterInv /\ [Next]_vars => [ConfigStore!Next]_ConfigStore!avars
  BY NextIsStoreStep
<1> QED  BY <1>1, <1>2, WritersInvariant, PTL DEF Spec, EditsCompose, ConfigStore!Spec

\* A save or a recorded mapping, and a revert nobody wrote since the snapshot
\* of, finds what it overwrites in the history, unless HISTORY_LIMIT other
\* snapshots were taken since its own.
THEOREM OverwritesAreKept == Spec => OverwrittenIsKept
<1> DEFINE Kept(a) ==
             (/\ Overwrites(a)
              /\ req[a].kind \in {"save", "persist", "revert"}
              /\ req[a].kind = "revert" => req[a].rv = live.rv
              /\ hist.rv - req[a].snap < HISTORY_LIMIT)
             => \E i \in 1..Len(hist.revs) : hist.revs[i] = live.data
<1>1. ASSUME TypeInv, WriterInv, Next, NEW a \in Admins, Overwrites(a),
             req[a].kind \in {"save", "persist", "revert"},
             req[a].kind = "revert" => req[a].rv = live.rv,
             hist.rv - req[a].snap < HISTORY_LIMIT
      PROVE  \E i \in 1..Len(hist.revs) : hist.revs[i] = live.data
  <2> DEFINE old == req[a]
  <2>1. /\ req \in [Admins -> Request] /\ old \in Request /\ live.rv \in Nat /\ hist.rv \in Nat
        /\ Holds(old, live, hist, past) /\ HistoryHolds(live, hist, past)
    BY <1>1 DEF TypeInv, TypeOK, WriterInv
  <2>2. old.kind # "idle" /\ old.step = "put" /\ req'[a] # old /\ req'[a] # Idle
    BY <1>1 DEF Overwrites, At, Idle
  <2>3. replace_live(a)
    <3>1. ASSUME NEW b \in Admins, Submits(b) \/ Proceeds(b) \/ Stops(b)
          PROVE  replace_live(a)
      <4>1. a = b
        <5> SUFFICES ASSUME a # b PROVE req'[a] = req[a]
          BY <2>2
        <5>1. CASE Submits(b)
          BY <2>1, <5>1 DEF Submits, edit, persist_to_master_conf, load_nodegroups, revert,
                            restart, Start
        <5>2. CASE snapshot(b)
          BY <1>1, <5>2, SnapshotEffect
        <5>3. CASE Proceeds(b) /\ ~snapshot(b)
          BY <2>1, <5>3 DEF Proceeds, save, write_nodegroups, revert_read, revert_fresh,
             read_history, replace_live, set_restart_needed, record_restart_generation, After,
             sync_to_minion_group, restart_statefulset, start_restart, Done, Go
        <5>4. CASE Stops(b)
          BY <2>1, <5>4 DEF Stops, Done, Go
        <5> QED  BY <3>1, <5>1, <5>2, <5>3, <5>4
      <4>2. ~Submits(a)
        BY <2>2 DEF Submits, edit, persist_to_master_conf, load_nodegroups, revert, restart, Start
      <4>3. ~Stops(a)
        BY <2>1, <2>2 DEF Stops, Done, Go
      <4>4. Proceeds(a)
        BY <3>1, <4>1, <4>2, <4>3
      <4> QED  BY <2>2, <4>4 DEF Proceeds, save, write_nodegroups, revert_read, revert_fresh,
             read_history, snapshot, set_restart_needed, record_restart_generation,
             sync_to_minion_group, restart_statefulset, start_restart, At
    <3>2. UNCHANGED req => FALSE
      BY <2>2
    <3>3. ~\E t \in threads : ThreadStep(t) \/ ThreadDies(t)
      BY <3>2 DEF ThreadStep, wait_rollout, rollout_timed_out, salt_api_healthy,
         finish_restart, clear_restart_needed, ThreadDies
    <3>4. ~(\/ Tick \/ PageStep \/ KubectlRestart \/ Observe
            \/ \E x \in Items : KubectlEdit(x)
            \/ \E p \in Pods : Roll(p) \/ Boot(p))
      BY <3>2 DEF Tick, PageStep, restart_needed, statefulset_rollout,
         clear_superseded, PageEnds, KubectlRestart, Observe, KubectlEdit, Roll, Boot
    <3> QED  BY <1>1, <3>1, <3>3, <3>4 DEF Next
  <2>4. old.base = live.rv
    <3>1. ~Stale(live, req[a].base)
      BY <2>1, <2>2, <2>3 DEF replace_live, Done, Go
    <3> QED  BY <3>1 DEF Stale
  <2>5. DataHolds(old, live, past) /\ SnapHolds(old, hist)
    BY <2>1, <2>2 DEF Holds
  <2>6. old.rv \in Nat /\ old.base \in Nat /\ old.snap \in Nat
    BY <2>1 DEF Request
  <2>7. old.kind \in Writers /\ old.step \in Snapshotting
    BY <1>1, <2>2 DEF Writers, Snapshotting
  <2>8. old.rv = live.rv
    <3>1. old.rv <= live.rv /\ (old.kind # "revert" => old.base <= old.rv)
      BY <2>2, <2>5, <2>7 DEF DataHolds
    <3> QED  BY <1>1, <2>1, <2>4, <2>6, <3>1
  <2>9. old.data = live.data
    BY <2>5, <2>7, <2>8 DEF DataHolds
  <2> DEFINE n == Len(hist.revs)
             k == n - (hist.rv - old.snap)
  <2>10. old.snap \in 1..hist.rv /\ hist.revs[k] = old.data
    BY <1>1, <2>2, <2>5, <2>7 DEF SnapHolds
  <2>11. n = (IF hist.rv < HISTORY_LIMIT THEN hist.rv ELSE HISTORY_LIMIT)
    BY <2>1 DEF HistoryHolds
  <2> HIDE DEF n
  <2>12. k \in 1..n
    BY <1>1, <2>1, <2>6, <2>10, <2>11, LimitsAssumption
  <2> HIDE DEF k
  <2> QED  BY <2>9, <2>10, <2>12 DEF n
<1>2. TypeInv /\ WriterInv /\ [Next]_vars => [\A a \in Admins : Kept(a)]_vars
  BY <1>1
<1> QED  BY <1>2, WritersInvariant, PTL DEF Spec, OverwrittenIsKept
=============================================================================
