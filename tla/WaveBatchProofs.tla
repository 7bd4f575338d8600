--------------------------- MODULE WaveBatchProofs ---------------------------
(***************************************************************************)
(* Proofs about gated wave batches, for any fleet, roster, batch settings  *)
(* and timeouts: what the split of a roster guarantees, and from it that   *)
(* no minion is published to twice, that a complete batch went through its *)
(* roster, and that the failure gate, the cancel flag and a revocation     *)
(* stop the waves they are meant to stop.                                  *)
(***************************************************************************)
EXTENDS WaveBatch, FiniteSetTheorems, SequenceTheorems, TLAPS

-----------------------------------------------------------------------------
(* The split.                                                               *)

\* Products that the provers do not find by themselves.
LEMMA CancelFactor ==
    ASSUME NEW a \in Int, NEW b \in Int, NEW w \in Nat \ {0}, a * w < b * w
    PROVE  a < b
<1> SUFFICES ASSUME b <= a PROVE FALSE
  OBVIOUS
<1>1. (a - b) * w >= 0
  OBVIOUS
<1> QED  BY <1>1

LEMMA CeilBounds ==
    ASSUME NEW n \in Nat \ {0}, NEW w \in Nat \ {0}
    PROVE  /\ Ceil(n, w) \in 1..n
           /\ n <= Ceil(n, w) * w
           /\ (Ceil(n, w) - 1) * w < n
<1> DEFINE q == Ceil(n, w)
<1>1. q \in Nat /\ q * w <= n + (w - 1) /\ n + (w - 1) < (q + 1) * w
  BY DEF Ceil
<1> HIDE DEF q
<1>2. n <= q * w /\ (q - 1) * w < n
  BY <1>1
<1>3. q >= 1
  BY <1>1, <1>2
<1>4. q <= n
  <2> SUFFICES ASSUME q > n PROVE FALSE
    BY <1>1
  <2>1. (q - 1) * w >= n * w
    BY <1>1
  <2>2. n * w >= n
    OBVIOUS
  <2> QED  BY <1>1, <1>2, <2>1, <2>2
<1> QED  BY <1>1, <1>2, <1>3, <1>4 DEF q

LEMMA CeilMonotonic ==
    ASSUME NEW p \in Nat \ {0}, NEW n \in Nat \ {0}, NEW w \in Nat \ {0}, p <= n
    PROVE  Ceil(p, w) <= Ceil(n, w)
<1>1. (Ceil(p, w) - 1) * w < p /\ Ceil(p, w) \in Nat
  BY CeilBounds
<1>2. n <= Ceil(n, w) * w /\ Ceil(n, w) \in Nat
  BY CeilBounds
<1> DEFINE q == Ceil(p, w)
           r == Ceil(n, w)
<1> HIDE DEF q, r
<1>3. (q - 1) * w < r * w /\ q \in Nat /\ q - 1 \in Int /\ r \in Nat
  BY <1>1, <1>2 DEF q, r
<1>4. q - 1 < r
  BY <1>3, CancelFactor
<1> QED  BY <1>3, <1>4 DEF q, r

LEMMA WaveSizeType ==
    ASSUME NEW n \in Nat, NEW how, NEW size \in Nat \ {0}
    PROVE  WaveSize(n, how, size) \in Nat \ {0}
<1>1. n * size \in Nat
  OBVIOUS
<1>2. Ceil(n * size, 100) \in Nat
  BY <1>1 DEF Ceil
<1> QED  BY <1>2 DEF WaveSize, AtLeastOne

\* The place of a position among those that are kept.
LEMMA RankBounds ==
    ASSUME NEW kept, IsFiniteSet(kept), NEW x \in kept, kept \subseteq Nat
    PROVE  Rank(kept, x) \in 1..Cardinality(kept)
<1> DEFINE upto == {y \in kept : y <= x}
<1>1. IsFiniteSet(upto) /\ Cardinality(upto) <= Cardinality(kept)
  BY FS_Subset
<1>2. Cardinality(upto) \in Nat /\ Cardinality(kept) \in Nat
  BY <1>1, FS_CardinalityType
<1>3. x \in upto
  OBVIOUS
<1>4. Cardinality(upto) # 0
  BY <1>1, <1>3, FS_EmptySet
<1> QED  BY <1>1, <1>2, <1>4 DEF Rank

\* A set of at most as many elements as it has in its image by an injection.
LEMMA ImageSize ==
    ASSUME NEW S, NEW T, IsFiniteSet(T), NEW f \in [S -> T],
           \A x, y \in S : f[x] = f[y] => x = y
    PROVE  IsFiniteSet(S) /\ Cardinality(S) <= Cardinality(T)
<1>1. f \in Injection(S, T)
  BY DEF Injection, IsInjective
<1> QED  BY <1>1, FS_Injection

\* split_roster: the slices are waves of minions of the roster, at most one per
\* minion; they are disjoint; and every kept minion is in one.
THEOREM SplitIsPartition ==
    ASSUME NEW roster \in Seq(Minions),
           \A i, k \in 1..Len(roster) : roster[i] = roster[k] => i = k,
           NEW kept \in SUBSET (1..Len(roster)), kept # {},
           NEW how, NEW size \in Nat \ {0}
    PROVE  LET split == split_roster(roster, kept, how, size)
           IN  /\ split \in Seq(SUBSET Minions)
               /\ Len(split) \in 1..MaxWaves
               /\ \A i, k \in 1..Len(split) : i # k => split[i] \cap split[k] = {}
               /\ \A k \in kept : \E i \in 1..Len(split) : roster[k] \in split[i]
<1> DEFINE n == Cardinality(kept)
           w == WaveSize(n, how, size)
           count == Ceil(n, w)
           Wave0(i) == {roster[k] : k \in Slice(kept, (i - 1) * w, i * w)}
           split == split_roster(roster, kept, how, size)
<1>1. Len(roster) \in Nat /\ roster \in [1..Len(roster) -> Minions] /\ kept \subseteq Nat
  BY LenProperties
<1>2. IsFiniteSet(kept) /\ n \in Nat /\ n # 0
  <2>1. IsFiniteSet(1..Len(roster))
    BY <1>1, FS_Interval
  <2>2. IsFiniteSet(kept)
    BY <2>1, FS_Subset
  <2> QED  BY <2>2, FS_CardinalityType, FS_EmptySet
<1>3. n <= MaxWaves /\ MaxWaves \in Nat
  <2> DEFINE f == [k \in kept |-> roster[k]]
  <2>1. f \in [kept -> Minions] /\ \A x, y \in kept : f[x] = f[y] => x = y
    BY <1>1
  <2> HIDE DEF f
  <2>2. Cardinality(kept) <= Cardinality(Minions)
    BY <2>1, ImageSize, FleetAssumption
  <2> QED  BY <2>2, FleetAssumption, FS_CardinalityType DEF MaxWaves
<1>4. \A x \in kept : Rank(kept, x) \in 1..n
  BY <1>1, <1>2, RankBounds
<1>5. w \in Nat \ {0}
  BY <1>2, WaveSizeType
<1> HIDE DEF n, w
<1>6. count \in 1..n
  BY <1>2, <1>5, CeilBounds
<1>7. split = [i \in 1..count |-> Wave0(i)]
  BY DEF split_roster, n, w
<1> HIDE DEF count, split
<1>8. \A i \in 1..count : split[i] = Wave0(i) /\ split[i] \in SUBSET Minions
  <2> TAKE i \in 1..count
  <2>1. split[i] = Wave0(i)
    BY <1>7
  <2>2. \A k \in kept : roster[k] \in Minions
    BY <1>1
  <2> QED  BY <2>1, <2>2 DEF Slice
<1>9. split \in Seq(SUBSET Minions) /\ Len(split) = count
  <2>1. split \in [1..count -> SUBSET Minions] /\ count \in Nat
    BY <1>2, <1>6, <1>7, <1>8
  <2> QED  BY <2>1
<1>10. \A i, k \in 1..count : i # k => split[i] \cap split[k] = {}
  <2> SUFFICES ASSUME NEW i \in 1..count, NEW k \in 1..count, i < k
               PROVE  split[i] \cap split[k] = {}
    BY <1>2, <1>6
  <2>1. i * w <= (k - 1) * w
    BY <1>2, <1>5, <1>6
  <2> SUFFICES ASSUME NEW m \in split[i], m \in split[k] PROVE FALSE
    OBVIOUS
  <2>2. PICK x \in Slice(kept, (i - 1) * w, i * w) : m = roster[x]
    BY <1>8
  <2>3. PICK y \in Slice(kept, (k - 1) * w, k * w) : m = roster[y]
    BY <1>8
  <2>4. x \in kept /\ y \in kept /\ Rank(kept, x) <= i * w /\ (k - 1) * w < Rank(kept, y)
    BY <2>2, <2>3 DEF Slice
  <2>5. x = y
    BY <2>2, <2>3, <2>4
  <2>6. Rank(kept, x) \in Int
    BY <1>2, <1>4, <2>4
  <2> DEFINE r == Rank(kept, x)
             s == i * w
             t == (k - 1) * w
  <2>7. r \in Int /\ s \in Int /\ t \in Int /\ s <= t /\ r <= s /\ t < r
    BY <1>2, <1>5, <1>6, <2>1, <2>4, <2>5, <2>6
  <2> HIDE DEF r, s, t
  <2> QED  BY <2>7
<1>11. \A k \in kept : \E i \in 1..count : roster[k] \in split[i]
  <2> TAKE k \in kept
  <2> DEFINE r == Rank(kept, k)
             i == Ceil(r, w)
  <2>1. r \in 1..n
    BY <1>4
  <2> HIDE DEF r
  <2>2. i \in 1..r /\ r <= i * w /\ (i - 1) * w < r
    <3>1. r \in Nat \ {0}
      BY <1>2, <2>1
    <3> QED  BY <1>5, <3>1, CeilBounds
  <2>3. i <= count
    BY <1>2, <1>5, <2>1, CeilMonotonic DEF count
  <2> HIDE DEF i
  <2>4. i \in 1..count
    BY <1>2, <1>6, <2>1, <2>2, <2>3
  <2>5. k \in Slice(kept, (i - 1) * w, i * w)
    BY <2>2 DEF Slice, r
  <2>6. roster[k] \in split[i]
    BY <1>8, <2>4, <2>5
  <2> QED  BY <2>4, <2>6
<1>12. count \in 1..MaxWaves
  BY <1>2, <1>3, <1>6
<1> QED  BY <1>9, <1>10, <1>11, <1>12 DEF split

-----------------------------------------------------------------------------
(* The invariant.                                                           *)

\* The minions of the first k of the waves ws.
Charged(ws, k) == UNION {ws[i] : i \in 1..k}

\* The pinned waves: pairwise disjoint, and outside scoped mode all the minions
\* that the target matches.
SplitHolds ==
    /\ Len(waves) <= MaxWaves
    /\ \A i, k \in 1..Len(waves) : i # k => waves[i] \cap waves[k] = {}
    /\ pc # "form" /\ mode = "legacy"
          => \A m \in Targeted : \E n \in 1..Len(waves) : m \in waves[n]

\* Where the loop is.
LoopHolds ==
    /\ num <= Len(waves) + 1
    /\ pc \in {"form", "saving", "queued"} => num = 1 /\ failures = 0
    /\ pc \in {"publish", "polling"} => num <= Len(waves) /\ targets \subseteq waves[num]

\* Failures are charged to minions of the waves that are through.
FailuresHold ==
    /\ missing_total <= failures
    /\ pc \in {"form", "saving", "queued", "wave", "publish", "polling"}
          => failures <= Cardinality(Charged(waves, num - 1)) /\ failures < batch.stop_after
    /\ failures > 0 => \E n \in 1..num : failures < batch.stop_after + Cardinality(waves[n])

\* The waves that are through have a row, and a batch ends complete only when
\* all are.
RowsHold ==
    /\ mode = "legacy" => \A n \in WaveNums : n < num => children[n] # "none"
    /\ mode = "legacy" /\ pc = "polling" => children[num] # "none"
    /\ pc = "finish" => status # "complete"
    /\ parent.complete /\ parent.status = "complete" =>
         pc = "returned" /\ num > Len(waves)

\* A wave reaches minions of its own slice, once it passed its check.
SentHolds ==
    \A n \in WaveNums :
        sent[n] # {} => n <= LastChecked /\ n <= Len(waves) /\ sent[n] \subseteq waves[n]

\* The flag of a cancel outlives the process: it is as old as the ticks in the
\* queue and those of the process, at most.
FlagHolds ==
    /\ age <= parked + elapsed /\ parked <= age
    /\ flag => age < CancelTTL
    /\ ~flag => age = 0 \/ age = CancelTTL
    /\ flag /\ ~outage => redis

\* Redis answered since the cancel, and the flag cannot lapse under the process.
FlagStands == ~outage /\ parked + Limit < CancelTTL

CancelHolds ==
    /\ late > 0 => Acknowledged
    /\ FlagStands => late <= 1
    /\ pc = "publish" /\ FlagStands => late = 0
    /\ pc \in {"form", "saving", "queued", "wave", "publish"} => late < num
    /\ pc = "polling" => late <= num
    /\ late <= Len(waves)

\* The twin publishes to minions of the first wave.
TwinHolds ==
    /\ pc # "form" => Len(waves) >= 1
    /\ pc = "form" => again = {} /\ twin = "none"
    /\ twin # "none" => setup.lossy
    /\ again # {} => twin # "none" /\ again \subseteq waves[1]

RevokedHolds ==
    /\ \A m \in Minions :
         exists /\ m \in run_grant /\ (batch_fleet \/ m \in batch_grant)
            => revoked[m] = MaxWaves + 1
    /\ mode = "scoped" /\ ~inline /\ pc = "publish" => \A m \in targets : num <= revoked[m]
    /\ RevocationHolds

BatchInv ==
    /\ TypeOK /\ SplitHolds /\ LoopHolds /\ FailuresHold /\ RowsHold
    /\ SentHolds /\ FlagHolds /\ CancelHolds /\ TwinHolds /\ RevokedHolds

LEMMA FleetSize == MaxWaves \in Nat /\ IsFiniteSet(Minions)
BY FleetAssumption, FS_CardinalityType DEF MaxWaves

\* The target's minions are minions.
LEMMA TargetedType ==
    ASSUME NEW s \in Setups
    PROVE  /\ s.roster \in Seq(Minions) /\ RosterIds(s.roster) \subseteq Minions
           /\ \A i, k \in 1..Len(s.roster) : s.roster[i] = s.roster[k] => i = k
<1>1. s.roster \in Seq(Minions)
  BY SetupsAssumption
<1>2. \A i \in 1..Len(s.roster) : s.roster[i] \in Minions
  BY <1>1, ElementOfSeq
<1> QED  BY <1>1, <1>2, SetupsAssumption DEF RosterIds

\* The waves that are through only grow.
LEMMA ChargedGrows ==
    ASSUME NEW ws \in Seq(SUBSET Minions), NEW k \in 1..Len(ws)
    PROVE  /\ Cardinality(Charged(ws, k - 1)) \in Nat /\ Cardinality(Charged(ws, k)) \in Nat
           /\ Cardinality(Charged(ws, k - 1)) <= Cardinality(Charged(ws, k))
<1>1. Len(ws) \in Nat /\ 1..(k - 1) \subseteq 1..k /\ 1..k \subseteq 1..Len(ws)
  BY LenProperties
<1>2. \A i \in 1..Len(ws) : ws[i] \subseteq Minions
  BY ElementOfSeq
<1>3. Charged(ws, k) \subseteq Minions /\ Charged(ws, k - 1) \subseteq Charged(ws, k)
  BY <1>1, <1>2 DEF Charged
<1>4. IsFiniteSet(Charged(ws, k))
  BY <1>3, FleetSize, FS_Subset
<1> QED  BY <1>3, <1>4, FS_Subset, FS_CardinalityType

LEMMA InitBatchInv == Init => BatchInv
<1> SUFFICES ASSUME Init PROVE BatchInv
  OBVIOUS
<1>1. MaxWaves \in Nat
  BY FleetSize
<1>2. setup \in Setups /\ Targeted \subseteq Minions
  BY TargetedType DEF Init, Targeted, Roster
<1>3. waves = <<>> /\ Len(waves) = 0 /\ waves \in Seq(SUBSET Minions)
  BY DEF Init
<1>4. TypeOK
  <2>1. redis \in BOOLEAN
    BY <1>2, SetupsAssumption DEF Init
  <2>2. run_grant \subseteq Minions /\ batch_grant \subseteq Minions
    BY <1>2 DEF Init
  <2>3. parent \in [row: BOOLEAN, complete: BOOLEAN, status: Statuses,
                   failures: 0..MaxWaves, missing: 0..MaxWaves,
                   waves_done: 0..MaxWaves]
    BY <1>1 DEF Init, NoParent, Statuses
  <2>4. batch \in Batch /\ memo \in [run: SUBSET Minions, batch: SUBSET Minions, fleet: BOOLEAN]
    BY DEF Init, Batch
  <2>5. /\ children \in [WaveNums -> {"none", "running", "failed"}]
        /\ sent \in [WaveNums -> SUBSET Minions] /\ landed \in [WaveNums -> SUBSET Minions]
        /\ revoked \in [Minions -> 0..MaxWaves + 1]
    BY <1>1 DEF Init
  <2>6. waited \in 0..WaveTimeout
    BY TimeoutsAssumption DEF Init
  <2>7. /\ flag \in BOOLEAN /\ exists \in BOOLEAN /\ batch_fleet \in BOOLEAN
        /\ inline \in BOOLEAN /\ outage \in BOOLEAN /\ again \subseteq Minions
        /\ twin \in {"none", "pending", "checked", "done"}
    BY DEF Init
  <2>9. age \in 0..CancelTTL /\ parked \in 0..CancelTTL
    BY CancelTTLAssumption DEF Init
  <2>8. /\ targets \subseteq Minions /\ pc = "form" /\ num \in 1..MaxWaves + 1
        /\ elapsed \in Nat /\ failures \in 0..MaxWaves /\ missing_total \in 0..MaxWaves
        /\ status \in Statuses /\ late \in 0..MaxWaves
    BY <1>1 DEF Init, Statuses
  <2> QED  BY <1>2, <1>3, <2>1, <2>2, <2>3, <2>4, <2>5, <2>6, <2>7, <2>8, <2>9 DEF TypeOK
<1>5. SplitHolds
  BY <1>1, <1>3 DEF Init, SplitHolds
<1>6. LoopHolds
  BY <1>3 DEF Init, LoopHolds
<1>7. FailuresHold
  <2>1. Charged(waves, num - 1) = {}
    BY DEF Init, Charged
  <2>2. Cardinality(Charged(waves, num - 1)) = 0
    BY <2>1, FS_EmptySet
  <2> QED  BY <2>2 DEF Init, FailuresHold
<1>8. RowsHold
  BY DEF Init, RowsHold, NoParent, WaveNums
<1>9. SentHolds
  BY DEF Init, SentHolds
<1>10. FlagHolds /\ CancelHolds /\ TwinHolds
  BY <1>3 DEF Init, FlagHolds, CancelHolds, TwinHolds
<1>11. RevokedHolds
  BY DEF Init, RevokedHolds, RevocationHolds
<1> QED  BY <1>4, <1>5, <1>6, <1>7, <1>8, <1>9, <1>10, <1>11 DEF BatchInv

\* The minions of a wave that is published are charged on top of those before.
LEMMA ChargeBound ==
    ASSUME BatchInv, pc \in {"publish", "polling"}
    PROVE  /\ num \in 1..Len(waves) /\ num \in WaveNums
           /\ Cardinality(targets) \in Nat /\ Cardinality(waves[num]) \in Nat
           /\ Cardinality(Charged(waves, num)) \in Nat
           /\ failures + Cardinality(targets) <= Cardinality(Charged(waves, num))
           /\ Cardinality(Charged(waves, num)) <= MaxWaves
           /\ failures + Cardinality(targets) < batch.stop_after + Cardinality(waves[num])
<1>1. /\ waves \in Seq(SUBSET Minions) /\ num \in 1..Len(waves) /\ targets \subseteq waves[num]
      /\ failures \in Nat /\ batch.stop_after \in Nat /\ num \in WaveNums
      /\ failures <= Cardinality(Charged(waves, num - 1)) /\ failures < batch.stop_after
      /\ \A i, k \in 1..Len(waves) : i # k => waves[i] \cap waves[k] = {}
  <2>1. /\ waves \in Seq(SUBSET Minions) /\ num \in Nat \ {0} /\ failures \in Nat /\ batch \in Batch
        /\ Len(waves) \in Nat
    BY LenProperties, FleetSize DEF BatchInv, TypeOK
  <2>2. /\ num <= Len(waves) /\ targets \subseteq waves[num] /\ Len(waves) <= MaxWaves
    BY DEF BatchInv, LoopHolds, SplitHolds
  <2> QED  BY <2>1, <2>2, FleetSize DEF BatchInv, SplitHolds, FailuresHold, Batch, WaveNums
<1>2. \A i \in 1..Len(waves) : waves[i] \subseteq Minions
  BY <1>1, ElementOfSeq
<1> DEFINE before == Charged(waves, num - 1)
<1>3. Charged(waves, num) = before \cup waves[num]
  <2>1. 1..num = (1..(num - 1)) \cup {num} /\ Len(waves) \in Nat
    BY <1>1, LenProperties
  <2> QED  BY <2>1 DEF Charged
<1>4. before \cap waves[num] = {} /\ before \subseteq Minions
  <2>1. \A i \in 1..(num - 1) : i \in 1..Len(waves) /\ i # num
    BY <1>1, LenProperties
  <2> QED  BY <1>1, <1>2, <2>1 DEF Charged
<1> HIDE DEF before
<1>5. /\ IsFiniteSet(before) /\ IsFiniteSet(waves[num]) /\ IsFiniteSet(targets)
      /\ Cardinality(targets) <= Cardinality(waves[num])
  <2>1. IsFiniteSet(before) /\ IsFiniteSet(waves[num])
    BY <1>1, <1>2, <1>4, FleetSize, FS_Subset
  <2> QED  BY <1>1, <2>1, FS_Subset
<1>6. /\ Cardinality(before) \in Nat /\ Cardinality(waves[num]) \in Nat
      /\ Cardinality(targets) \in Nat
  BY <1>5, FS_CardinalityType
<1>7. Cardinality(Charged(waves, num)) = Cardinality(before) + Cardinality(waves[num])
  <2>1. Cardinality(before \cup waves[num])
          = Cardinality(before) + Cardinality(waves[num]) - Cardinality(before \cap waves[num])
    BY <1>5, FS_Union
  <2>2. Cardinality(before \cap waves[num]) = 0
    BY <1>4, FS_EmptySet
  <2> QED  BY <1>3, <1>6, <2>1, <2>2
<1>8. Cardinality(Charged(waves, num)) <= MaxWaves
  <2>1. Charged(waves, num) \subseteq Minions
    BY <1>1, <1>2, <1>3, <1>4
  <2> QED  BY <2>1, FleetSize, FS_Subset DEF MaxWaves
<1> QED  BY <1>1, <1>5, <1>6, <1>7, <1>8 DEF before

\* No return of a wave is stored, so all its targets are charged.
LEMMA ChargeEffect ==
    ASSUME BatchInv, WaveFailed \/ WaveSettled
    PROVE  /\ failures' = failures + Cardinality(targets)
           /\ missing_total' \in {missing_total, missing_total + Cardinality(targets)}
           /\ \/ /\ failures' >= batch.stop_after
                 /\ status' = "stopped" /\ pc' = "finish" /\ num' = num
              \/ /\ failures' < batch.stop_after
                 /\ status' = status /\ pc' = "wave" /\ num' = num + 1
<1>1. failures \in Nat /\ batch.stop_after \in Nat /\ Cardinality(targets) \in Nat
  <2>1. failures \in Nat /\ batch.stop_after \in Nat
    BY FleetSize DEF BatchInv, TypeOK, Batch
  <2>2. pc \in {"publish", "polling"}
    BY DEF WaveFailed, WaveSettled
  <2> QED  BY <2>1, <2>2, ChargeBound
<1>2. CASE WaveFailed
  BY <1>1, <1>2 DEF WaveFailed, Gate
<1>3. CASE WaveSettled
  <2>1. WaveReturns(num) = {}
    BY DEF WaveReturns, WavePrefix, SyntheticPrefixes
  <2>2. Cardinality(WaveReturns(num)) = 0 /\ Cardinality(WaveReturns(num) \cap Failing) = 0
    BY <2>1, FS_EmptySet
  <2>3. /\ Cardinality(targets) - Cardinality(WaveReturns(num)) = Cardinality(targets)
        /\ failures + Cardinality(WaveReturns(num) \cap Failing)
             + (Cardinality(targets) - Cardinality(WaveReturns(num)))
           = failures + Cardinality(targets)
    BY <1>1, <2>2
  <2> QED  BY <1>1, <1>3, <2>3 DEF WaveSettled, Gate
<1> QED  BY <1>2, <1>3

-----------------------------------------------------------------------------
(* Steps.                                                                   *)

\* What is pinned is a split of the roster.
LEMMA PinnedWaves ==
    ASSUME BatchInv, NEW b \in setup.batches, run_batched(b)
    PROVE  /\ b \in Batch
           /\ waves' \in Seq(SUBSET Minions) /\ Len(waves') \in 1..MaxWaves
           /\ \A i, k \in 1..Len(waves') : i # k => waves'[i] \cap waves'[k] = {}
           /\ mode = "legacy" => \A m \in Targeted : \E n \in 1..Len(waves') : m \in waves'[n]
<1>1. setup \in Setups /\ b \in Batch
  BY SetupsAssumption DEF BatchInv, TypeOK
<1>2. /\ Roster \in Seq(Minions)
      /\ \A i, k \in 1..Len(Roster) : Roster[i] = Roster[k] => i = k
  BY <1>1, TargetedType DEF Roster
<1>3. /\ PinnedRoster \in SUBSET (1..Len(Roster)) /\ PinnedRoster # {}
      /\ waves' = split_roster(Roster, PinnedRoster, b.mode, b.size)
  BY DEF run_batched, PinnedRoster
<1>4. b.size \in Nat \ {0}
  BY <1>1 DEF Batch
<1>5. /\ waves' \in Seq(SUBSET Minions) /\ Len(waves') \in 1..MaxWaves
      /\ \A i, k \in 1..Len(waves') : i # k => waves'[i] \cap waves'[k] = {}
      /\ \A k \in PinnedRoster : \E i \in 1..Len(waves') : Roster[k] \in waves'[i]
  BY <1>2, <1>3, <1>4, SplitIsPartition
<1>6. mode = "legacy" => PinnedRoster = 1..Len(Roster)
  BY DEF PinnedRoster
<1>7. mode = "legacy" => \A m \in Targeted : \E n \in 1..Len(waves') : m \in waves'[n]
  <2> SUFFICES ASSUME mode = "legacy", NEW m \in Targeted
               PROVE  \E n \in 1..Len(waves') : m \in waves'[n]
    OBVIOUS
  <2>1. PICK k \in 1..Len(Roster) : m = Roster[k]
    BY DEF Targeted, RosterIds
  <2> QED  BY <1>5, <1>6, <2>1
<1> QED  BY <1>1, <1>5, <1>7

\* run_batched pins the waves and commits the parent row.
LEMMA PinBatchInv ==
    ASSUME BatchInv, NEW b \in setup.batches, run_batched(b)
    PROVE  BatchInv'
<1> USE DEF envVars, cancelVars, twinVars, runVars, loopVars, saltVars, auxVars
<1>1. /\ b \in Batch /\ waves' \in Seq(SUBSET Minions) /\ Len(waves') \in 1..MaxWaves
      /\ \A i, k \in 1..Len(waves') : i # k => waves'[i] \cap waves'[k] = {}
      /\ mode = "legacy" => \A m \in Targeted : \E n \in 1..Len(waves') : m \in waves'[n]
  BY PinnedWaves
<1>2. /\ TypeOK /\ LoopHolds /\ FailuresHold /\ RowsHold /\ SentHolds /\ CancelHolds
      /\ FlagHolds /\ TwinHolds /\ RevokedHolds /\ MaxWaves \in Nat
  BY FleetSize DEF BatchInv
<1>3. /\ pc = "form" /\ pc' = "saving" /\ batch' = b
      /\ parent' = [NoParent EXCEPT !.row = TRUE]
      /\ UNCHANGED <<envVars, cancelVars, inline, loopVars, children, saltVars,
                     twinVars, auxVars>>
      /\ memo' = [run |-> run_grant, batch |-> batch_grant, fleet |-> batch_fleet]
  BY DEF run_batched
<1>4. num = 1 /\ failures = 0 /\ late = 0 /\ late \in Nat
  BY <1>2, <1>3 DEF LoopHolds, CancelHolds, TypeOK
<1>5. parent' = [row |-> TRUE, complete |-> FALSE, status |-> "running",
                 failures |-> 0, missing |-> 0, waves_done |-> 0]
  BY <1>3 DEF NoParent
<1>6. TypeOK'
  <2>1. parent' \in [row: BOOLEAN, complete: BOOLEAN, status: Statuses,
                     failures: 0..MaxWaves, missing: 0..MaxWaves, waves_done: 0..MaxWaves]
    BY <1>2, <1>5 DEF Statuses
  <2>2. memo' \in [run: SUBSET Minions, batch: SUBSET Minions, fleet: BOOLEAN]
    BY <1>2, <1>3 DEF TypeOK
  <2> QED  BY <1>1, <1>2, <1>3, <2>1, <2>2 DEF TypeOK
<1>7. SplitHolds'
  BY <1>1, <1>2, <1>3 DEF SplitHolds, mode, Targeted, Roster
<1>8. LoopHolds'
  BY <1>1, <1>2, <1>3, <1>4 DEF LoopHolds
<1>9. FailuresHold'
  <2>1. Charged(waves', num' - 1) = {}
    BY <1>3, <1>4 DEF Charged
  <2>2. Cardinality(Charged(waves', num' - 1)) = 0
    BY <2>1, FS_EmptySet
  <2>3. batch'.stop_after \in Nat \ {0}
    BY <1>1, <1>3 DEF Batch
  <2> QED  BY <1>2, <1>3, <1>4, <2>2, <2>3 DEF FailuresHold
<1>10. RowsHold'
  BY <1>2, <1>3, <1>4, <1>5 DEF RowsHold, WaveNums
<1>11. \A n \in WaveNums : sent[n] = {}
  BY <1>2, <1>3, <1>4 DEF SentHolds, LastChecked, WaveNums
<1>12. SentHolds'
  BY <1>3, <1>11 DEF SentHolds
<1>13. FlagHolds' /\ CancelHolds' /\ TwinHolds'
  <2>1. FlagHolds'
    BY <1>2, <1>3 DEF FlagHolds
  <2>2. CancelHolds'
    BY <1>1, <1>3, <1>4 DEF CancelHolds
  <2>3. TwinHolds'
    BY <1>1, <1>2, <1>3 DEF TwinHolds
  <2> QED  BY <2>1, <2>2, <2>3
<1>14. RevokedHolds'
  BY <1>2, <1>3, <1>11 DEF RevokedHolds, RevocationHolds
<1> QED  BY <1>6, <1>7, <1>8, <1>9, <1>10, <1>12, <1>13, <1>14 DEF BatchInv

\* A step that leaves the cancel, the clock and the twin alone.
LEMMA FlagKept ==
    ASSUME FlagHolds, TwinHolds, UNCHANGED <<cancelVars, twinVars, elapsed, outage, redis>>,
           UNCHANGED <<setup, inline, waves>>, pc # "form", pc' # "form"
    PROVE  FlagHolds' /\ TwinHolds' /\ Acknowledged' = Acknowledged /\ FlagStands' = FlagStands
<1>1. FlagHolds'
  BY DEF FlagHolds, cancelVars
<1>2. TwinHolds'
  BY DEF TwinHolds, twinVars
<1>3. Acknowledged' = Acknowledged
  BY DEF Acknowledged, cancelVars
<1>4. FlagStands' = FlagStands
  BY DEF FlagStands, Limit, cancelVars
<1> QED  BY <1>1, <1>2, <1>3, <1>4

\* A tick makes the flag one older and takes it away at the end of its life.
LEMMA FlagAged ==
    ASSUME TypeOK, FlagHolds, FlagAges
    PROVE  /\ flag' \in BOOLEAN /\ age' \in 0..CancelTTL
           /\ (flag => age' = age + 1) /\ (~flag => age' = age)
           /\ (flag' => flag /\ age' < CancelTTL) /\ (~flag' => age' = 0 \/ age' = CancelTTL)
           /\ (Acknowledged => Acknowledged')
<1>1. flag \in BOOLEAN /\ age \in Nat /\ age <= CancelTTL /\ CancelTTL \in Nat \ {0}
  BY CancelTTLAssumption DEF TypeOK
<1>2. (flag => age < CancelTTL) /\ (~flag => age = 0 \/ age = CancelTTL)
  BY DEF FlagHolds
<1>3. flag' \in BOOLEAN /\ (flag' => flag /\ age + 1 < CancelTTL)
      /\ (flag /\ age + 1 < CancelTTL => flag')
  BY Zenon DEF FlagAges
<1>4. (flag => age' = age + 1) /\ (~flag => age' = age)
  BY <1>1 DEF FlagAges
<1>5. CASE flag
  <2>1. age' = age + 1 /\ age < CancelTTL
    BY <1>2, <1>4, <1>5
  <2>2. flag' => age + 1 < CancelTTL
    BY <1>3
  <2>3. ~flag' => ~(age + 1 < CancelTTL)
    BY <1>3, <1>5
  <2>4. age' \in 0..CancelTTL /\ age' > 0 /\ (~(age + 1 < CancelTTL) => age' = CancelTTL)
    BY <1>1, <2>1
  <2> QED  BY <1>3, <1>5, <2>1, <2>2, <2>3, <2>4 DEF Acknowledged
<1>6. CASE ~flag
  <2>1. age' = age /\ ~flag' /\ (age = 0 \/ age = CancelTTL)
    BY <1>2, <1>3, <1>4, <1>6
  <2> QED  BY <1>1, <1>3, <1>6, <2>1 DEF Acknowledged
<1> QED  BY <1>1, <1>5, <1>6

\* A turn that publishes nothing and charges nothing.
Turn ==
    \/ run_wave_batch_task \/ WaveCancelled \/ WaveDenied \/ WaveSkipped \/ WaveKept
    \/ WaveWaits \/ BatchFinished \/ Killed

LEMMA TurnBatchInv == ASSUME BatchInv, Turn PROVE BatchInv'
<1> USE DEF envVars, cancelVars, twinVars, runVars, loopVars, rowVars, saltVars, auxVars
<1>1. /\ TypeOK /\ SplitHolds /\ LoopHolds /\ FailuresHold /\ RowsHold /\ SentHolds
      /\ FlagHolds /\ CancelHolds /\ TwinHolds /\ RevokedHolds /\ MaxWaves \in Nat /\ Len(waves) \in Nat
  BY FleetSize, LenProperties DEF BatchInv, TypeOK
<1>2. /\ num \in Nat \ {0} /\ failures \in Nat /\ late \in Nat /\ Len(waves) <= MaxWaves
      /\ num <= Len(waves) + 1 /\ waves \in Seq(SUBSET Minions)
  BY <1>1 DEF TypeOK, SplitHolds, LoopHolds
<1>3. UNCHANGED <<envVars, runVars, failures, missing_total, saltVars, twinVars, auxVars,
                  children>>
  BY DEF Turn, run_wave_batch_task, WaveCancelled, WaveDenied, WaveSkipped, WaveKept,
         WaveWaits, BatchFinished, Killed
<1>4. Len(waves') = Len(waves) /\ pc # "form" /\ pc' # "form"
  BY <1>3 DEF Turn, run_wave_batch_task, WaveCancelled, WaveDenied, WaveSkipped, WaveKept,
         WaveWaits, BatchFinished, Killed, Running
<1>f. ~WaveWaits => /\ FlagHolds' /\ TwinHolds' /\ Acknowledged' = Acknowledged
                    /\ FlagStands' = FlagStands /\ UNCHANGED cancelVars
  <2> SUFFICES ASSUME ~WaveWaits
               PROVE  /\ FlagHolds' /\ TwinHolds' /\ Acknowledged' = Acknowledged
                      /\ FlagStands' = FlagStands /\ UNCHANGED cancelVars
    OBVIOUS
  <2>1. UNCHANGED <<cancelVars, elapsed>>
    BY DEF Turn, run_wave_batch_task, WaveCancelled, WaveDenied, WaveSkipped, WaveKept,
           BatchFinished, Killed
  <2>2. UNCHANGED <<twinVars, outage, redis, setup, inline, waves>>
    BY <1>3
  <2> QED  BY <1>1, <1>4, <2>1, <2>2, FlagKept
<1>w. WaveWaits => pc = "polling" /\ pc' = "polling"
  BY DEF WaveWaits
<1>5. SplitHolds'
  <2>1. waves' = waves /\ mode' = mode /\ Targeted' = Targeted
    BY <1>3 DEF mode, Targeted, Roster
  <2> QED  BY <1>1, <1>4, <2>1 DEF SplitHolds
<1> DEFINE ParentType == [row: BOOLEAN, complete: BOOLEAN, status: Statuses,
                          failures: 0..MaxWaves, missing: 0..MaxWaves,
                          waves_done: 0..MaxWaves]
<1>6. parent \in ParentType /\ status \in Statuses
  BY <1>1 DEF TypeOK
<1>7. CASE \/ run_wave_batch_task \/ WaveCancelled \/ WaveDenied \/ BatchFinished \/ Killed
  <2>0. FlagHolds' /\ TwinHolds' /\ UNCHANGED cancelVars
    BY <1>7, <1>f, <1>w DEF run_wave_batch_task, WaveCancelled, WaveDenied, BatchFinished, Killed
  <2>1. /\ UNCHANGED <<num, targets, waited, elapsed>>
        /\ pc \in {"saving", "queued", "wave", "publish", "polling", "finish"}
        /\ pc' \in {"wave", "finish", "returned", "killed"} /\ (pc' = "wave" => pc = "queued")
        /\ pc' = "finish" => pc = "wave"
    BY <1>7 DEF run_wave_batch_task, WaveCancelled, WaveDenied, BatchFinished, Killed, Running
  <2>2. parent' \in ParentType /\ status' \in Statuses
    <3>1. CASE BatchFinished
      <4>1. parent' = [parent EXCEPT !.complete = TRUE, !.status = status,
                                     !.failures = failures, !.missing = missing_total]
        BY <3>1 DEF BatchFinished
      <4>2. failures \in 0..MaxWaves /\ missing_total \in 0..MaxWaves
        BY <1>1 DEF TypeOK
      <4> QED  BY <1>6, <3>1, <4>1, <4>2 DEF BatchFinished
    <3>2. CASE ~BatchFinished
      BY <1>6, <1>7, <3>2 DEF run_wave_batch_task, WaveCancelled, WaveDenied, Killed, Statuses
    <3> QED  BY <3>1, <3>2
  <2> HIDE DEF ParentType
  <2>3. TypeOK'
    BY <1>1, <1>3, <2>0, <2>1, <2>2 DEF TypeOK, ParentType
  <2>4. LoopHolds'
    BY <1>1, <1>3, <1>4, <2>1 DEF LoopHolds
  <2>5. FailuresHold'
    BY <1>1, <1>3, <2>1 DEF FailuresHold
  <2>6. RowsHold'
    <3>1. mode' = mode /\ ~(parent.complete /\ parent.status = "complete")
      BY <1>1, <1>3, <2>1 DEF RowsHold, mode
    <3>2. CASE BatchFinished
      <4>1. /\ pc' = "returned" /\ UNCHANGED <<num, waves, children>>
            /\ pc = "finish" \/ num > Len(waves)
        BY <1>3, <3>2 DEF BatchFinished
      <4>2. parent'.status = status
        BY <1>6, <3>2 DEF BatchFinished, ParentType
      <4> QED  BY <1>1, <3>1, <4>1, <4>2 DEF RowsHold
    <3>3. CASE ~BatchFinished
      <4>1. parent' = parent /\ UNCHANGED <<num, waves, children>>
        BY <1>3, <1>7, <2>1, <3>3 DEF run_wave_batch_task, WaveCancelled, WaveDenied, Killed
      <4>2. pc' = "finish" => status' # "complete"
        BY <1>7, <3>3 DEF run_wave_batch_task, WaveCancelled, WaveDenied, Killed
      <4> QED  BY <1>1, <2>1, <3>1, <4>1, <4>2 DEF RowsHold
    <3> QED  BY <3>2, <3>3
  <2>7. SentHolds'
    <3>1. LastChecked <= LastChecked'
      BY <1>1, <1>2, <2>1 DEF LastChecked
    <3>2. LastChecked \in Int /\ LastChecked' \in Int /\ WaveNums \subseteq Int
      BY <1>2, <2>1 DEF LastChecked, WaveNums
    <3>3. ASSUME NEW n \in WaveNums, sent[n] # {}
          PROVE  n <= LastChecked' /\ n <= Len(waves) /\ sent[n] \subseteq waves[n]
      BY <1>1, <3>1, <3>2, <3>3 DEF SentHolds
    <3> QED  BY <1>3, <1>4, <3>3 DEF SentHolds
  <2>8. CancelHolds'
    <3>1. Acknowledged' = Acknowledged /\ FlagStands' = FlagStands
      BY <1>7, <1>f, <1>w DEF run_wave_batch_task, WaveCancelled, WaveDenied, BatchFinished, Killed
    <3> QED  BY <1>1, <1>2, <1>3, <1>4, <2>1, <3>1 DEF CancelHolds
  <2>9. RevokedHolds'
    BY <1>1, <1>3, <2>1 DEF RevokedHolds, RevocationHolds, mode
  <2> QED  BY <1>5, <2>0, <2>3, <2>4, <2>5, <2>6, <2>7, <2>8, <2>9 DEF BatchInv
<1>8. CASE WaveSkipped
  <2>1. /\ pc = "wave" /\ UNCHANGED <<pc, status, targets, waited, elapsed, parent>>
        /\ num <= Len(waves) /\ num' = num + 1 /\ mode = "scoped"
    BY <1>8 DEF WaveSkipped
  <2>0. /\ FlagHolds' /\ TwinHolds' /\ UNCHANGED cancelVars
        /\ Acknowledged' = Acknowledged /\ FlagStands' = FlagStands
    BY <1>f, <1>w, <2>1
  <2>2. TypeOK'
    <3>1. num' \in 1..MaxWaves + 1
      BY <1>1, <1>2, <2>1
    <3> QED  BY <1>1, <1>3, <2>0, <2>1, <3>1 DEF TypeOK
  <2>3. LoopHolds'
    BY <1>1, <1>2, <1>3, <1>4, <2>1 DEF LoopHolds
  <2>4. FailuresHold'
    <3>0. num \in 1..Len(waves)
      BY <1>1, <1>2, <2>1
    <3>1. Cardinality(Charged(waves, num - 1)) <= Cardinality(Charged(waves, num))
      BY <1>2, <3>0, ChargedGrows
    <3>2. Cardinality(Charged(waves, num - 1)) \in Nat /\ Cardinality(Charged(waves, num)) \in Nat
      BY <1>2, <3>0, ChargedGrows
    <3>3. num' - 1 = num /\ waves' = waves /\ 1..num \subseteq 1..num'
      BY <1>2, <1>3, <2>1
    <3>4. failures' <= Cardinality(Charged(waves', num' - 1)) /\ failures' < batch'.stop_after
      BY <1>1, <1>2, <1>3, <2>1, <3>1, <3>2, <3>3 DEF FailuresHold
    <3>5. failures' > 0 => \E n \in 1..num' : failures' < batch'.stop_after + Cardinality(waves'[n])
      BY <1>1, <1>3, <3>3 DEF FailuresHold
    <3> QED  BY <1>1, <1>3, <2>1, <3>4, <3>5 DEF FailuresHold
  <2>5. RowsHold'
    <3>1. mode' = "scoped" /\ ~(parent.complete /\ parent.status = "complete")
      BY <1>1, <1>3, <2>1 DEF RowsHold, mode
    <3> QED  BY <2>1, <3>1 DEF RowsHold
  <2>6. SentHolds'
    BY <1>1, <1>2, <1>3, <2>1 DEF SentHolds, LastChecked, WaveNums
  <2>7. CancelHolds'
    BY <1>1, <1>2, <1>3, <1>4, <2>0, <2>1 DEF CancelHolds
  <2>8. RevokedHolds'
    BY <1>1, <1>3, <2>1 DEF RevokedHolds, RevocationHolds, mode
  <2> QED  BY <1>5, <2>0, <2>2, <2>3, <2>4, <2>5, <2>6, <2>7, <2>8 DEF BatchInv
<1>9. CASE WaveKept
  <2>1. /\ pc = "wave" /\ pc' = "publish" /\ num <= Len(waves) /\ ~batch_cancelled
        /\ targets' \subseteq waves[num]
        /\ UNCHANGED <<num, waited, elapsed, status, parent>>
    BY <1>9 DEF WaveKept, Wave
  <2>0. /\ FlagHolds' /\ TwinHolds' /\ UNCHANGED cancelVars
        /\ Acknowledged' = Acknowledged /\ FlagStands' = FlagStands
    BY <1>f, <1>w, <2>1
  <2>2. waves[num] \subseteq Minions
    BY <1>1, <1>2, <2>1, ElementOfSeq DEF TypeOK
  <2>3. TypeOK'
    BY <1>1, <1>3, <2>0, <2>1, <2>2 DEF TypeOK
  <2>4. LoopHolds'
    BY <1>1, <1>2, <1>3, <1>4, <2>1 DEF LoopHolds
  <2>5. FailuresHold'
    BY <1>1, <1>3, <2>1 DEF FailuresHold
  <2>6. RowsHold'
    BY <1>1, <1>3, <2>1 DEF RowsHold, mode
  <2>7. SentHolds'
    <3>1. LastChecked <= LastChecked' /\ LastChecked \in Int /\ LastChecked' \in Int
      BY <1>2, <2>1 DEF LastChecked
    <3> QED  BY <1>1, <1>3, <3>1 DEF SentHolds, WaveNums
  <2>8. CancelHolds'
    <3>1. FlagStands => late = 0
      <4> SUFFICES ASSUME FlagStands PROVE ~Acknowledged
        BY <1>1, <1>2 DEF CancelHolds
      <4>1. ~flag
        BY <1>1, <2>1 DEF FlagHolds, FlagStands, batch_cancelled
      <4>2. elapsed < Limit
        BY <1>9 DEF WaveKept, Alive
      <4>3. age # CancelTTL
        <5>1. /\ age \in Nat /\ parked \in Nat /\ elapsed \in Nat /\ Limit \in Nat
              /\ CancelTTL \in Nat
          BY <1>1, TimeoutsAssumption, CancelTTLAssumption DEF TypeOK, Limit
        <5>2. age <= parked + elapsed /\ parked + Limit < CancelTTL
          BY <1>1 DEF FlagHolds, FlagStands
        <5> QED  BY <4>2, <5>1, <5>2
      <4> QED  BY <1>1, <4>1, <4>3 DEF FlagHolds, Acknowledged
    <3> QED  BY <1>1, <1>2, <1>3, <1>4, <2>0, <2>1, <3>1 DEF CancelHolds
  <2>9. RevokedHolds'
    <3>1. ASSUME mode = "scoped", ~inline, NEW m \in targets'
          PROVE  num <= revoked[m]
      <4>1. exists /\ m \in run_grant /\ (batch_fleet \/ m \in batch_grant) /\ m \in Minions
        BY <1>9, <2>1, <2>2, <3>1 DEF WaveKept, AllowedRun, AllowedBatch, FleetBatch, Wave
      <4> QED  BY <1>1, <1>2, <4>1 DEF RevokedHolds
    <3>2. RevocationHolds'
      BY <1>1, <1>3 DEF RevokedHolds, RevocationHolds, mode
    <3> QED  BY <1>1, <1>3, <2>1, <3>1, <3>2 DEF RevokedHolds, mode
  <2> QED  BY <1>5, <2>0, <2>3, <2>4, <2>5, <2>6, <2>7, <2>8, <2>9 DEF BatchInv
<1>10. CASE WaveWaits
  <2>1. /\ pc = "polling" /\ waited < WaveTimeout /\ waited' = waited + 1
        /\ elapsed' = elapsed + 1
        /\ age' = (IF flag THEN age + 1 ELSE age) /\ flag' = (flag /\ age + 1 < CancelTTL)
        /\ UNCHANGED <<pc, num, targets, status, parent, parked>>
    BY <1>10 DEF WaveWaits, FlagAges
  <2>a. /\ flag' \in BOOLEAN /\ age' \in 0..CancelTTL /\ FlagHolds'
        /\ (Acknowledged => Acknowledged')
    <3>1. FlagHolds /\ age \in 0..CancelTTL /\ parked \in 0..CancelTTL /\ elapsed \in Nat
      BY <1>1 DEF TypeOK
    <3>2. UNCHANGED <<outage, redis>>
      BY <1>3
    <3>3. /\ flag' \in BOOLEAN /\ age' \in 0..CancelTTL
          /\ (flag => age' = age + 1) /\ (~flag => age' = age)
          /\ (flag' => flag /\ age' < CancelTTL) /\ (~flag' => age' = 0 \/ age' = CancelTTL)
          /\ (Acknowledged => Acknowledged')
      BY <1>1, <1>10, FlagAged DEF WaveWaits
    <3>4. age' <= parked' + elapsed' /\ parked' <= age'
      BY <2>1, <3>1, <3>3 DEF FlagHolds
    <3>5. flag' /\ ~outage' => redis'
      BY <3>1, <3>2, <3>3 DEF FlagHolds
    <3> QED  BY <3>3, <3>4, <3>5 DEF FlagHolds
  <2>2. TypeOK'
    <3>1. waited' \in 0..WaveTimeout /\ elapsed' \in Nat
      BY <1>1, <2>1, TimeoutsAssumption DEF TypeOK
    <3> QED  BY <1>1, <1>3, <2>1, <2>a, <3>1 DEF TypeOK
  <2>3. LoopHolds' /\ FailuresHold' /\ RowsHold'
    BY <1>1, <1>3, <2>1 DEF LoopHolds, FailuresHold, RowsHold, mode
  <2>4. SentHolds'
    BY <1>1, <1>3, <2>1 DEF SentHolds, LastChecked
  <2>6. CancelHolds' /\ TwinHolds'
    <3>1. FlagStands' = FlagStands
      BY <1>3, <2>1 DEF FlagStands, Limit
    <3>2. CancelHolds'
      BY <1>1, <1>3, <2>1, <2>a, <3>1 DEF CancelHolds
    <3>3. TwinHolds'
      BY <1>1, <1>3, <2>1 DEF TwinHolds
    <3> QED  BY <3>2, <3>3
  <2>5. RevokedHolds'
    BY <1>1, <1>3, <2>1 DEF RevokedHolds, RevocationHolds, mode
  <2> QED  BY <1>5, <2>a, <2>2, <2>3, <2>4, <2>5, <2>6 DEF BatchInv
<1> QED  BY <1>7, <1>8, <1>9, <1>10 DEF Turn

\* A step after which the waves, the batch and the mode are the same.
LEMMA SplitKept ==
    ASSUME SplitHolds, UNCHANGED <<setup, waves>>, pc # "form" \/ pc' = "form"
    PROVE  SplitHolds'
<1>1. waves' = waves /\ mode' = mode /\ Targeted' = Targeted
  BY DEF mode, Targeted, Roster
<1> QED  BY <1>1 DEF SplitHolds

\* A wave is published: to minions of its slice, which passed its check.
LEMMA PublishBatchInv == ASSUME BatchInv, WavePublished PROVE BatchInv'
<1> USE DEF envVars, cancelVars, twinVars, runVars, loopVars, rowVars, saltVars, auxVars
<1>1. /\ TypeOK /\ SplitHolds /\ LoopHolds /\ FailuresHold /\ RowsHold /\ SentHolds
      /\ FlagHolds /\ CancelHolds /\ TwinHolds /\ RevokedHolds /\ MaxWaves \in Nat /\ Len(waves) \in Nat
  BY FleetSize, LenProperties DEF BatchInv, TypeOK
<1>2. /\ num \in Nat \ {0} /\ late \in Nat /\ Len(waves) <= MaxWaves
      /\ sent \in [WaveNums -> SUBSET Minions] /\ targets \subseteq Minions
      /\ children \in [WaveNums -> {"none", "running", "failed"}]
      /\ revoked \in [Minions -> 0..MaxWaves + 1] /\ flag \in BOOLEAN
  BY <1>1 DEF TypeOK, SplitHolds
<1>3. num <= Len(waves) /\ num \in WaveNums /\ targets \subseteq waves[num]
  BY <1>1, <1>2 DEF WavePublished, LoopHolds, WaveNums
<1>4. /\ pc = "publish" /\ pc' = "polling" /\ waited' = 0
      /\ children' = [children EXCEPT ![num] = "running"]
      /\ late' \in {late, late + 1} /\ (late' # late => Acknowledged)
      /\ UNCHANGED <<envVars, cancelVars, twinVars, runVars, num, targets, elapsed, failures, missing_total,
                     status, parent, landed, revoked, outage>>
  BY <1>2 DEF WavePublished
<1>5. PICK reached \in SUBSET targets : sent' = [sent EXCEPT ![num] = reached]
  BY DEF WavePublished
<1>6. \A n \in WaveNums : sent'[n] = IF n = num THEN reached ELSE sent[n]
  BY <1>2, <1>5
<1>f. /\ FlagHolds' /\ TwinHolds' /\ Acknowledged' = Acknowledged
      /\ FlagStands' = FlagStands
  BY <1>1, <1>4, FlagKept
<1>7. late < num
  BY <1>1, <1>4 DEF CancelHolds
<1>8. TypeOK'
  <2>1. waited' \in 0..WaveTimeout
    BY <1>4, TimeoutsAssumption
  <2>2. late' \in 0..MaxWaves
    BY <1>1, <1>2, <1>3, <1>4, <1>7
  <2>3. sent' \in [WaveNums -> SUBSET Minions]
    BY <1>2, <1>5
  <2>4. children' \in [WaveNums -> {"none", "running", "failed"}]
    BY <1>2, <1>4
  <2> QED  BY <1>1, <1>4, <2>1, <2>2, <2>3, <2>4 DEF TypeOK
<1>9. SplitHolds'
  BY <1>1, <1>4, SplitKept
<1>10. LoopHolds' /\ FailuresHold'
  BY <1>1, <1>3, <1>4 DEF LoopHolds, FailuresHold
<1>11. RowsHold'
  <2>1. \A n \in WaveNums : children'[n] = IF n = num THEN "running" ELSE children[n]
    BY <1>2, <1>4
  <2>2. mode' = mode
    BY <1>4 DEF mode
  <2> QED  BY <1>1, <1>3, <1>4, <2>1, <2>2 DEF RowsHold
<1>12. SentHolds'
  <2>1. LastChecked = num /\ LastChecked' = num
    BY <1>4 DEF LastChecked
  <2>2. ASSUME NEW n \in WaveNums, sent'[n] # {}
        PROVE  n <= num /\ n <= Len(waves) /\ sent'[n] \subseteq waves[n]
    <3>1. CASE n = num
      <4>1. sent'[n] = reached
        BY <1>6, <3>1
      <4> QED  BY <1>2, <1>3, <3>1, <4>1
    <3>2. CASE n # num
      <4>1. sent'[n] = sent[n]
        BY <1>6, <3>2
      <4> QED  BY <1>1, <2>1, <2>2, <4>1 DEF SentHolds
    <3> QED  BY <3>1, <3>2
  <2> QED  BY <1>4, <2>1, <2>2 DEF SentHolds
<1>13. CancelHolds'
  BY <1>1, <1>2, <1>3, <1>4, <1>7, <1>f DEF CancelHolds
<1>14. RevokedHolds'
  <2>1. mode' = mode /\ inline' = inline /\ revoked' = revoked
    BY <1>4 DEF mode
  <2>2. ASSUME mode = "scoped", ~inline, NEW n \in WaveNums, NEW m \in sent'[n]
        PROVE  n <= revoked[m]
    BY <1>1, <1>4, <1>6, <2>2 DEF RevokedHolds, RevocationHolds
  <2>3. RevocationHolds'
    BY <2>1, <2>2 DEF RevocationHolds
  <2> QED  BY <1>1, <1>4, <2>3 DEF RevokedHolds
<1> QED  BY <1>f, <1>8, <1>9, <1>10, <1>11, <1>12, <1>13, <1>14 DEF BatchInv

\* A wave is charged: its publish failed, or it is settled.
LEMMA ChargeBatchInv == ASSUME BatchInv, WaveFailed \/ WaveSettled PROVE BatchInv'
<1> USE DEF envVars, cancelVars, twinVars, runVars, loopVars, rowVars, saltVars, auxVars
<1>1. /\ TypeOK /\ SplitHolds /\ LoopHolds /\ FailuresHold /\ RowsHold /\ SentHolds
      /\ FlagHolds /\ CancelHolds /\ TwinHolds /\ RevokedHolds /\ MaxWaves \in Nat /\ Len(waves) \in Nat
  BY FleetSize, LenProperties DEF BatchInv, TypeOK
<1>2. /\ num \in Nat \ {0} /\ late \in Nat /\ Len(waves) <= MaxWaves
      /\ sent \in [WaveNums -> SUBSET Minions] /\ targets \subseteq Minions
      /\ children \in [WaveNums -> {"none", "running", "failed"}]
      /\ revoked \in [Minions -> 0..MaxWaves + 1] /\ flag \in BOOLEAN
      /\ failures \in Nat /\ missing_total \in Nat /\ batch.stop_after \in Nat
  BY <1>1 DEF TypeOK, SplitHolds, Batch
<1>3. pc \in {"publish", "polling"}
  BY DEF WaveFailed, WaveSettled
<1>4. num <= Len(waves) /\ num \in WaveNums /\ targets \subseteq waves[num]
  BY <1>1, <1>2, <1>3 DEF LoopHolds, WaveNums
<1> DEFINE size == Cardinality(targets)
<1>5. /\ size \in Nat /\ Cardinality(waves[num]) \in Nat
      /\ Cardinality(Charged(waves, num)) \in Nat
      /\ failures + size <= Cardinality(Charged(waves, num))
      /\ Cardinality(Charged(waves, num)) <= MaxWaves
      /\ failures + size < batch.stop_after + Cardinality(waves[num])
  BY <1>3, ChargeBound
<1>6. /\ failures' = failures + size
      /\ missing_total' \in {missing_total, missing_total + size}
      /\ \/ /\ failures' >= batch.stop_after
            /\ status' = "stopped" /\ pc' = "finish" /\ num' = num
         \/ /\ failures' < batch.stop_after
            /\ status' = status /\ pc' = "wave" /\ num' = num + 1
  BY ChargeEffect
<1> HIDE DEF size
<1>7. UNCHANGED <<envVars, cancelVars, twinVars, runVars, targets, waited, elapsed, landed, revoked, outage>>
  BY DEF WaveFailed, WaveSettled
<1>8. /\ late' \in {late, late + 1} /\ (late' # late => Acknowledged /\ pc = "publish")
      /\ \/ sent' = sent
         \/ /\ pc = "publish"
            /\ \E reached \in SUBSET targets : sent' = [sent EXCEPT ![num] = reached]
  BY <1>2 DEF WaveFailed, WaveSettled
<1>9. /\ children' \in [WaveNums -> {"none", "running", "failed"}]
      /\ \A n \in WaveNums : children[n] # "none" => children'[n] # "none"
      /\ mode = "legacy" => children'[num] # "none"
  <2>1. CASE WaveFailed
    BY <1>2, <1>4, <2>1 DEF WaveFailed
  <2>2. CASE WaveSettled
    BY <1>1, <1>2, <1>4, <2>2 DEF WaveSettled, RowsHold
  <2> QED  BY <2>1, <2>2
<1>10. parent' \in [row: BOOLEAN, complete: BOOLEAN, status: Statuses,
                    failures: 0..MaxWaves, missing: 0..MaxWaves, waves_done: 0..MaxWaves]
       /\ (parent' = parent \/ parent'.status # "complete")
  <2>1. CASE WaveFailed
    BY <1>1, <2>1 DEF WaveFailed, TypeOK
  <2>2. CASE WaveSettled
    <3>1. parent' = [parent EXCEPT !.failures = failures', !.missing = missing_total',
                                   !.waves_done = num, !.status = "running"]
      BY <2>2 DEF WaveSettled
    <3>2. failures' \in 0..MaxWaves /\ missing_total' \in 0..MaxWaves /\ num \in 0..MaxWaves
      BY <1>1, <1>2, <1>4, <1>5, <1>6 DEF FailuresHold
    <3> QED  BY <1>1, <3>1, <3>2 DEF TypeOK, Statuses
  <2> QED  BY <2>1, <2>2
<1>11. late <= num /\ (pc = "publish" => late < num) /\ (pc = "publish" /\ FlagStands => late = 0)
  BY <1>1, <1>2, <1>3 DEF CancelHolds
<1>f. /\ FlagHolds' /\ TwinHolds' /\ Acknowledged' = Acknowledged
      /\ FlagStands' = FlagStands
  BY <1>1, <1>3, <1>6, <1>7, FlagKept
<1>12. TypeOK'
  <2>1. failures' \in 0..MaxWaves /\ missing_total' \in 0..MaxWaves
    BY <1>1, <1>2, <1>5, <1>6 DEF FailuresHold
  <2>2. num' \in 1..MaxWaves + 1 /\ late' \in 0..MaxWaves
    BY <1>1, <1>2, <1>4, <1>6, <1>8, <1>11
  <2>3. sent' \in [WaveNums -> SUBSET Minions]
    BY <1>2, <1>8
  <2>4. pc' \in {"wave", "finish"} /\ status' \in Statuses
    BY <1>1, <1>6 DEF TypeOK, Statuses
  <2> QED  BY <1>1, <1>7, <1>9, <1>10, <2>1, <2>2, <2>3, <2>4 DEF TypeOK
<1>13. SplitHolds'
  BY <1>1, <1>3, <1>7, SplitKept
<1>14. LoopHolds'
  BY <1>2, <1>4, <1>6, <1>7 DEF LoopHolds
<1>15. FailuresHold'
  <2>1. missing_total' <= failures'
    BY <1>1, <1>2, <1>5, <1>6 DEF FailuresHold
  <2>2. pc' = "wave" => /\ failures' <= Cardinality(Charged(waves', num' - 1))
                        /\ failures' < batch'.stop_after
    <3> SUFFICES ASSUME pc' = "wave"
                 PROVE  /\ failures' <= Cardinality(Charged(waves', num' - 1))
                        /\ failures' < batch'.stop_after
      OBVIOUS
    <3>1. num' - 1 = num /\ waves' = waves /\ batch' = batch /\ failures' < batch.stop_after
      BY <1>2, <1>6, <1>7
    <3>2. Charged(waves', num' - 1) = Charged(waves, num)
      BY <3>1
    <3> QED  BY <1>5, <1>6, <3>1, <3>2
  <2>3. \E n \in 1..num' : failures' < batch'.stop_after + Cardinality(waves'[n])
    <3>1. num \in 1..num' /\ failures' < batch'.stop_after + Cardinality(waves'[num])
      BY <1>2, <1>5, <1>6, <1>7
    <3> QED  BY <3>1
  <2>4. pc' \in {"wave", "finish"}
    BY <1>6
  <2> QED  BY <2>1, <2>2, <2>3, <2>4 DEF FailuresHold
<1>16. RowsHold'
  <2>1. mode' = mode /\ waves' = waves /\ ~(parent'.complete /\ parent'.status = "complete")
    BY <1>1, <1>3, <1>7, <1>10 DEF mode, RowsHold
  <2>2. mode = "legacy" => \A n \in WaveNums : n < num' => children'[n] # "none"
    <3> SUFFICES ASSUME mode = "legacy", NEW n \in WaveNums, n < num'
                 PROVE  children'[n] # "none"
      OBVIOUS
    <3>1. n < num \/ n = num
      BY <1>2, <1>6 DEF WaveNums
    <3> QED  BY <1>1, <1>9, <3>1 DEF RowsHold
  <2> QED  BY <1>6, <2>1, <2>2 DEF RowsHold
<1>17. \A n \in WaveNums : sent'[n] = sent[n] \/ (n = num /\ pc = "publish" /\ sent'[n] \subseteq targets)
  BY <1>2, <1>8
<1>18. SentHolds'
  <2>1. LastChecked = num /\ LastChecked' = num
    BY <1>2, <1>3, <1>6 DEF LastChecked
  <2>2. ASSUME NEW n \in WaveNums, sent'[n] # {}
        PROVE  n <= num /\ n <= Len(waves) /\ sent'[n] \subseteq waves[n]
    <3>1. CASE sent'[n] = sent[n]
      BY <1>1, <2>1, <2>2, <3>1 DEF SentHolds
    <3>2. CASE n = num /\ sent'[n] \subseteq targets
      BY <1>2, <1>4, <3>2
    <3> QED  BY <1>17, <3>1, <3>2
  <2> QED  BY <1>7, <2>1, <2>2 DEF SentHolds
<1>19. CancelHolds'
  <2>1. UNCHANGED waves /\ pc' \in {"wave", "finish"} /\ (pc' = "wave" => num' = num + 1)
    BY <1>6, <1>7
  <2> QED  BY <1>1, <1>2, <1>4, <1>8, <1>11, <1>f, <2>1 DEF CancelHolds
<1>20. RevokedHolds'
  <2>1. mode' = mode /\ inline' = inline /\ revoked' = revoked /\ pc' # "publish"
    BY <1>6, <1>7 DEF mode
  <2>2. ASSUME mode = "scoped", ~inline, NEW n \in WaveNums, NEW m \in sent'[n]
        PROVE  n <= revoked[m]
    <3>1. CASE sent'[n] = sent[n]
      BY <1>1, <2>2, <3>1 DEF RevokedHolds, RevocationHolds
    <3>2. CASE n = num /\ pc = "publish" /\ sent'[n] \subseteq targets
      BY <1>1, <2>2, <3>2 DEF RevokedHolds
    <3> QED  BY <1>17, <3>1, <3>2
  <2>3. RevocationHolds'
    BY <2>1, <2>2 DEF RevocationHolds
  <2> QED  BY <1>1, <1>7, <2>1, <2>3 DEF RevokedHolds
<1> QED  BY <1>f, <1>12, <1>13, <1>14, <1>15, <1>16, <1>18, <1>19, <1>20 DEF BatchInv

\* The request goes on after the parent row: save_as fails, or the batch is
\* queued, runs in the request, or both.
LEMMA RequestBatchInv == ASSUME BatchInv, Request PROVE BatchInv'
<1> USE DEF envVars, cancelVars, twinVars, runVars, loopVars, rowVars, saltVars, auxVars
<1>1. /\ TypeOK /\ SplitHolds /\ LoopHolds /\ FailuresHold /\ RowsHold /\ SentHolds
      /\ FlagHolds /\ CancelHolds /\ TwinHolds /\ RevokedHolds
  BY DEF BatchInv
<1>2. /\ UNCHANGED <<envVars, cancelVars, memo, batch, waves, loopVars, rowVars, saltVars,
                     again, auxVars>>
      /\ pc = "saving" /\ pc' \in {"raised", "queued", "wave"}
  BY DEF Request, SaveAsConflict, queue_or_none, EnqueueReplyLost
<1>3. inline' \in BOOLEAN
  BY <1>1 DEF Request, SaveAsConflict, queue_or_none, EnqueueReplyLost, TypeOK
<1>4. twin' \in {twin, "pending"} /\ (twin' # twin => setup.lossy)
  BY DEF Request, SaveAsConflict, queue_or_none, EnqueueReplyLost
<1>5. num = 1 /\ late = 0 /\ late \in Nat
  <2>1. num = 1
    BY <1>1, <1>2 DEF LoopHolds
  <2>2. late \in Nat
    BY <1>1, FleetSize DEF TypeOK
  <2>3. late < num
    BY <1>1, <1>2 DEF CancelHolds
  <2> QED  BY <2>1, <2>2, <2>3
<1>6. \A n \in WaveNums : sent[n] = {}
  BY <1>1, <1>2, <1>5 DEF SentHolds, LastChecked, WaveNums
<1>7. TypeOK'
  <2>1. twin' \in {"none", "pending", "checked", "done"}
    BY <1>1, <1>4 DEF TypeOK
  <2> QED  BY <1>1, <1>2, <1>3, <2>1 DEF TypeOK
<1>8. SplitHolds'
  BY <1>1, <1>2, SplitKept
<1>9. LoopHolds' /\ FailuresHold' /\ RowsHold'
  BY <1>1, <1>2 DEF LoopHolds, FailuresHold, RowsHold, mode
<1>10. SentHolds' /\ RevokedHolds'
  <2>1. RevocationHolds'
    BY <1>2, <1>6 DEF RevocationHolds
  <2> QED  BY <1>1, <1>2, <1>6, <2>1 DEF SentHolds, RevokedHolds
<1>11. FlagHolds' /\ TwinHolds'
  <2>1. FlagHolds'
    BY <1>1, <1>2 DEF FlagHolds
  <2>2. TwinHolds'
    BY <1>1, <1>2, <1>4 DEF TwinHolds
  <2> QED  BY <2>1, <2>2
<1>12. CancelHolds'
  BY <1>1, <1>2, <1>5 DEF CancelHolds
<1> QED  BY <1>7, <1>8, <1>9, <1>10, <1>11, <1>12 DEF BatchInv

\* The twin completes the parent row of a cancelled batch, or publishes the
\* first wave once more.
LEMMA TwinBatchInv == ASSUME BatchInv, Twin PROVE BatchInv'
<1> USE DEF envVars, cancelVars, twinVars, runVars, loopVars, rowVars, saltVars, auxVars
<1>1. /\ TypeOK /\ SplitHolds /\ LoopHolds /\ FailuresHold /\ RowsHold /\ SentHolds
      /\ FlagHolds /\ CancelHolds /\ TwinHolds /\ RevokedHolds
  BY DEF BatchInv
<1>2. /\ UNCHANGED <<envVars, cancelVars, pc, runVars, loopVars, children, saltVars, auxVars>>
      /\ twin # "none" /\ twin' \in {"checked", "done"}
  BY DEF Twin, TwinCancelled, TwinChecked, TwinPublished
<1>3. again' = again \/ (twin = "checked" /\ again' \subseteq waves[1] /\ children[1] # "none")
  BY DEF Twin, TwinCancelled, TwinChecked, TwinPublished
<1> DEFINE ParentType == [row: BOOLEAN, complete: BOOLEAN, status: Statuses,
                          failures: 0..MaxWaves, missing: 0..MaxWaves,
                          waves_done: 0..MaxWaves]
<1>4. parent' \in ParentType /\ (parent' = parent \/ parent'.status # "complete")
  <2>1. parent \in ParentType /\ MaxWaves \in Nat
    BY <1>1, FleetSize DEF TypeOK
  <2>2. CASE TwinCancelled
    <3>1. parent' = [parent EXCEPT !.complete = TRUE, !.status = "cancelled",
                                   !.failures = 0, !.missing = 0]
      BY <2>2 DEF TwinCancelled
    <3>2. parent'.status = "cancelled" /\ 0 \in 0..MaxWaves /\ "cancelled" \in Statuses
      BY <2>1, <3>1 DEF Statuses
    <3>3. parent' \in ParentType
      BY <2>1, <3>1, <3>2
    <3> QED  BY <3>2, <3>3
  <2>3. CASE ~TwinCancelled
    BY <2>1, <2>3 DEF Twin, TwinChecked, TwinPublished
  <2> QED  BY <2>2, <2>3
<1> HIDE DEF ParentType
<1>5. again' # {} => pc # "form" /\ again' \subseteq waves[1] /\ again' \subseteq Minions
  <2> SUFFICES ASSUME again' # {}
               PROVE  pc # "form" /\ again' \subseteq waves[1] /\ again' \subseteq Minions
    OBVIOUS
  <2>1. pc # "form"
    BY <1>1, <1>3 DEF TwinHolds
  <2>2. again' \subseteq waves[1]
    BY <1>1, <1>3 DEF TwinHolds
  <2>3. waves \in Seq(SUBSET Minions) /\ 1 \in 1..Len(waves)
    BY <1>1, <2>1, LenProperties DEF TwinHolds, TypeOK
  <2> QED  BY <2>1, <2>2, <2>3, ElementOfSeq
<1>6. TypeOK'
  BY <1>1, <1>2, <1>4, <1>5 DEF TypeOK, ParentType
<1>7. SplitHolds'
  BY <1>1, <1>2, SplitKept
<1>8. LoopHolds' /\ FailuresHold' /\ RowsHold'
  <2>1. LoopHolds' /\ FailuresHold'
    BY <1>1, <1>2 DEF LoopHolds, FailuresHold
  <2>2. RowsHold'
    BY <1>1, <1>2, <1>4 DEF RowsHold, mode
  <2> QED  BY <2>1, <2>2
<1>9. SentHolds' /\ RevokedHolds'
  BY <1>1, <1>2 DEF SentHolds, LastChecked, RevokedHolds, RevocationHolds, mode
<1>10. FlagHolds' /\ TwinHolds'
  <2>1. FlagHolds'
    BY <1>1, <1>2 DEF FlagHolds
  <2>2. TwinHolds'
    BY <1>1, <1>2, <1>5 DEF TwinHolds
  <2> QED  BY <2>1, <2>2
<1>11. CancelHolds'
  BY <1>1, <1>2 DEF CancelHolds, Acknowledged, FlagStands, Limit
<1> QED  BY <1>6, <1>7, <1>8, <1>9, <1>10, <1>11 DEF BatchInv

\* Returns land, the cancel flag is set and ages in the queue, Redis fails and
\* answers again.
LEMMA SideBatchInv ==
    ASSUME BatchInv,
           \/ \E n \in WaveNums, m \in Minions : ReturnLands(n, m)
           \/ request_batch_cancel \/ QueueWaits \/ RedisFails \/ RedisReturns
    PROVE  BatchInv'
<1> USE DEF envVars, cancelVars, twinVars, runVars, loopVars, rowVars, saltVars, auxVars
<1>1. /\ TypeOK /\ SplitHolds /\ LoopHolds /\ FailuresHold /\ RowsHold /\ SentHolds
      /\ FlagHolds /\ CancelHolds /\ TwinHolds /\ RevokedHolds
  BY DEF BatchInv
<1>2. UNCHANGED <<setup, exists, run_grant, batch_grant, batch_fleet, pc, runVars, loopVars,
                  rowVars, sent, twinVars, revoked>>
  BY DEF ReturnLands, request_batch_cancel, QueueWaits, RedisFails, RedisReturns
<1>3. /\ landed \in [WaveNums -> SUBSET Minions] /\ redis \in BOOLEAN /\ flag \in BOOLEAN
      /\ outage \in BOOLEAN /\ age \in 0..CancelTTL /\ parked \in 0..CancelTTL
      /\ late \in 0..MaxWaves /\ MaxWaves \in Nat /\ elapsed \in Nat /\ CancelTTL \in Nat \ {0}
      /\ num \in Nat \ {0} /\ Limit \in Nat
  BY <1>1, FleetSize, TimeoutsAssumption, CancelTTLAssumption DEF TypeOK, Limit
<1>4. landed' \in [WaveNums -> SUBSET Minions]
  <2>1. ASSUME NEW n \in WaveNums, NEW m \in Minions, ReturnLands(n, m)
        PROVE  landed' \in [WaveNums -> SUBSET Minions]
    BY <1>3, <2>1 DEF ReturnLands
  <2>2. CASE request_batch_cancel \/ QueueWaits \/ RedisFails \/ RedisReturns
    BY <1>3, <2>2 DEF request_batch_cancel, QueueWaits, RedisFails, RedisReturns
  <2> QED  BY <2>1, <2>2
<1>5. /\ redis' \in BOOLEAN /\ flag' \in BOOLEAN /\ outage' \in BOOLEAN
      /\ age' \in 0..CancelTTL /\ parked' \in 0..CancelTTL /\ late' \in 0..MaxWaves
      /\ FlagHolds' /\ CancelHolds'
  <2>0. Limit' = Limit /\ UNCHANGED <<pc, num, waves, elapsed>>
    BY <1>2 DEF Limit
  <2>1. CASE \E n \in WaveNums, m \in Minions : ReturnLands(n, m)
    <3>1. UNCHANGED <<redis, cancelVars, outage, late>>
      BY <2>1 DEF ReturnLands
    <3> QED  BY <1>1, <1>3, <2>0, <3>1 DEF FlagHolds, CancelHolds, FlagStands, Acknowledged
  <2>2. CASE request_batch_cancel
    <3>1. /\ flag' = TRUE /\ age' = 0 /\ parked' = 0 /\ late' = 0 /\ outage' = FALSE
          /\ redis /\ redis' = redis
      BY <2>2 DEF request_batch_cancel
    <3>b. flag' \in BOOLEAN /\ outage' \in BOOLEAN /\ redis' \in BOOLEAN
      BY <1>3, <3>1, Zenon
    <3>2. late' <= Len(waves)
      BY <1>1, <3>1, LenProperties DEF TypeOK
    <3>3. FlagHolds'
      BY <1>3, <2>0, <3>1 DEF FlagHolds
    <3>4. /\ redis' \in BOOLEAN /\ flag' \in BOOLEAN /\ outage' \in BOOLEAN
          /\ age' \in 0..CancelTTL /\ parked' \in 0..CancelTTL /\ late' \in 0..MaxWaves
      BY <1>3, <3>1, <3>b
    <3>5. CancelHolds'
      BY <1>3, <2>0, <3>1, <3>2 DEF CancelHolds
    <3> QED  BY <3>3, <3>4, <3>5
  <2>3. CASE QueueWaits
    <3>1. /\ pc = "queued" /\ flag /\ parked' = parked + 1 /\ UNCHANGED <<redis, outage, late>>
      BY <2>3 DEF QueueWaits
    <3>a. /\ flag' \in BOOLEAN /\ age' \in 0..CancelTTL /\ age' = age + 1
          /\ (flag' => flag /\ age' < CancelTTL) /\ (~flag' => age' = 0 \/ age' = CancelTTL)
          /\ (Acknowledged => Acknowledged')
      BY <1>1, <2>3, <3>1, FlagAged DEF QueueWaits
    <3>2. age < CancelTTL /\ parked <= age /\ num = 1 /\ late = 0
      <4>1. age < CancelTTL /\ parked <= age
        BY <1>1, <3>1 DEF FlagHolds
      <4>2. num = 1 /\ late < num
        BY <1>1, <3>1 DEF LoopHolds, CancelHolds
      <4> QED  BY <1>3, <4>1, <4>2
    <3>3. FlagHolds'
      <4>1. age' <= parked' + elapsed' /\ parked' <= age'
        BY <1>1, <1>3, <2>0, <3>1, <3>2, <3>a DEF FlagHolds
      <4>2. flag' /\ ~outage' => redis'
        BY <1>1, <3>1 DEF FlagHolds
      <4> QED  BY <3>a, <4>1, <4>2 DEF FlagHolds
    <3>4. CancelHolds'
      BY <1>1, <1>3, <2>0, <3>1, <3>2 DEF CancelHolds
    <3> QED  BY <1>3, <3>1, <3>2, <3>3, <3>4, <3>a
  <2>4. CASE RedisFails
    <3>1. /\ redis' = FALSE /\ outage' = (outage \/ flag) /\ UNCHANGED <<cancelVars, late>>
      BY <2>4 DEF RedisFails
    <3>2. FlagHolds'
      BY <1>1, <1>3, <2>0, <3>1 DEF FlagHolds
    <3> QED  BY <1>1, <1>3, <2>0, <3>1, <3>2 DEF CancelHolds, FlagStands, Acknowledged
  <2>5. CASE RedisReturns
    <3>1. redis' = TRUE /\ UNCHANGED <<cancelVars, outage, late>>
      BY <2>5 DEF RedisReturns
    <3>2. FlagHolds'
      BY <1>1, <2>0, <3>1 DEF FlagHolds
    <3> QED  BY <1>1, <1>3, <2>0, <3>1, <3>2 DEF CancelHolds, FlagStands, Acknowledged
  <2> QED  BY <2>1, <2>2, <2>3, <2>4, <2>5
<1>6. TypeOK'
  BY <1>1, <1>2, <1>4, <1>5 DEF TypeOK
<1>7. SplitHolds'
  BY <1>1, <1>2, SplitKept
<1>8. LoopHolds' /\ FailuresHold' /\ RowsHold'
  BY <1>1, <1>2 DEF LoopHolds, FailuresHold, RowsHold, mode
<1>9. SentHolds' /\ RevokedHolds'
  BY <1>1, <1>2 DEF SentHolds, LastChecked, RevokedHolds, RevocationHolds, mode
<1>10. TwinHolds'
  BY <1>1, <1>2 DEF TwinHolds
<1> QED  BY <1>5, <1>6, <1>7, <1>8, <1>9, <1>10 DEF BatchInv

\* A grant is withdrawn or the user is deleted: later waves may not reach the
\* minions concerned, and those that went out did so before.
LEMMA RevokeBatchInv ==
    ASSUME BatchInv,
           (\E m \in Minions : RevokeRun(m) \/ RevokeBatch(m)) \/ RevokeFleet \/ DeleteUser
    PROVE  BatchInv'
<1> USE DEF envVars, cancelVars, twinVars, runVars, loopVars, rowVars, saltVars, auxVars
<1>1. /\ TypeOK /\ SplitHolds /\ LoopHolds /\ FailuresHold /\ RowsHold /\ SentHolds
      /\ FlagHolds /\ CancelHolds /\ TwinHolds /\ RevokedHolds
  BY DEF BatchInv
<1>2. /\ UNCHANGED <<setup, redis, cancelVars, pc, runVars, loopVars, rowVars, saltVars,
                     twinVars, late, outage>>
      /\ run_grant' \subseteq run_grant /\ batch_grant' \subseteq batch_grant
      /\ exists' \in {exists, FALSE} /\ batch_fleet' \in {batch_fleet, FALSE}
  BY DEF RevokeRun, RevokeBatch, RevokeFleet, DeleteUser
<1>3. PICK ms \in SUBSET Minions :
        /\ revoked' = Limited(ms)
        /\ \A m \in ms : ~(exists' /\ m \in run_grant' /\ (batch_fleet' \/ m \in batch_grant'))
  <2>1. ASSUME NEW m \in Minions, RevokeRun(m)
        PROVE  \E ms \in SUBSET Minions :
                 /\ revoked' = Limited(ms)
                 /\ \A x \in ms : ~(exists' /\ x \in run_grant' /\ (batch_fleet' \/ x \in batch_grant'))
    <3>1. revoked' = Limited({m}) /\ m \notin run_grant'
      BY <2>1 DEF RevokeRun
    <3>2. {m} \in SUBSET Minions
      OBVIOUS
    <3> QED  BY <3>1, <3>2
  <2>2. ASSUME NEW m \in Minions, RevokeBatch(m)
        PROVE  \E ms \in SUBSET Minions :
                 /\ revoked' = Limited(ms)
                 /\ \A x \in ms : ~(exists' /\ x \in run_grant' /\ (batch_fleet' \/ x \in batch_grant'))
    <3>1. revoked' = Limited({m}) /\ m \notin batch_grant' /\ ~batch_fleet'
      BY <2>2 DEF RevokeBatch
    <3>2. {m} \in SUBSET Minions
      OBVIOUS
    <3> QED  BY <3>1, <3>2
  <2>3. CASE RevokeFleet \/ DeleteUser
    <3>1. revoked' = Limited(Minions) /\ (~exists' \/ (~batch_fleet' /\ batch_grant' = {}))
      BY <2>3 DEF RevokeFleet, DeleteUser
    <3>2. Minions \in SUBSET Minions
      OBVIOUS
    <3> QED  BY <3>1, <3>2
  <2> QED  BY <2>1, <2>2, <2>3
<1>4. /\ num \in Nat \ {0} /\ MaxWaves \in Nat /\ num <= MaxWaves + 1
      /\ revoked \in [Minions -> 0..MaxWaves + 1]
  BY <1>1, FleetSize DEF TypeOK
<1>5. LastChecked \in 0..MaxWaves + 1
  BY <1>4 DEF LastChecked
<1>6. /\ revoked' \in [Minions -> 0..MaxWaves + 1]
      /\ \A m \in Minions :
           /\ m \notin ms => revoked'[m] = revoked[m]
           /\ \/ revoked'[m] = revoked[m]
              \/ revoked'[m] = LastChecked
  BY <1>3, <1>4, <1>5 DEF Limited
<1>7. TypeOK'
  <2>1. exists' \in BOOLEAN /\ batch_fleet' \in BOOLEAN
    BY <1>1, <1>2 DEF TypeOK
  <2>2. run_grant' \subseteq Minions /\ batch_grant' \subseteq Minions
    BY <1>1, <1>2 DEF TypeOK
  <2> QED  BY <1>1, <1>2, <1>6, <2>1, <2>2 DEF TypeOK
<1>8. SplitHolds'
  BY <1>1, <1>2, SplitKept
<1>9. LoopHolds' /\ FailuresHold' /\ RowsHold'
  BY <1>1, <1>2 DEF LoopHolds, FailuresHold, RowsHold, mode
<1>10. SentHolds' /\ CancelHolds' /\ FlagHolds' /\ TwinHolds'
  <2>1. SentHolds'
    BY <1>1, <1>2 DEF SentHolds, LastChecked
  <2>2. CancelHolds'
    BY <1>1, <1>2 DEF CancelHolds, Acknowledged, FlagStands, Limit
  <2>3. FlagHolds' /\ TwinHolds'
    BY <1>1, <1>2 DEF FlagHolds, TwinHolds
  <2> QED  BY <2>1, <2>2, <2>3
<1>11. RevokedHolds'
  <2>1. ASSUME NEW m \in Minions, exists', m \in run_grant', batch_fleet' \/ m \in batch_grant'
        PROVE  revoked'[m] = MaxWaves + 1
    <3>1. m \notin ms
      BY <1>3, <2>1
    <3>2. exists /\ m \in run_grant /\ (batch_fleet \/ m \in batch_grant)
      BY <1>2, <2>1
    <3> QED  BY <1>1, <1>6, <3>1, <3>2 DEF RevokedHolds
  <2>2. mode' = mode /\ UNCHANGED <<inline, pc, targets, num, sent>>
    BY <1>2 DEF mode
  <2>3. ASSUME mode = "scoped", ~inline, pc = "publish", NEW m \in targets
        PROVE  num <= revoked'[m]
    <3>1. m \in Minions /\ num <= revoked[m] /\ LastChecked = num
      BY <1>1, <2>3 DEF RevokedHolds, TypeOK, LastChecked
    <3> QED  BY <1>4, <1>6, <3>1
  <2>4. ASSUME mode = "scoped", ~inline, NEW n \in WaveNums, NEW m \in sent[n]
        PROVE  n <= revoked'[m]
    <3>1. m \in Minions
      BY <1>1 DEF TypeOK
    <3>2. n <= revoked[m] /\ n <= LastChecked
      BY <1>1, <2>4 DEF RevokedHolds, RevocationHolds, SentHolds
    <3> QED  BY <1>6, <3>1, <3>2
  <2>5. RevocationHolds'
    BY <2>2, <2>4 DEF RevocationHolds
  <2> QED  BY <2>1, <2>2, <2>3, <2>5 DEF RevokedHolds
<1> QED  BY <1>7, <1>8, <1>9, <1>10, <1>11 DEF BatchInv

LEMMA NextBatchInv == BatchInv /\ [Next]_vars => BatchInv'
<1> SUFFICES ASSUME BatchInv, [Next]_vars PROVE BatchInv'
  OBVIOUS
<1>1. CASE UNCHANGED vars
  <2> USE DEF vars, envVars, cancelVars, twinVars, runVars, loopVars, rowVars, saltVars, auxVars
  <2>1. TypeOK'
    BY <1>1 DEF BatchInv, TypeOK
  <2>2. SplitHolds'
    BY <1>1, SplitKept DEF BatchInv
  <2>3. LoopHolds' /\ FailuresHold' /\ RowsHold'
    BY <1>1 DEF BatchInv, LoopHolds, FailuresHold, RowsHold, mode
  <2>4. SentHolds' /\ CancelHolds'
    BY <1>1 DEF BatchInv, SentHolds, LastChecked, CancelHolds, Acknowledged, FlagStands, Limit
  <2>6. FlagHolds' /\ TwinHolds'
    BY <1>1 DEF BatchInv, FlagHolds, TwinHolds
  <2>5. RevokedHolds'
    BY <1>1 DEF BatchInv, RevokedHolds, RevocationHolds, mode
  <2> QED  BY <2>1, <2>2, <2>3, <2>4, <2>5, <2>6 DEF BatchInv
<1>2. CASE \E b \in setup.batches : run_batched(b)
  BY <1>2, PinBatchInv
<1>3. CASE run_wave_batch_task \/ Worker
  BY <1>3, TurnBatchInv, PublishBatchInv, ChargeBatchInv DEF Worker, Turn
<1>4. CASE \/ \E n \in WaveNums, m \in Minions : ReturnLands(n, m)
           \/ request_batch_cancel \/ QueueWaits \/ RedisFails \/ RedisReturns
  BY <1>4, SideBatchInv
<1>5. CASE (\E m \in Minions : RevokeRun(m) \/ RevokeBatch(m)) \/ RevokeFleet \/ DeleteUser
  BY <1>5, RevokeBatchInv
<1>6. CASE Request
  BY <1>6, RequestBatchInv
<1>7. CASE Twin
  BY <1>7, TwinBatchInv
<1> QED  BY <1>1, <1>2, <1>3, <1>4, <1>5, <1>6, <1>7 DEF Next

LEMMA BatchInvariant == Spec => []BatchInv
<1> QED  BY InitBatchInv, NextBatchInv, PTL DEF Spec

-----------------------------------------------------------------------------
(* What a batch promises.                                                   *)

\* Every variable keeps its type; in particular the failures and the missing
\* minions that run_wave_batch counts never exceed the fleet.
THEOREM TypeCorrect == Spec => []TypeOK
<1>1. BatchInv => TypeOK
  BY DEF BatchInv
<1> QED  BY <1>1, BatchInvariant, PTL

\* The waves of a batch publish to a minion at most once, and to none outside
\* the slice that split_roster gave its wave; a second process publishes to one
\* of them only when the reply to the enqueue was lost.
THEOREM MinionsReachedOnce == Spec => []EachMinionOnce
<1>1. BatchInv => EachMinionOnce
  <2> SUFFICES ASSUME BatchInv PROVE EachMinionOnce
    OBVIOUS
  <2>1. \A n \in WaveNums :
           sent[n] # {} => n \in 1..Len(waves) /\ sent[n] \subseteq waves[n]
    <3>1. Len(waves) \in Nat
      BY LenProperties DEF BatchInv, TypeOK
    <3> QED  BY <3>1, FleetSize DEF BatchInv, SentHolds, WaveNums
  <2>2. \A i, k \in 1..Len(waves) : i # k => waves[i] \cap waves[k] = {}
    BY DEF BatchInv, SplitHolds
  <2>3. \A i, k \in WaveNums : i # k => sent[i] \cap sent[k] = {}
    <3> SUFFICES ASSUME NEW i \in WaveNums, NEW k \in WaveNums, i # k,
                        NEW m \in sent[i], m \in sent[k]
                 PROVE  FALSE
      OBVIOUS
    <3> QED  BY <2>1, <2>2
  <2>4. \A n \in WaveNums : sent[n] # {} => n <= Len(waves)
    BY DEF BatchInv, SentHolds
  <2>5. again # {} => setup.lossy /\ twin # "none"
    BY DEF BatchInv, TwinHolds
  <2> QED  BY <2>1, <2>3, <2>4, <2>5 DEF EachMinionOnce
<1> QED  BY <1>1, BatchInvariant, PTL

\* A batch that run_wave_batch completes outside scoped mode has a row for a
\* wave of every minion of its target.
THEOREM CompleteBatchesCover == Spec => []CompleteCoversRoster
<1>1. BatchInv => CompleteCoversRoster
  <2> SUFFICES ASSUME BatchInv, parent.complete, parent.status = "complete", mode = "legacy",
                      NEW m \in Targeted
               PROVE  \E n \in 1..Len(waves) : m \in waves[n] /\ children[n] # "none"
    BY DEF CompleteCoversRoster
  <2>1. pc = "returned" /\ num > Len(waves) /\ Len(waves) \in Nat /\ Len(waves) <= MaxWaves
    BY LenProperties DEF BatchInv, RowsHold, TypeOK, SplitHolds
  <2>2. PICK n \in 1..Len(waves) : m \in waves[n]
    BY <2>1 DEF BatchInv, SplitHolds
  <2>3. n \in WaveNums /\ n < num
    BY <2>1, FleetSize DEF WaveNums, BatchInv, TypeOK
  <2>4. children[n] # "none"
    BY <2>3 DEF BatchInv, RowsHold
  <2> QED  BY <2>2, <2>4
<1> QED  BY <1>1, BatchInvariant, PTL

\* The failure gate: fewer than stop_after failures before the last wave, and
\* no wave once the limit is reached.
THEOREM GateBounds == Spec => []GateBoundsFailures
<1>1. BatchInv => GateBoundsFailures
  <2> SUFFICES ASSUME BatchInv PROVE GateBoundsFailures
    OBVIOUS
  <2>1. failures \in Nat /\ batch.stop_after \in Nat
    BY FleetSize DEF BatchInv, TypeOK, Batch
  <2> QED  BY <2>1 DEF BatchInv, FailuresHold, GateBoundsFailures
<1> QED  BY <1>1, BatchInvariant, PTL

\* With Redis up since a cancel was acknowledged, at most the wave that had
\* already passed its check is published, provided that the flag's life of
\* BATCH_CANCEL_TTL covers its time in the queue and the process's timeout.
THEOREM CancelsStopWaves == Spec => []CancelStopsWaves
<1>1. BatchInv => CancelStopsWaves
  BY DEF BatchInv, CancelHolds, FlagStands, CancelStopsWaves
<1> QED  BY <1>1, BatchInvariant, PTL

\* A wave of a queued batch that is checked after a revocation never reaches
\* the minion it concerns.
THEOREM RevocationsHold == Spec => []RevocationHolds
<1>1. BatchInv => RevocationHolds
  BY DEF BatchInv, RevokedHolds
<1> QED  BY <1>1, BatchInvariant, PTL
=============================================================================
