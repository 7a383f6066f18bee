------------------------ MODULE ForeignRecordsProofs ------------------------
(***************************************************************************)
(* The store of foreign clock records is right for every set of sources,   *)
(* capacity and timing of the Announces.                                   *)
(***************************************************************************)
EXTENDS ForeignRecords, ClockDatasetProofs, FiniteSetTheorems

Record == [source : Sources, ds : ClockDS, last : Nat, prev : Nat \cup {Never},
           window : Nat]

----------------------------------------------------------------------------
(* Windows and snapshots. *)

LEMMA PowersOfTwo ==
  ASSUME NEW n \in 0..20
  PROVE  2^n \in Nat \ {0}
<1>1. /\ 2^0 > 0 /\ 2^1 > 0 /\ 2^2 > 0 /\ 2^3 > 0 /\ 2^4 > 0 /\ 2^5 > 0 /\ 2^6 > 0
      /\ 2^7 > 0 /\ 2^8 > 0 /\ 2^9 > 0 /\ 2^10 > 0 /\ 2^11 > 0 /\ 2^12 > 0 /\ 2^13 > 0
      /\ 2^14 > 0 /\ 2^15 > 0 /\ 2^16 > 0 /\ 2^17 > 0 /\ 2^18 > 0 /\ 2^19 > 0 /\ 2^20 > 0
  BY SMT
<1>2. \/ n = 0 \/ n = 1 \/ n = 2 \/ n = 3 \/ n = 4 \/ n = 5 \/ n = 6
      \/ n = 7 \/ n = 8 \/ n = 9 \/ n = 10 \/ n = 11 \/ n = 12 \/ n = 13
      \/ n = 14 \/ n = 15 \/ n = 16 \/ n = 17 \/ n = 18 \/ n = 19 \/ n = 20
  OBVIOUS
<1>3. 2^n > 0
  BY <1>1, <1>2, Zenon
<1> QED  BY <1>3

LEMMA WindowType ==
  ASSUME NEW interval, HasLogInterval(interval)
  PROVE  IntervalDuration(interval) \in Nat /\ Window(interval) \in Nat
<1>1. interval \in -20..20
  BY DEF HasLogInterval, MinLogValue, MaxLogValue
<1>2. CASE interval >= 0
  <2>0. interval \in 0..20
    BY <1>1, <1>2
  <2>1. 2^interval \in Nat
    BY <2>0, PowersOfTwo, Zenon
  <2>2. Second * 2^interval \in Nat
    BY <2>1, ForeignRecordsAssumption
  <2> QED  BY <1>2, <2>2 DEF IntervalDuration, Window
<1>3. CASE ~(interval >= 0)
  <2>1. -interval \in 0..20
    BY <1>1, <1>3
  <2>2. 2^(-interval) \in Nat \ {0}
    BY <2>1, PowersOfTwo, Zenon
  <2>3. Second \div 2^(-interval) \in Nat
    BY <2>2, ForeignRecordsAssumption
  <2> QED  BY <1>3, <2>3 DEF IntervalDuration, Window
<1> QED  BY <1>2, <1>3

LEMMA SnapshotType ==
  ASSUME NEW r \in Record
  PROVE  /\ AsSnapshot(r) \in QualifiedSnapshot
         /\ AsSnapshot(r).qualified /\ AsSnapshot(r) # Empty
         /\ AsSnapshot(r).source = r.source
         /\ ProperTopology(AsSnapshot(r))
BY ForeignRecordsAssumption DEF Record, Sources, AsSnapshot, Qualified,
   QualifiedSnapshot, ProperTopology, Empty

\* is_better_than ranks, and ranks any two records of different sources.
LEMMA RecordsRank ==
  ASSUME NEW r \in Record, NEW s \in Record
  PROVE  /\ Consistent(AsSnapshot(r), AsSnapshot(s)) => (BetterThan(r, s) <=> Before(r, s))
         /\ ~(Before(r, s) /\ Before(s, r))
         /\ r.source # s.source => Before(r, s) \/ Before(s, r)
         /\ \A t \in Record : Before(r, s) /\ Before(s, t) => Before(r, t)
<1>1. Consistent(AsSnapshot(r), AsSnapshot(s)) => (BetterThan(r, s) <=> Before(r, s))
  BY SnapshotType, ComparisonRanks DEF BetterThan, Before
<1>2. ~(Before(r, s) /\ Before(s, r)) /\ (r.source # s.source => Before(r, s) \/ Before(s, r))
  BY SnapshotType, RankingIsStrictOrder DEF Before
<1>3. ASSUME NEW t \in Record, Before(r, s), Before(s, t)
      PROVE  Before(r, t)
  BY <1>3, SnapshotType, RankingIsStrictOrder DEF Before
<1> QED  BY <1>1, <1>2, <1>3

----------------------------------------------------------------------------
(* The scans of the store. *)

\* prune_stale retains the records that are not stale, in their order.
LEMMA PruneScan ==
  ASSUME NEW store \in Seq(Record)
  PROVE  \E kept \in [0..Len(store) -> Seq(Record)] :
           /\ PruneStale(store) = kept[Len(store)]
           /\ kept[0] = <<>>
           /\ \A i \in 1..Len(store) :
                kept[i] = IF IsStale(store[i], now) THEN kept[i - 1]
                          ELSE Append(kept[i - 1], store[i])
<1> DEFINE n == Len(store)
           Step(i, k) == IF IsStale(store[i], now) THEN k ELSE Append(k, store[i])
           Def(f) == [i \in 0..n |-> IF i = 0 THEN <<>> ELSE Step(i, f[i - 1])]
           kept == CHOOSE f : f = Def(f)
           g == [p \in (1..n) \X Seq(Record) |-> Step(p[1], p[2])]
<1>0. n \in Nat /\ <<>> \in Seq(Record) /\ \A i \in 1..n : store[i] \in Record
  OBVIOUS
<1>1. PruneStale(store) = kept[n]
  BY DEF PruneStale
<1>2. \A i \in 1..n, k \in Seq(Record) : Step(i, k) \in Seq(Record)
  BY <1>0
<1> HIDE DEF Step, n
<1>3. /\ g \in [(1..n) \X Seq(Record) -> Seq(Record)]
      /\ \A i \in 1..n, k \in Seq(Record) : g[<<i, k>>] = Step(i, k)
  BY <1>2
<1> HIDE DEF g
<1>4. PICK f : Scans(f, n, Seq(Record), <<>>, g)
  BY <1>0, <1>3, ScanExists, Zenon
<1>5. f = Def(f)
  <2>1. f \in [0..n -> Seq(Record)] /\ f[0] = <<>> /\ \A i \in 1..n : f[i] = g[<<i, f[i - 1]>>]
    BY <1>4 DEF Scans
  <2>2. ASSUME NEW i \in 0..n, i # 0
        PROVE  f[i] = Step(i, f[i - 1])
    <3>1. i \in 1..n /\ i - 1 \in 0..n
      BY <1>0, <2>2
    <3>2. f[i - 1] \in Seq(Record)
      BY <2>1, <3>1
    <3> QED  BY <1>3, <2>1, <3>1, <3>2, Zenon
  <2> QED  BY <2>1, <2>2
<1>6. kept = Def(kept)
  <2> HIDE DEF Def
  <2> QED  BY <1>5
<1> HIDE DEF kept
<1>7. kept = [i \in 0..n |-> kept[i]] /\ kept[0] = <<>>
  BY <1>0, <1>6
<1>8. ASSUME NEW i \in 1..n
      PROVE  kept[i] = Step(i, kept[i - 1])
  <2>1. i \in 0..n /\ i # 0
    BY <1>0
  <2> QED  BY <1>6, <2>1, Zenon
<1>9. Scans(kept, n, Seq(Record), <<>>, g)
  BY <1>0, <1>3, <1>7, <1>8, ScanTyped, Zenon
<1>10. kept \in [0..n -> Seq(Record)]
  BY <1>9 DEF Scans
<1> QED  BY <1>1, <1>7, <1>8, <1>10, Zenon DEF Step, n

\* No two records of a sequence have the same source.
Distinct(store) ==
  \A i, j \in 1..Len(store) : store[i].source = store[j].source => i = j

LEMMA StoredType ==
  ASSUME NEW store \in Seq(Record)
  PROVE  \A r \in Stored(store) : r \in Record
BY DEF Stored

\* Appending.
LEMMA AppendStored ==
  ASSUME NEW store \in Seq(Record), NEW r \in Record
  PROVE  /\ Stored(Append(store, r)) = Stored(store) \cup {r}
         /\ Len(Append(store, r)) = Len(store) + 1
         /\ Append(store, r) \in Seq(Record)
         /\ Distinct(store) /\ (\A s \in Stored(store) : s.source # r.source)
              => Distinct(Append(store, r))
<1> DEFINE a == Append(store, r)
<1>1. /\ Len(a) = Len(store) + 1 /\ a[Len(store) + 1] = r /\ Len(store) \in Nat
      /\ \A i \in 1..Len(store) : a[i] = store[i]
      /\ a \in Seq(Record)
  OBVIOUS
<1> HIDE DEF a
<1>2. \A i \in 1..Len(a) : i \in 1..Len(store) \/ i = Len(store) + 1
  BY <1>1
<1>3. Stored(a) = Stored(store) \cup {r}
  <2>1. ASSUME NEW x \in Stored(a)
        PROVE  x \in Stored(store) \cup {r}
    BY <1>1, <1>2 DEF Stored
  <2>2. ASSUME NEW x \in Stored(store)
        PROVE  x \in Stored(a)
    BY <1>1 DEF Stored
  <2>3. r \in Stored(a)
    BY <1>1 DEF Stored
  <2> QED  BY <2>1, <2>2, <2>3
<1>4. ASSUME Distinct(store), \A s \in Stored(store) : s.source # r.source
      PROVE  Distinct(a)
  <2>1. \A i \in 1..Len(store) : store[i].source # r.source
    BY <1>4 DEF Stored
  <2> QED  BY <1>1, <1>2, <1>4, <2>1 DEF Distinct
<1> QED  BY <1>1, <1>3, <1>4 DEF a

\* What prune_stale leaves.
LEMMA PruneKeeps ==
  ASSUME NEW store \in Seq(Record), Distinct(store)
  PROVE  /\ PruneStale(store) \in Seq(Record)
         /\ Stored(PruneStale(store)) = {r \in Stored(store) : ~IsStale(r, now)}
         /\ Len(PruneStale(store)) <= Len(store)
         /\ Distinct(PruneStale(store))
<1> DEFINE n == Len(store)
<1>1. PICK kept \in [0..n -> Seq(Record)] :
        /\ PruneStale(store) = kept[n]
        /\ kept[0] = <<>>
        /\ \A i \in 1..n : kept[i] = IF IsStale(store[i], now) THEN kept[i - 1]
                                     ELSE Append(kept[i - 1], store[i])
  BY PruneScan
<1> DEFINE Left(i) == {store[j] : j \in {j \in 1..i : ~IsStale(store[j], now)}}
           Good(i) == Stored(kept[i]) = Left(i) /\ Len(kept[i]) <= i /\ Distinct(kept[i])
           P == {i \in 0..n : Good(i)}
<1>2. 0 \in P
  <2>1. kept[0] = <<>> /\ Len(kept[0]) = 0 /\ 0 \in 0..n
    BY <1>1
  <2>2. Good(0)
    BY <2>1 DEF Stored, Distinct
  <2> QED  BY <2>1, <2>2
<1>3. ASSUME NEW i \in 1..n, i - 1 \in P
      PROVE  i \in P
  <2>1. /\ i \in 0..n /\ i - 1 \in 0..n /\ kept[i - 1] \in Seq(Record) /\ store[i] \in Record
        /\ Good(i - 1) /\ Len(kept[i - 1]) \in Nat
        /\ kept[i] = IF IsStale(store[i], now) THEN kept[i - 1]
                     ELSE Append(kept[i - 1], store[i])
        /\ \A j \in 1..i : j \in 1..(i - 1) \/ j = i
        /\ \A j \in 1..(i - 1) : j \in 1..i /\ j # i /\ j \in 1..n
    BY <1>1, <1>3
  <2>2. CASE IsStale(store[i], now)
    <3>1. Left(i) = Left(i - 1)
      BY <2>1, <2>2
    <3> QED  BY <2>1, <2>2, <3>1
  <2>3. CASE ~IsStale(store[i], now)
    <3>1. Left(i) = Left(i - 1) \cup {store[i]}
      BY <2>1, <2>3
    <3>2. \A s \in Stored(kept[i - 1]) : s.source # store[i].source
      BY <2>1 DEF Distinct
    <3>3. /\ Stored(kept[i]) = Stored(kept[i - 1]) \cup {store[i]}
          /\ Len(kept[i]) = Len(kept[i - 1]) + 1
          /\ Distinct(kept[i])
      BY <2>1, <2>3, <3>2, AppendStored
    <3>4. Good(i)
      BY <2>1, <3>1, <3>3
    <3> HIDE DEF Good
    <3> QED  BY <2>1, <3>4
  <2> QED  BY <2>2, <2>3
<1>4. n \in Nat /\ \A i \in 0..n : i \in P
  <2>1. n \in Nat
    OBVIOUS
  <2> HIDE DEF P, n
  <2> QED  BY <1>2, <1>3, <2>1, Induction, Zenon
<1>5. Good(n) /\ n \in 0..n
  BY <1>4
<1>6. Left(n) = {r \in Stored(store) : ~IsStale(r, now)}
  BY DEF Stored
<1> QED  BY <1>1, <1>5, <1>6

\* candidate_index goes through the store.
LEMMA CandidateScan ==
  ASSUME NEW store \in Seq(Record), NEW new \in Record
  PROVE  \E worst \in [0..Len(store) -> 0..Len(store)] :
           /\ CandidateIndex(store, new) = worst[Len(store)]
           /\ worst[0] = 0
           /\ \A i \in 1..Len(store) :
                worst[i] = IF ~BetterThan(new, store[i]) THEN worst[i - 1]
                           ELSE IF worst[i - 1] = 0 THEN i
                           ELSE IF BetterThan(store[i], store[worst[i - 1]]) THEN worst[i - 1] ELSE i
<1> DEFINE n == Len(store)
           Step(i, k) == IF ~BetterThan(new, store[i]) THEN k
                         ELSE IF k = 0 THEN i
                         ELSE IF BetterThan(store[i], store[k]) THEN k ELSE i
           Def(f) == [i \in 0..n |-> IF i = 0 THEN 0 ELSE Step(i, f[i - 1])]
           worst == CHOOSE f : f = Def(f)
           g == [p \in (1..n) \X (0..n) |-> Step(p[1], p[2])]
<1>0. n \in Nat /\ 0 \in 0..n
  OBVIOUS
<1>1. CandidateIndex(store, new) = worst[n]
  BY DEF CandidateIndex
<1>2. \A i \in 1..n, k \in 0..n : Step(i, k) \in 0..n
  BY <1>0
<1> HIDE DEF Step, n
<1>3. /\ g \in [(1..n) \X (0..n) -> 0..n]
      /\ \A i \in 1..n, k \in 0..n : g[<<i, k>>] = Step(i, k)
  BY <1>2
<1> HIDE DEF g
<1>4. PICK f : Scans(f, n, 0..n, 0, g)
  BY <1>0, <1>3, ScanExists, Zenon
<1>5. f = Def(f)
  <2>1. f \in [0..n -> 0..n] /\ f[0] = 0 /\ \A i \in 1..n : f[i] = g[<<i, f[i - 1]>>]
    BY <1>4 DEF Scans
  <2>2. ASSUME NEW i \in 0..n, i # 0
        PROVE  f[i] = Step(i, f[i - 1])
    <3>1. i \in 1..n /\ i - 1 \in 0..n
      BY <1>0, <2>2
    <3>2. f[i - 1] \in 0..n
      BY <2>1, <3>1
    <3> QED  BY <1>3, <2>1, <3>1, <3>2, Zenon
  <2> QED  BY <2>1, <2>2
<1>6. worst = Def(worst)
  <2> HIDE DEF Def
  <2> QED  BY <1>5
<1> HIDE DEF worst
<1>7. worst = [i \in 0..n |-> worst[i]] /\ worst[0] = 0
  BY <1>0, <1>6
<1>8. ASSUME NEW i \in 1..n
      PROVE  worst[i] = Step(i, worst[i - 1])
  <2>1. i \in 0..n /\ i # 0
    BY <1>0
  <2> QED  BY <1>6, <2>1, Zenon
<1>9. Scans(worst, n, 0..n, 0, g)
  BY <1>0, <1>3, <1>7, <1>8, ScanTyped, Zenon
<1>10. worst \in [0..n -> 0..n]
  BY <1>9 DEF Scans
<1> QED  BY <1>1, <1>7, <1>8, <1>10, Zenon DEF Step, n

\* snapshot goes through the records.
LEMMA SnapshotScan ==
  ASSUME records \in Seq(Record)
  PROVE  \E best \in [0..Len(records) -> 0..Len(records)] :
           /\ Snapshot = IF best[Len(records)] = 0 THEN Empty ELSE AsSnapshot(records[best[Len(records)]])
           /\ best[0] = 0
           /\ \A i \in 1..Len(records) :
                best[i] = IF ~IsQualified(records[i]) THEN best[i - 1]
                          ELSE IF best[i - 1] = 0 THEN i
                          ELSE IF BetterThan(records[i], records[best[i - 1]]) THEN i ELSE best[i - 1]
<1> DEFINE n == Len(records)
           Step(i, k) == IF ~IsQualified(records[i]) THEN k
                         ELSE IF k = 0 THEN i
                         ELSE IF BetterThan(records[i], records[k]) THEN i ELSE k
           Def(f) == [i \in 0..n |-> IF i = 0 THEN 0 ELSE Step(i, f[i - 1])]
           best == CHOOSE f : f = Def(f)
           g == [p \in (1..n) \X (0..n) |-> Step(p[1], p[2])]
<1>0. n \in Nat /\ 0 \in 0..n
  OBVIOUS
<1>1. Snapshot = IF best[n] = 0 THEN Empty ELSE AsSnapshot(records[best[n]])
  BY DEF Snapshot
<1>2. \A i \in 1..n, k \in 0..n : Step(i, k) \in 0..n
  BY <1>0
<1> HIDE DEF Step, n
<1>3. /\ g \in [(1..n) \X (0..n) -> 0..n]
      /\ \A i \in 1..n, k \in 0..n : g[<<i, k>>] = Step(i, k)
  BY <1>2, Zenon
<1> HIDE DEF g
<1>4. PICK f : Scans(f, n, 0..n, 0, g)
  BY <1>0, <1>3, ScanExists, Zenon
<1>5. f = Def(f)
  <2>1. f \in [0..n -> 0..n] /\ f[0] = 0 /\ \A i \in 1..n : f[i] = g[<<i, f[i - 1]>>]
    BY <1>4 DEF Scans
  <2>2. ASSUME NEW i \in 0..n, i # 0
        PROVE  f[i] = Step(i, f[i - 1])
    <3>1. i \in 1..n /\ i - 1 \in 0..n
      BY <1>0, <2>2
    <3>2. f[i - 1] \in 0..n
      BY <2>1, <3>1
    <3> QED  BY <1>3, <2>1, <3>1, <3>2, Zenon
  <2> QED  BY <2>1, <2>2
<1>6. best = Def(best)
  <2> HIDE DEF Def
  <2> QED  BY <1>5
<1> HIDE DEF best
<1>7. best = [i \in 0..n |-> best[i]] /\ best[0] = 0
  BY <1>0, <1>6
<1>8. ASSUME NEW i \in 1..n
      PROVE  best[i] = Step(i, best[i - 1])
  <2>1. i \in 0..n /\ i # 0
    BY <1>0
  <2> QED  BY <1>6, <2>1, Zenon
<1>9. Scans(best, n, 0..n, 0, g)
  BY <1>0, <1>3, <1>7, <1>8, ScanTyped, Zenon
<1>10. best \in [0..n -> 0..n]
  BY <1>9 DEF Scans
<1> QED  BY <1>1, <1>7, <1>8, <1>10, Zenon DEF Step, n

\* The scan of snapshot ends at the qualified record that ranks first.
LEMMA SnapshotFirst ==
  ASSUME records \in Seq(Record), Distinct(records),
         Coherent({r \in Stored(records) : IsQualified(r)})
  PROVE  \E b \in 0..Len(records) :
           /\ Snapshot = IF b = 0 THEN Empty ELSE AsSnapshot(records[b])
           /\ b = 0 => \A j \in 1..Len(records) : ~IsQualified(records[j])
           /\ b # 0 => /\ IsQualified(records[b])
                       /\ \A j \in 1..Len(records) :
                            j # b /\ IsQualified(records[j]) => Before(records[b], records[j])
<1> DEFINE n == Len(records)
<1>1. PICK best \in [0..n -> 0..n] :
        /\ Snapshot = IF best[n] = 0 THEN Empty ELSE AsSnapshot(records[best[n]])
        /\ best[0] = 0
        /\ \A i \in 1..n : best[i] = IF ~IsQualified(records[i]) THEN best[i - 1]
                                     ELSE IF best[i - 1] = 0 THEN i
                                     ELSE IF BetterThan(records[i], records[best[i - 1]])
                                          THEN i ELSE best[i - 1]
  BY SnapshotScan
<1> DEFINE RanksFirst(b, i) ==
             /\ b \in 0..i
             /\ b = 0 => \A j \in 1..i : ~IsQualified(records[j])
             /\ b # 0 => /\ IsQualified(records[b])
                         /\ \A j \in 1..i : j # b /\ IsQualified(records[j]) =>
                              Before(records[b], records[j])
           P == {i \in 0..n : RanksFirst(best[i], i)}
<1>0. n \in Nat /\ \A i \in 1..n : records[i] \in Record
  OBVIOUS
<1>2. 0 \in P
  BY <1>0, <1>1
<1>3. ASSUME NEW i \in 1..n, i - 1 \in P
      PROVE  i \in P
  <2> DEFINE b == best[i - 1]
  <2>1. /\ i \in 0..n /\ i - 1 \in 0..n /\ RanksFirst(b, i - 1) /\ b \in 0..n
        /\ \A j \in 1..i : j \in 1..(i - 1) \/ j = i
        /\ \A j \in 1..(i - 1) : j \in 1..i /\ j # i /\ j \in 1..n
    BY <1>0, <1>3
  <2>2. best[i] = IF ~IsQualified(records[i]) THEN b
                  ELSE IF b = 0 THEN i
                  ELSE IF BetterThan(records[i], records[b]) THEN i ELSE b
    BY <1>1
  <2> HIDE DEF b
  <2>3. CASE ~IsQualified(records[i]) \/ b = 0
    <3>1. RanksFirst(best[i], i)
      BY <2>1, <2>2, <2>3
    <3> QED  BY <2>1, <3>1
  <2>4. CASE IsQualified(records[i]) /\ b # 0
    <3>1. b \in 1..(i - 1) /\ b \in 1..n /\ b # i
      BY <2>1, <2>4
    <3> DEFINE r == records[i]
               s == records[b]
    <3>2. r \in Record /\ s \in Record /\ r.source # s.source
      BY <1>0, <3>1 DEF Distinct
    <3>3. Consistent(AsSnapshot(r), AsSnapshot(s))
      BY <2>1, <2>4, <3>1 DEF Coherent, Stored
    <3>4. /\ BetterThan(r, s) => Before(r, s)
          /\ ~BetterThan(r, s) => Before(s, r)
      BY <3>2, <3>3, RecordsRank
    <3>5. CASE BetterThan(r, s)
      <4>1. ASSUME NEW j \in 1..i, j # i, IsQualified(records[j])
            PROVE  Before(r, records[j])
        <5>1. j \in 1..(i - 1) /\ records[j] \in Record
          BY <1>0, <2>1, <4>1
        <5>2. j = b \/ Before(s, records[j])
          BY <2>1, <2>4, <4>1, <5>1
        <5> QED  BY <3>2, <3>4, <3>5, <5>1, <5>2, RecordsRank
      <4>2. RanksFirst(i, i)
        BY <2>4, <4>1, <1>0
      <4> QED  BY <2>1, <2>2, <2>4, <3>5, <4>2
    <3>6. CASE ~BetterThan(r, s)
      <4>1. RanksFirst(b, i)
        BY <2>1, <2>4, <3>1, <3>4, <3>6
      <4> QED  BY <2>1, <2>2, <2>4, <3>6, <4>1
    <3> QED  BY <3>5, <3>6
  <2> QED  BY <2>3, <2>4
<1>4. \A i \in 0..n : i \in P
  <2> HIDE DEF P, n
  <2> QED  BY <1>0, <1>2, <1>3, Induction, Zenon
<1>5. RanksFirst(best[n], n)
  BY <1>0, <1>4
<1> QED  BY <1>1, <1>5

\* The scan of candidate_index ends at the record that ranks last of those that
\* new beats.
LEMMA CandidateWorst ==
  ASSUME NEW store \in Seq(Record), NEW new \in Record, Distinct(store),
         Coherent(Stored(store))
  PROVE  LET w == CandidateIndex(store, new) IN
           /\ w = 0 => \A j \in 1..Len(store) : ~BetterThan(new, store[j])
           /\ w # 0 => /\ BetterThan(new, store[w])
                       /\ \A j \in 1..Len(store) :
                            j # w /\ BetterThan(new, store[j]) => Before(store[j], store[w])
<1> DEFINE n == Len(store)
<1>1. PICK worst \in [0..n -> 0..n] :
        /\ CandidateIndex(store, new) = worst[n]
        /\ worst[0] = 0
        /\ \A i \in 1..n : worst[i] = IF ~BetterThan(new, store[i]) THEN worst[i - 1]
                                      ELSE IF worst[i - 1] = 0 THEN i
                                      ELSE IF BetterThan(store[i], store[worst[i - 1]])
                                           THEN worst[i - 1] ELSE i
  BY CandidateScan
<1> DEFINE RanksLast(w, i) ==
             /\ w \in 0..i
             /\ w = 0 => \A j \in 1..i : ~BetterThan(new, store[j])
             /\ w # 0 => /\ BetterThan(new, store[w])
                         /\ \A j \in 1..i : j # w /\ BetterThan(new, store[j]) =>
                              Before(store[j], store[w])
           P == {i \in 0..n : RanksLast(worst[i], i)}
<1>0. n \in Nat /\ \A i \in 1..n : store[i] \in Record
  OBVIOUS
<1>2. 0 \in P
  BY <1>0, <1>1
<1>3. ASSUME NEW i \in 1..n, i - 1 \in P
      PROVE  i \in P
  <2> DEFINE w == worst[i - 1]
  <2>1. /\ i \in 0..n /\ i - 1 \in 0..n /\ RanksLast(w, i - 1) /\ w \in 0..n
        /\ \A j \in 1..i : j \in 1..(i - 1) \/ j = i
        /\ \A j \in 1..(i - 1) : j \in 1..i /\ j # i /\ j \in 1..n
    BY <1>0, <1>3
  <2>2. worst[i] = IF ~BetterThan(new, store[i]) THEN w
                   ELSE IF w = 0 THEN i
                   ELSE IF BetterThan(store[i], store[w]) THEN w ELSE i
    BY <1>1
  <2> HIDE DEF w
  <2>3. CASE ~BetterThan(new, store[i]) \/ w = 0
    <3>1. RanksLast(worst[i], i)
      BY <2>1, <2>2, <2>3
    <3> QED  BY <2>1, <3>1
  <2>4. CASE BetterThan(new, store[i]) /\ w # 0
    <3>1. w \in 1..(i - 1) /\ w \in 1..n /\ w # i
      BY <2>1, <2>4
    <3> DEFINE r == store[i]
               s == store[w]
    <3>2. r \in Record /\ s \in Record /\ r.source # s.source
      BY <1>0, <3>1 DEF Distinct
    <3>3. Consistent(AsSnapshot(r), AsSnapshot(s))
      BY <2>1, <2>4, <3>1 DEF Coherent, Stored
    <3>4. /\ BetterThan(r, s) => Before(r, s)
          /\ ~BetterThan(r, s) => Before(s, r)
      BY <3>2, <3>3, RecordsRank
    <3>5. CASE ~BetterThan(r, s)
      <4>1. ASSUME NEW j \in 1..i, j # i, BetterThan(new, store[j])
            PROVE  Before(store[j], r)
        <5>1. j \in 1..(i - 1) /\ store[j] \in Record
          BY <1>0, <2>1, <4>1
        <5>2. j = w \/ Before(store[j], s)
          BY <2>1, <2>4, <4>1, <5>1
        <5> QED  BY <3>2, <3>4, <3>5, <5>1, <5>2, RecordsRank
      <4>2. RanksLast(i, i)
        BY <2>4, <4>1, <1>0
      <4> QED  BY <2>1, <2>2, <2>4, <3>5, <4>2
    <3>6. CASE BetterThan(r, s)
      <4>1. RanksLast(w, i)
        BY <2>1, <2>4, <3>1, <3>4, <3>6
      <4> QED  BY <2>1, <2>2, <2>4, <3>6, <4>1
    <3> QED  BY <3>5, <3>6
  <2> QED  BY <2>3, <2>4
<1>4. \A i \in 0..n : i \in P
  <2> HIDE DEF P, n
  <2> QED  BY <1>0, <1>2, <1>3, Induction, Zenon
<1>5. RanksLast(worst[n], n)
  BY <1>0, <1>4
<1> QED  BY <1>1, <1>5

----------------------------------------------------------------------------
(* What remember does to the store. *)

LEMMA IndexFound ==
  ASSUME NEW store \in Seq(Record), NEW source
  PROVE  /\ IndexOf(store, source) # 0 =>
              /\ IndexOf(store, source) \in 1..Len(store)
              /\ store[IndexOf(store, source)].source = source
         /\ IndexOf(store, source) = 0 => \A j \in 1..Len(store) : store[j].source # source
<1> DEFINE I == {i \in 1..Len(store) : store[i].source = source}
<1>1. IndexOf(store, source) = IF I = {} THEN 0 ELSE Min(I)
  BY DEF IndexOf, FirstOf
<1>2. ASSUME I # {}
      PROVE  Min(I) \in I
  <2>1. I \in SUBSET Nat
    OBVIOUS
  <2> HIDE DEF I
  <2>2. PICK x \in I : \A y \in I : x <= y
    BY <1>2, <2>1, LeastElement
  <2> QED  BY <2>2 DEF Min
<1>3. 0 \notin I
  OBVIOUS
<1> QED  BY <1>1, <1>2, <1>3

LEMMA RemoveStored ==
  ASSUME NEW store \in Seq(Record), Distinct(store), NEW w \in 1..Len(store)
  PROVE  /\ RemoveAt(store, w) \in Seq(Record)
         /\ Len(RemoveAt(store, w)) = Len(store) - 1
         /\ Stored(RemoveAt(store, w)) = Stored(store) \ {store[w]}
         /\ Distinct(RemoveAt(store, w))
<1> DEFINE n == Len(store)
           a == SubSeq(store, 1, w - 1)
           b == SubSeq(store, w + 1, n)
           c == a \o b
<1>0. n \in Nat /\ w \in Nat /\ \A i \in 1..n : store[i] \in Record
  OBVIOUS
<1>1. /\ a \in Seq(Record) /\ Len(a) = w - 1
      /\ \A i \in 1..(w - 1) : a[i] = store[i]
  BY <1>0
<1>2. /\ b \in Seq(Record) /\ Len(b) = n - w
      /\ \A i \in 1..(n - w) : b[i] = store[w + i]
  BY <1>0
<1> HIDE DEF a, b
<1>3. /\ c \in Seq(Record) /\ Len(c) = n - 1
      /\ \A i \in 1..(w - 1) : c[i] = store[i]
      /\ \A i \in w..(n - 1) : c[i] = store[i + 1]
  <2>1. c \in Seq(Record) /\ Len(c) = n - 1
    <3>1. a \in Seq(Record) /\ b \in Seq(Record)
      BY <1>1, <1>2
    <3>2. c \in Seq(Record)
      BY <3>1
    <3>3. Len(c) = Len(a) + Len(b)
      BY <3>1
    <3> QED  BY <1>0, <1>1, <1>2, <3>2, <3>3
  <2>2. \A i \in 1..(w - 1) : c[i] = store[i]
    BY <1>0, <1>1, <1>2
  <2>3. ASSUME NEW i \in w..(n - 1)
        PROVE  c[i] = store[i + 1]
    <3>1. c[i] = b[i - (w - 1)]
      BY <1>0, <1>1, <1>2
    <3>2. i - (w - 1) \in 1..(n - w) /\ w + (i - (w - 1)) = i + 1
      BY <1>0
    <3> QED  BY <1>2, <3>1, <3>2
  <2> QED  BY <2>1, <2>2, <2>3
<1>4. RemoveAt(store, w) = c
  BY DEF RemoveAt, a, b
<1> HIDE DEF c
<1>5. Stored(c) = Stored(store) \ {store[w]}
  <2>1. ASSUME NEW i \in 1..Len(c)
        PROVE  c[i] \in Stored(store) \ {store[w]}
    <3>1. \E j \in 1..n : c[i] = store[j] /\ j # w
      <4>1. CASE i < w
        BY <1>0, <1>3, <4>1
      <4>2. CASE ~(i < w)
        BY <1>0, <1>3, <4>2
      <4> QED  BY <4>1, <4>2
    <3> QED  BY <3>1 DEF Stored, Distinct
  <2>2. ASSUME NEW j \in 1..n, j # w
        PROVE  \E i \in 1..Len(c) : c[i] = store[j]
    <3>1. CASE j < w
      <4>1. j \in 1..(w - 1) /\ j \in 1..Len(c)
        BY <1>0, <1>3, <3>1
      <4> QED  BY <1>3, <4>1
    <3>2. CASE ~(j < w)
      <4>1. j - 1 \in w..(n - 1) /\ j - 1 \in 1..Len(c) /\ (j - 1) + 1 = j
        BY <1>0, <1>3, <2>2, <3>2
      <4> QED  BY <1>3, <4>1, Zenon
    <3> QED  BY <3>1, <3>2
  <2> QED  BY <2>1, <2>2 DEF Stored
<1>6. Distinct(c)
  <2>1. ASSUME NEW i \in 1..Len(c), NEW j \in 1..Len(c), c[i].source = c[j].source
        PROVE  i = j
    <3> DEFINE At(k) == IF k < w THEN k ELSE k + 1
    <3>1. \A k \in 1..Len(c) : At(k) \in 1..n /\ c[k] = store[At(k)]
      BY <1>0, <1>3
    <3>2. At(i) = At(j)
      <4> HIDE DEF At
      <4> QED  BY <2>1, <3>1 DEF Distinct
    <3> QED  BY <1>0, <1>3, <3>2
  <2> QED  BY <2>1 DEF Distinct
<1> QED  BY <1>3, <1>4, <1>5, <1>6

\* update_from leaves the source and takes the rest from the new record.
LEMMA UpdatedType ==
  ASSUME NEW r \in Record, NEW new \in Record
  PROVE  /\ Updated(r, new) \in Record
         /\ Updated(r, new).source = r.source /\ Updated(r, new).ds = new.ds
         /\ Updated(r, new).last = new.last /\ Updated(r, new).prev = r.last
         /\ Updated(r, new).window = new.window
BY Zenon DEF Updated, Record

\* A record of the same source is updated in its place.
LEMMA RememberUpdates ==
  ASSUME NEW store \in Seq(Record), Distinct(store), NEW new \in Record,
         NEW r \in Stored(store), r.source = new.source
  PROVE  /\ Remember(store, new) \in Seq(Record)
         /\ Len(Remember(store, new)) = Len(store)
         /\ Stored(Remember(store, new)) = (Stored(store) \ {r}) \cup {Updated(r, new)}
         /\ Distinct(Remember(store, new))
<1> DEFINE i == IndexOf(store, new.source)
           u == [store EXCEPT ![i] = Updated(@, new)]
<1>1. PICK k \in 1..Len(store) : store[k] = r
  BY DEF Stored
<1>2. i = k /\ i # 0
  BY <1>1, IndexFound DEF Distinct
<1>3. Remember(store, new) = u
  BY <1>2 DEF Remember
<1> HIDE DEF i
<1>4. Updated(r, new) \in Record /\ Updated(r, new).source = r.source
  <2>1. r \in Record
    BY <1>1
  <2> QED  BY <2>1, UpdatedType
<1>5. /\ u \in Seq(Record) /\ Len(u) = Len(store) /\ u[k] = Updated(r, new)
      /\ \A j \in 1..Len(store) : j # k => u[j] = store[j]
  BY <1>1, <1>2, <1>4
<1> HIDE DEF u
<1>6. \A j \in 1..Len(store) : u[j].source = store[j].source
  BY <1>1, <1>4, <1>5
<1>7. Distinct(u)
  BY <1>5, <1>6 DEF Distinct
<1>8. Stored(u) = (Stored(store) \ {r}) \cup {Updated(r, new)}
  <2>1. \A j \in 1..Len(store) : store[j] = r => j = k
    BY <1>1 DEF Distinct
  <2>2. ASSUME NEW x \in Stored(u)
        PROVE  x \in (Stored(store) \ {r}) \cup {Updated(r, new)}
    BY <1>1, <1>5, <2>1 DEF Stored
  <2>3. ASSUME NEW x \in (Stored(store) \ {r}) \cup {Updated(r, new)}
        PROVE  x \in Stored(u)
    BY <1>1, <1>5, <2>1 DEF Stored
  <2> QED  BY <2>2, <2>3
<1> QED  BY <1>3, <1>5, <1>7, <1>8

\* A new source is appended while there is room.
LEMMA RememberAppends ==
  ASSUME NEW store \in Seq(Record), NEW new \in Record,
         \A s \in Stored(store) : s.source # new.source,
         Len(store) < Capacity
  PROVE  Remember(store, new) = Append(store, new)
<1>1. \A j \in 1..Len(store) : store[j].source # new.source
  BY DEF Stored
<1>2. IndexOf(store, new.source) = 0
  BY <1>1, IndexFound
<1> QED  BY <1>2 DEF Remember

\* In a full store it takes the place of the candidate for removal, if there is one.
LEMMA RememberReplaces ==
  ASSUME NEW store \in Seq(Record), Distinct(store), NEW new \in Record,
         \A s \in Stored(store) : s.source # new.source,
         ~(Len(store) < Capacity)
  PROVE  LET w == CandidateIndex(store, new)
             store2 == Remember(store, new)
         IN  /\ w \in 0..Len(store)
             /\ w = 0 => store2 = store
             /\ w # 0 => /\ store2 \in Seq(Record)
                         /\ Len(store2) = Len(store)
                         /\ Stored(store2) = (Stored(store) \ {store[w]}) \cup {new}
                         /\ Distinct(store2)
<1> DEFINE w == CandidateIndex(store, new)
           store2 == Remember(store, new)
<1>1. \A j \in 1..Len(store) : store[j].source # new.source
  BY DEF Stored
<1>2. IndexOf(store, new.source) = 0
  BY <1>1, IndexFound
<1>3. store2 = IF w = 0 THEN store ELSE Append(RemoveAt(store, w), new)
  BY <1>2 DEF Remember, Replace
<1>4. w \in 0..Len(store)
  <2>1. PICK worst \in [0..Len(store) -> 0..Len(store)] : w = worst[Len(store)]
    BY CandidateScan
  <2> QED  BY <2>1
<1> HIDE DEF w, store2
<1>5. ASSUME w # 0
      PROVE  /\ store2 \in Seq(Record)
             /\ Len(store2) = Len(store)
             /\ Stored(store2) = (Stored(store) \ {store[w]}) \cup {new}
             /\ Distinct(store2)
  <2> DEFINE rest == RemoveAt(store, w)
  <2>1. w \in 1..Len(store)
    BY <1>4, <1>5
  <2>2. /\ rest \in Seq(Record) /\ Len(rest) = Len(store) - 1
        /\ Stored(rest) = Stored(store) \ {store[w]} /\ Distinct(rest)
    BY <2>1, RemoveStored
  <2> HIDE DEF rest
  <2>3. \A s \in Stored(rest) : s.source # new.source
    BY <2>2
  <2>4. store2 = Append(rest, new)
    BY <1>3, <1>5 DEF rest
  <2> QED  BY <2>2, <2>3, <2>4, AppendStored
<1> QED  BY <1>3, <1>4, <1>5 DEF w, store2

\* A set that f numbers from 1 to n has n elements.
LEMMA NumberedCount ==
  ASSUME NEW S, NEW n \in Nat, NEW f \in [1..n -> S],
         \A i, j \in 1..n : f[i] = f[j] => i = j,
         \A x \in S : \E i \in 1..n : f[i] = x
  PROVE  IsFiniteSet(S) /\ Cardinality(S) = n
<1>1. ExistsBijection(1..n, S)
  <2>1. f \in Injection(1..n, S)
    BY DEF Injection, IsInjective
  <2>2. f \in Surjection(1..n, S)
    BY DEF Surjection
  <2> QED  BY <2>1, <2>2 DEF ExistsBijection, Bijection
<1> QED  BY <1>1, FS_NatBijection, FS_CountingElements

\* A store of distinct sources has as many of them, and of records, as it is long.
LEMMA CountRecords ==
  ASSUME NEW store \in Seq(Record), Distinct(store)
  PROVE  LET sources == {r.source : r \in Stored(store)} IN
           /\ IsFiniteSet(sources) /\ Cardinality(sources) = Len(store)
           /\ IsFiniteSet(Stored(store)) /\ Cardinality(Stored(store)) = Len(store)
<1> DEFINE n == Len(store)
           sources == {r.source : r \in Stored(store)}
<1>0. n \in Nat
  OBVIOUS
<1>1. IsFiniteSet(sources) /\ Cardinality(sources) = n
  <2> DEFINE f == [i \in 1..n |-> store[i].source]
  <2>1. f \in [1..n -> sources]
    BY DEF Stored
  <2>2. \A i, j \in 1..n : f[i] = f[j] => i = j
    BY DEF Distinct
  <2>3. \A x \in sources : \E i \in 1..n : f[i] = x
    BY DEF Stored
  <2> HIDE DEF f, sources, n
  <2> QED  BY <1>0, <2>1, <2>2, <2>3, NumberedCount, Zenon
<1>2. IsFiniteSet(Stored(store)) /\ Cardinality(Stored(store)) = n
  <2> DEFINE f == [i \in 1..n |-> store[i]]
  <2>1. f \in [1..n -> Stored(store)]
    BY DEF Stored
  <2>2. \A i, j \in 1..n : f[i] = f[j] => i = j
    BY DEF Distinct
  <2>3. \A x \in Stored(store) : \E i \in 1..n : f[i] = x
    BY DEF Stored
  <2> HIDE DEF f, n
  <2> QED  BY <1>0, <2>1, <2>2, <2>3, NumberedCount, Zenon
<1> QED  BY <1>1, <1>2

----------------------------------------------------------------------------
(***************************************************************************)
(* The inductive invariant: every record says what the last two Announces  *)
(* of its source say, and while there is room for every source heard, a    *)
(* source that is not silent has a record, which knows both of them.       *)
(***************************************************************************)
Announced == [at : Nat, interval : MinLogValue..MaxLogValue]

Speakers == {s \in Sources : heard[s] # <<>>}

Typed == records \in Seq(Record) /\ now \in Nat

HeardTyped ==
  /\ heard \in [Sources -> Seq(Announced)]
  /\ \A s \in Sources : LET h == heard[s] IN
       /\ Len(h) <= 2
       /\ Len(h) >= 1 => h[1].at <= now
       /\ Len(h) = 2 => h[2].at <= h[1].at
  /\ IsFiniteSet(Speakers)

RecordsHeard == \A r \in Stored(records) : LET h == heard[r.source] IN
  /\ h # <<>>
  /\ r.last = h[1].at /\ r.window = Window(h[1].interval)
  /\ r.prev # Never => Len(h) = 2 /\ r.prev = h[2].at

HeardRecorded ==
  Cardinality(Speakers) <= Capacity =>
    \A s \in Speakers : LET h == heard[s] IN
      Within(h[1], now) =>
        \E r \in Stored(records) :
          /\ r.source = s
          /\ Len(h) = 2 /\ Within(h[2], h[1].at) => r.prev = h[2].at

IInv == Typed /\ HeardTyped /\ Bounded /\ RecordsHeard /\ HeardRecorded

\* What an Announce of o makes of the store, in the four cases of remember.
Updates(store, new, store2) ==
  \E r \in Stored(store) :
    /\ r.source = new.source
    /\ Stored(store2) = (Stored(store) \ {r}) \cup {Updated(r, new)}

Unknown(store, new) == \A s \in Stored(store) : s.source # new.source

Appends(store, new, store2) ==
  /\ Unknown(store, new) /\ Len(store) < Capacity
  /\ Stored(store2) = Stored(store) \cup {new}

Refuses(store, new, store2) ==
  /\ Unknown(store, new) /\ Len(store) = Capacity /\ CandidateIndex(store, new) = 0
  /\ store2 = store

Replaces(store, new, store2) ==
  /\ Unknown(store, new) /\ Len(store) = Capacity
  /\ CandidateIndex(store, new) \in 1..Len(store)
  /\ Stored(store2) = (Stored(store) \ {store[CandidateIndex(store, new)]}) \cup {new}

LEMMA RememberCases ==
  ASSUME NEW store \in Seq(Record), Distinct(store), Len(store) <= Capacity,
         NEW new \in Record
  PROVE  LET store2 == Remember(store, new) IN
           /\ store2 \in Seq(Record) /\ Len(store2) <= Capacity /\ Distinct(store2)
           /\ \/ Updates(store, new, store2)
              \/ Appends(store, new, store2)
              \/ Refuses(store, new, store2)
              \/ Replaces(store, new, store2)
<1> DEFINE store2 == Remember(store, new)
<1>0. Len(store) \in Nat
  OBVIOUS
<1>1. CASE ~Unknown(store, new)
  <2>1. PICK r \in Stored(store) : r.source = new.source
    BY <1>1 DEF Unknown
  <2>2. /\ store2 \in Seq(Record) /\ Len(store2) = Len(store) /\ Distinct(store2)
        /\ Stored(store2) = (Stored(store) \ {r}) \cup {Updated(r, new)}
    BY <2>1, RememberUpdates
  <2> HIDE DEF store2
  <2> QED  BY <1>0, <2>1, <2>2 DEF Updates, store2
<1>2. CASE Unknown(store, new) /\ Len(store) < Capacity
  <2>1. store2 = Append(store, new)
    BY <1>2, RememberAppends DEF Unknown
  <2>2. /\ store2 \in Seq(Record) /\ Len(store2) = Len(store) + 1 /\ Distinct(store2)
        /\ Stored(store2) = Stored(store) \cup {new}
    BY <1>2, <2>1, AppendStored DEF Unknown
  <2> HIDE DEF store2
  <2> QED  BY <1>0, <1>2, <2>2, ForeignRecordsAssumption DEF Appends, store2
<1>3. CASE Unknown(store, new) /\ ~(Len(store) < Capacity)
  <2> DEFINE w == CandidateIndex(store, new)
  <2>1. /\ w \in 0..Len(store)
        /\ w = 0 => store2 = store
        /\ w # 0 => /\ store2 \in Seq(Record) /\ Len(store2) = Len(store)
                    /\ Stored(store2) = (Stored(store) \ {store[w]}) \cup {new}
                    /\ Distinct(store2)
    BY <1>3, RememberReplaces DEF Unknown
  <2>2. Len(store) = Capacity
    BY <1>0, <1>3, ForeignRecordsAssumption
  <2> HIDE DEF store2
  <2>3. CASE w = 0
    BY <1>3, <2>1, <2>2, <2>3 DEF Refuses, store2
  <2>4. CASE w # 0
    <3>1. w \in 1..Len(store)
      BY <1>0, <2>1, <2>4
    <3> QED  BY <1>3, <2>1, <2>2, <2>4, <3>1 DEF Replaces, store2
  <2> QED  BY <2>3, <2>4
<1> QED  BY <1>1, <1>2, <1>3

\* The store before and after an Announce.
LEMMA FeedStore ==
  ASSUME IInv, NEW o \in Offers, HasLogInterval(o.interval)
  PROVE  LET kept == PruneStale(records)
             new == NewRecord(o)
         IN  /\ new \in Record /\ new.source = o.source /\ new.ds = o.ds
             /\ new.last = now /\ new.prev = Never /\ new.window = Window(o.interval)
             /\ kept \in Seq(Record) /\ Distinct(kept) /\ Len(kept) <= Capacity
             /\ Stored(kept) = {r \in Stored(records) : ~IsStale(r, now)}
<1>1. NewRecord(o) \in Record
  <2>1. /\ o.source \in Sources /\ o.ds \in ClockDS /\ now \in Nat
        /\ Window(o.interval) \in Nat
    BY WindowType, ForeignRecordsAssumption DEF IInv, Typed, Sources
  <2> QED  BY <2>1 DEF NewRecord, Record
<1>2. records \in Seq(Record) /\ Distinct(records) /\ Len(records) <= Capacity
  BY DEF IInv, Typed, Bounded, Distinct
<1>3. Len(PruneStale(records)) <= Capacity
  <2>1. /\ Len(PruneStale(records)) <= Len(records) /\ PruneStale(records) \in Seq(Record)
    BY <1>2, PruneKeeps
  <2> QED  BY <1>2, <2>1, ForeignRecordsAssumption
<1> QED  BY <1>1, <1>2, <1>3, PruneKeeps DEF NewRecord

LEMMA PairOf ==
  ASSUME NEW S, NEW x \in S, NEW y \in S
  PROVE  <<x>> \o <<y>> = <<x, y>>
<1>1. <<x>> \in Seq(S) /\ <<y>> \in Seq(S) /\ <<x, y>> \in Seq(S)
  OBVIOUS
<1>2. /\ Len(<<x>> \o <<y>>) = 2 /\ <<x>> \o <<y>> \in Seq(S)
      /\ (<<x>> \o <<y>>)[1] = x /\ (<<x>> \o <<y>>)[2] = y
  BY <1>1
<1>3. \A i \in 1..2 : (<<x>> \o <<y>>)[i] = <<x, y>>[i]
  <2>1. \A i \in 1..2 : i = 1 \/ i = 2
    OBVIOUS
  <2> QED  BY <1>2, <2>1
<1>4. Len(<<x, y>>) = 2
  OBVIOUS
<1> QED  BY <1>1, <1>2, <1>3, <1>4, SameSequence, Zenon

\* The history before and after an Announce.
LEMMA FeedHeard ==
  ASSUME IInv, NEW o \in Offers, FeedBmca(o)
  PROVE  LET a == Heard(o)
             h == heard[o.source]
         IN  /\ a \in Announced /\ a.at = now /\ a.interval = o.interval
             /\ o.source \in Sources /\ now' = now
             /\ \A s \in Sources : s # o.source => heard'[s] = heard[s]
             /\ heard'[o.source] = IF h = <<>> THEN <<a>> ELSE <<a, h[1]>>
             /\ h # <<>> => h[1] \in Announced /\ h[1].at <= now
             /\ Speakers' = Speakers \cup {o.source}
             /\ HeardTyped'
<1> DEFINE a == Heard(o)
           h == heard[o.source]
           h2 == IF h = <<>> THEN <<a>> ELSE <<a, h[1]>>
<1>0. /\ o.source \in Sources /\ h \in Seq(Announced) /\ now \in Nat /\ Len(h) <= 2
      /\ heard \in [Sources -> Seq(Announced)]
  BY DEF IInv, Typed, HeardTyped, Sources
<1>1. a \in Announced /\ a.at = now /\ a.interval = o.interval
  BY <1>0 DEF FeedBmca, HasLogInterval, Heard, Announced
<1>2. h # <<>> => Len(h) >= 1 /\ h[1] \in Announced /\ h[1].at <= now /\ Head(h) = h[1]
  BY <1>0 DEF IInv, HeardTyped
<1>3. /\ now' = now
      /\ heard' = [heard EXCEPT ![o.source] = <<a>> \o (IF h = <<>> THEN h ELSE <<Head(h)>>)]
  BY DEF FeedBmca, Consider
<1> HIDE DEF a, h
<1>4. <<a>> \o (IF h = <<>> THEN h ELSE <<Head(h)>>) = h2
  <2>1. CASE h = <<>>
    BY <1>1, <2>1
  <2>2. CASE h # <<>>
    <3>1. Head(h) = h[1] /\ h[1] \in Announced
      BY <1>2, <2>2
    <3>2. <<a>> \o <<h[1]>> = <<a, h[1]>>
      BY <1>1, <3>1, PairOf
    <3> QED  BY <2>2, <3>1, <3>2
  <2> QED  BY <2>1, <2>2
<1>5. /\ h2 \in Seq(Announced) /\ h2 # <<>> /\ h2[1] = a /\ Len(h2) <= 2
      /\ Len(h2) = 2 => h # <<>> /\ h2[2] = h[1]
  <2>1. CASE h = <<>>
    BY <1>1, <2>1
  <2>2. CASE h # <<>>
    BY <1>1, <1>2, <2>2
  <2> QED  BY <2>1, <2>2
<1> HIDE DEF h2
<1>6. /\ heard' \in [Sources -> Seq(Announced)]
      /\ \A s \in Sources : s # o.source => heard'[s] = heard[s]
      /\ heard'[o.source] = h2
  BY <1>0, <1>3, <1>4, <1>5
<1>7. Speakers' = Speakers \cup {o.source}
  BY <1>0, <1>5, <1>6 DEF Speakers
<1>8. IsFiniteSet(Speakers')
  BY <1>7, FS_AddElement DEF IInv, HeardTyped
<1>9. ASSUME NEW s \in Sources
      PROVE  /\ Len(heard'[s]) <= 2
             /\ Len(heard'[s]) >= 1 => heard'[s][1].at <= now'
             /\ Len(heard'[s]) = 2 => heard'[s][2].at <= heard'[s][1].at
  <2>1. CASE s # o.source
    BY <1>3, <1>6, <2>1 DEF IInv, HeardTyped
  <2>2. CASE s = o.source
    <3>1. heard'[s] = h2 /\ a.at <= now
      BY <1>0, <1>1, <1>6, <2>2
    <3>2. Len(h2) <= 2
      BY <1>5
    <3>4. h2[1].at <= now
      BY <1>5, <3>1
    <3>3. Len(h2) = 2 => h2[2].at <= h2[1].at
      BY <1>1, <1>2, <1>5
    <3> QED  BY <1>3, <3>1, <3>2, <3>3, <3>4, Zenon
  <2> QED  BY <2>1, <2>2
<1>10. HeardTyped'
  BY <1>6, <1>8, <1>9 DEF HeardTyped
<1> QED  BY <1>0, <1>1, <1>2, <1>3, <1>6, <1>7, <1>10 DEF a, h, h2

LEMMA FeedRecordsHeard ==
  ASSUME IInv, NEW o \in Offers, FeedBmca(o)
  PROVE  Typed' /\ Bounded' /\ RecordsHeard'
<1> DEFINE kept == PruneStale(records)
           new == NewRecord(o)
           a == Heard(o)
           h == heard[o.source]
<1>1. HasLogInterval(o.interval) /\ records' = Remember(kept, new)
  BY DEF FeedBmca, Consider
<1>2. /\ new \in Record /\ new.source = o.source /\ new.ds = o.ds
      /\ new.last = now /\ new.prev = Never /\ new.window = Window(o.interval)
      /\ kept \in Seq(Record) /\ Distinct(kept) /\ Len(kept) <= Capacity
      /\ Stored(kept) = {r \in Stored(records) : ~IsStale(r, now)}
  BY <1>1, FeedStore
<1>3. /\ a.at = now /\ a.interval = o.interval /\ now' = now
      /\ \A s \in Sources : s # o.source => heard'[s] = heard[s]
      /\ heard'[o.source] = IF h = <<>> THEN <<a>> ELSE <<a, h[1]>>
  BY FeedHeard
<1> HIDE DEF kept, new, a
<1>4. /\ records' \in Seq(Record) /\ Len(records') <= Capacity /\ Distinct(records')
      /\ \/ Updates(kept, new, records')
         \/ Appends(kept, new, records')
         \/ Refuses(kept, new, records')
         \/ Replaces(kept, new, records')
  BY <1>1, <1>2, RememberCases
<1>5. Typed' /\ Bounded'
  BY <1>3, <1>4 DEF Typed, Bounded, Distinct, IInv
<1> DEFINE Says(r) == LET g == heard'[r.source] IN
             /\ g # <<>>
             /\ r.last = g[1].at /\ r.window = Window(g[1].interval)
             /\ r.prev # Never => Len(g) = 2 /\ r.prev = g[2].at
<1>6. ASSUME NEW r \in Stored(kept), r.source # o.source
      PROVE  Says(r)
  <2>1. r \in Stored(records) /\ r \in Record
    BY <1>2, StoredType
  <2>2. heard'[r.source] = heard[r.source]
    BY <1>3, <1>6, <2>1 DEF Record
  <2> QED  BY <2>1, <2>2 DEF IInv, RecordsHeard
<1>7. Says(new)
  <2>1. heard'[new.source][1] = a /\ heard'[new.source] # <<>>
    BY <1>2, <1>3
  <2> QED  BY <1>2, <1>3, <2>1
<1>8. ASSUME NEW r \in Stored(kept), r.source = o.source
      PROVE  Says(Updated(r, new))
  <2>1. r \in Stored(records) /\ r \in Record
    BY <1>2, StoredType
  <2>2. h # <<>> /\ r.last = h[1].at
    BY <1>8, <2>1 DEF IInv, RecordsHeard
  <2> DEFINE u == Updated(r, new)
  <2>3. /\ u.source = o.source /\ u.last = now /\ u.prev = h[1].at
        /\ u.window = Window(o.interval)
    BY <1>2, <1>8, <2>1, <2>2, UpdatedType
  <2>4. heard'[u.source] = <<a, h[1]>>
    BY <1>3, <2>2, <2>3
  <2> HIDE DEF u
  <2> QED  BY <1>3, <2>3, <2>4 DEF u
<1>9. ASSUME NEW x \in Stored(records')
      PROVE  Says(x)
  <2>0. \A r, t \in Stored(kept) : r.source = t.source => r = t
    BY <1>2 DEF Distinct, Stored
  <2> HIDE DEF Says
  <2>1. CASE Updates(kept, new, records')
    <3>1. PICK r \in Stored(kept) :
            /\ r.source = o.source
            /\ Stored(records') = (Stored(kept) \ {r}) \cup {Updated(r, new)}
      BY <1>2, <2>1 DEF Updates
    <3> QED  BY <1>6, <1>8, <1>9, <2>0, <3>1
  <2>2. CASE \/ Appends(kept, new, records') \/ Refuses(kept, new, records')
             \/ Replaces(kept, new, records')
    BY <1>2, <1>6, <1>7, <1>9, <2>2 DEF Appends, Refuses, Replaces, Unknown
  <2> QED  BY <1>4, <2>1, <2>2
<1>10. RecordsHeard'
  <2>1. \A x \in Stored(records)' : Says(x)
    BY <1>9 DEF Stored
  <2> QED  BY <2>1 DEF RecordsHeard
<1> QED  BY <1>5, <1>10

\* A record is stale exactly when its source was silent for its window.
LEMMA StaleIfSilent ==
  ASSUME IInv, NEW r \in Stored(records)
  PROVE  Within(heard[r.source][1], now) => ~IsStale(r, now)
<1> DEFINE a == heard[r.source][1]
<1>1. /\ r \in Record /\ r.source \in Sources /\ now \in Nat
      /\ heard[r.source] \in Seq(Announced) /\ heard[r.source] # <<>>
      /\ r.last = a.at /\ r.window = Window(a.interval)
  BY StoredType, Zenon DEF IInv, Typed, HeardTyped, RecordsHeard, Record
<1>2. a \in Announced /\ Len(heard[r.source]) >= 1
  BY <1>1
<1>3. a.at <= now /\ a.at \in Nat
  BY <1>1, <1>2 DEF IInv, HeardTyped, Announced
<1>4. IntervalDuration(a.interval) \in Int
  BY <1>2, WindowType DEF Announced, HasLogInterval
<1> HIDE DEF a
<1>5. ASSUME Within(a, now)
      PROVE  ~IsStale(r, now)
  <2>1. now - a.at <= 4 * IntervalDuration(a.interval)
    BY <1>5 DEF Within
  <2>2. r.window = 4 * IntervalDuration(a.interval)
    BY <1>1 DEF Window
  <2> QED  BY <1>1, <1>3, <1>4, <2>1, <2>2 DEF IsStale
<1> QED  BY <1>5 DEF a

\* While there is room for every source heard, nothing is refused or replaced.
LEMMA RoomForAll ==
  ASSUME NEW kept \in Seq(Record), Distinct(kept), NEW S, IsFiniteSet(S),
         Cardinality(S) <= Capacity, \A r \in Stored(kept) : r.source \in S,
         NEW source \in S, \A r \in Stored(kept) : r.source # source
  PROVE  Len(kept) < Capacity
<1> DEFINE T == {r.source : r \in Stored(kept)}
<1>1. IsFiniteSet(T) /\ Cardinality(T) = Len(kept)
  BY CountRecords
<1>2. source \notin T /\ T \cup {source} \in SUBSET S
  OBVIOUS
<1>3. Cardinality(T \cup {source}) = Len(kept) + 1
  <2> HIDE DEF T
  <2> QED  BY <1>1, <1>2, FS_AddElement, Zenon
<1>4. Cardinality(T \cup {source}) <= Cardinality(S) /\ Cardinality(S) \in Nat
  <2> HIDE DEF T
  <2> QED  BY <1>2, FS_Subset, FS_CardinalityType
<1> QED  BY <1>3, <1>4, ForeignRecordsAssumption

LEMMA FeedHeardRecorded ==
  ASSUME IInv, NEW o \in Offers, FeedBmca(o)
  PROVE  HeardRecorded'
<1> DEFINE kept == PruneStale(records)
           new == NewRecord(o)
           a == Heard(o)
           h == heard[o.source]
<1>1. HasLogInterval(o.interval) /\ records' = Remember(kept, new)
  BY DEF FeedBmca, Consider
<1>2. /\ new \in Record /\ new.source = o.source /\ new.prev = Never
      /\ kept \in Seq(Record) /\ Distinct(kept) /\ Len(kept) <= Capacity
      /\ Stored(kept) = {r \in Stored(records) : ~IsStale(r, now)}
  BY <1>1, FeedStore
<1>3. /\ a.at = now /\ now' = now /\ o.source \in Sources
      /\ \A s \in Sources : s # o.source => heard'[s] = heard[s]
      /\ heard'[o.source] = IF h = <<>> THEN <<a>> ELSE <<a, h[1]>>
      /\ Speakers' = Speakers \cup {o.source}
      /\ HeardTyped'
  BY FeedHeard
<1> HIDE DEF kept, new, a
<1>4. \/ Updates(kept, new, records')
      \/ Appends(kept, new, records')
      \/ Refuses(kept, new, records')
      \/ Replaces(kept, new, records')
  BY <1>1, <1>2, RememberCases
<1> DEFINE Knows(r, g) == Len(g) = 2 /\ Within(g[2], g[1].at) => r.prev = g[2].at
<1> SUFFICES ASSUME Cardinality(Speakers') <= Capacity,
                    NEW s \in Speakers', Within(heard'[s][1], now')
             PROVE  \E r \in Stored(records') : r.source = s /\ Knows(r, heard'[s])
  BY DEF HeardRecorded, Stored
<1>5. IsFiniteSet(Speakers') /\ Cardinality(Speakers) <= Capacity
  <2>1. IsFiniteSet(Speakers') /\ Speakers \in SUBSET Speakers'
    BY <1>3 DEF HeardTyped
  <2>2. /\ Cardinality(Speakers) <= Cardinality(Speakers')
        /\ Cardinality(Speakers) \in Nat /\ Cardinality(Speakers') \in Nat
    BY <2>1, FS_Subset, FS_CardinalityType
  <2> QED  BY <2>1, <2>2, ForeignRecordsAssumption
<1>6. ASSUME NEW r \in Stored(kept)
      PROVE  r \in Record /\ r \in Stored(records) /\ r.source \in Speakers
  <2>1. r \in Record /\ r \in Stored(records)
    BY <1>2, StoredType
  <2> QED  BY <2>1 DEF IInv, RecordsHeard, Record, Speakers
<1>7. Updates(kept, new, records') \/ Appends(kept, new, records')
  <2>1. ASSUME Unknown(kept, new)
        PROVE  Len(kept) < Capacity
    <3>1. /\ \A r \in Stored(kept) : r.source \in Speakers' /\ r.source # o.source
          /\ o.source \in Speakers'
      BY <1>2, <1>3, <1>6, <2>1 DEF Unknown
    <3> QED  BY <1>2, <1>5, <3>1, RoomForAll
  <2> QED  BY <1>2, <1>4, <2>1 DEF Refuses, Replaces
\* A source that spoke in time has kept its record.
<1>8. ASSUME NEW t \in Speakers, Within(heard[t][1], now)
      PROVE  \E r \in Stored(kept) : r.source = t /\ Knows(r, heard[t])
  <2>1. PICK r \in Stored(records) : r.source = t /\ Knows(r, heard[t])
    BY <1>5, <1>8 DEF IInv, HeardRecorded
  <2>2. ~IsStale(r, now)
    BY <1>8, <2>1, StaleIfSilent
  <2> QED  BY <1>2, <2>1, <2>2
<1>9. CASE s # o.source
  <2>1. s \in Speakers /\ heard'[s] = heard[s]
    BY <1>3, <1>9 DEF Speakers
  <2>2. PICK r \in Stored(kept) : r.source = s /\ Knows(r, heard[s])
    BY <1>3, <1>8, <2>1
  <2>3. r \in Stored(records')
    BY <1>2, <1>7, <1>9, <2>2 DEF Updates, Appends
  <2> QED  BY <2>1, <2>2, <2>3
<1>10. CASE s = o.source
  <2>1. CASE Updates(kept, new, records')
    <3>1. PICK r \in Stored(kept) :
            /\ r.source = o.source
            /\ Stored(records') = (Stored(kept) \ {r}) \cup {Updated(r, new)}
      BY <1>2, <2>1 DEF Updates
    <3>2. h # <<>> /\ r.last = h[1].at
      BY <1>6, <3>1 DEF IInv, RecordsHeard
    <3>3. heard'[s] = <<a, h[1]>>
      BY <1>3, <1>10, <3>2
    <3>4. Updated(r, new).source = s /\ Updated(r, new).prev = h[1].at
      BY <1>2, <1>6, <1>10, <3>1, <3>2, UpdatedType, Zenon
    <3>5. heard'[s][2] = h[1]
      BY <3>3
    <3>6. Updated(r, new) \in Stored(records')
      BY <3>1
    <3> QED  BY <3>4, <3>5, <3>6
  <2>2. CASE Appends(kept, new, records')
    <3>1. new \in Stored(records') /\ Unknown(kept, new)
      BY <2>2 DEF Appends
    <3>2. ASSUME Len(heard'[s]) = 2, Within(heard'[s][2], heard'[s][1].at)
          PROVE  FALSE
      <4>1. h # <<>> /\ heard'[s] = <<a, h[1]>>
        BY <1>3, <1>10, <3>2
      <4>2. Within(h[1], now)
        BY <1>3, <3>2, <4>1
      <4>3. o.source \in Speakers
        BY <1>3, <4>1 DEF Speakers
      <4> QED  BY <1>2, <1>8, <3>1, <4>2, <4>3 DEF Unknown
    <3> QED  BY <1>2, <1>10, <3>1, <3>2
  <2> QED  BY <1>7, <2>1, <2>2
<1> QED  BY <1>9, <1>10

----------------------------------------------------------------------------
(* The theorems. *)

LEMMA Initially == Init => IInv
<1> SUFFICES ASSUME Init
             PROVE  IInv
  OBVIOUS
<1>1. Typed /\ Bounded /\ RecordsHeard
  BY ForeignRecordsAssumption DEF Init, Typed, Bounded, RecordsHeard, Stored
<1>2. Speakers = {}
  BY DEF Init, Speakers
<1>3. HeardTyped
  BY <1>2, FS_EmptySet DEF Init, HeardTyped
<1>4. HeardRecorded
  BY <1>2 DEF HeardRecorded
<1> QED  BY <1>1, <1>3, <1>4 DEF IInv

LEMMA TickPreserves ==
  ASSUME IInv, Tick
  PROVE  IInv'
<1>1. /\ records' = records /\ heard' = heard /\ now \in Nat /\ now' \in Nat /\ now <= now'
  BY ForeignRecordsAssumption DEF Tick, IInv, Typed
<1>2. Typed' /\ Bounded'
  BY <1>1 DEF IInv, Typed, Bounded
<1>3. Speakers' = Speakers
  BY <1>1 DEF Speakers
<1>4. HeardTyped'
  <2>1. ASSUME NEW s \in Sources, Len(heard[s]) >= 1
        PROVE  heard[s][1].at <= now'
    <3>1. heard[s] \in Seq(Announced) /\ heard[s][1].at <= now
      BY <2>1 DEF IInv, HeardTyped
    <3>2. heard[s][1] \in Announced
      BY <2>1, <3>1
    <3>3. heard[s][1].at \in Nat
      BY <3>2 DEF Announced
    <3> QED  BY <1>1, <3>1, <3>3
  <2> QED  BY <1>1, <1>3, <2>1 DEF IInv, HeardTyped
<1>5. RecordsHeard'
  BY <1>1 DEF IInv, RecordsHeard, Stored
<1>6. HeardRecorded'
  <2>1. ASSUME NEW s \in Speakers, Within(heard[s][1], now')
        PROVE  Within(heard[s][1], now)
    <3>1. /\ s \in Sources /\ heard[s] \in Seq(Announced) /\ heard[s] # <<>>
      BY DEF Speakers, IInv, HeardTyped
    <3>2. heard[s][1] \in Announced
      BY <3>1
    <3>3. heard[s][1].at \in Nat /\ IntervalDuration(heard[s][1].interval) \in Int
      BY <3>2, WindowType DEF Announced, HasLogInterval
    <3> QED  BY <1>1, <2>1, <3>3 DEF Within
  <2> QED  BY <1>1, <1>3, <2>1 DEF IInv, HeardRecorded, Stored
<1> QED  BY <1>2, <1>4, <1>5, <1>6 DEF IInv

LEMMA Preserved ==
  ASSUME IInv, [Next]_vars
  PROVE  IInv'
<1>1. CASE UNCHANGED vars
  BY <1>1 DEF vars, IInv, Typed, HeardTyped, Bounded, RecordsHeard, HeardRecorded,
              Speakers, Stored
<1>2. CASE Tick
  BY <1>2, TickPreserves
<1>3. ASSUME NEW o \in Offers, FeedBmca(o)
      PROVE  IInv'
  BY <1>3, FeedHeard, FeedRecordsHeard, FeedHeardRecorded, Zenon DEF IInv
<1> QED  BY <1>1, <1>2, <1>3 DEF Next

LEMMA Invariance == Spec => []IInv
  BY Initially, Preserved, PTL DEF Spec

\* remember and prune_stale keep a store within its capacity and without two
\* records of a source, for every capacity and any Announces.
THEOREM StoreBounded == Spec => []Bounded
<1>1. IInv => Bounded
  BY DEF IInv
<1> QED  BY <1>1, Invariance, PTL

\* is_qualified never holds of a source that has not announced itself twice within
\* the window of its last Announce.
THEOREM QualifiedHeardTwice == Spec => []QualifiedByTwo
<1>1. IInv => QualifiedByTwo
  <2> SUFFICES ASSUME IInv, NEW r \in Stored(records), IsQualified(r)
               PROVE  /\ Len(heard[r.source]) = 2
                      /\ heard[r.source][1].at - heard[r.source][2].at <= r.window
    BY DEF QualifiedByTwo
  <2> QED  BY DEF IInv, RecordsHeard, IsQualified
<1> QED  BY <1>1, Invariance, PTL

\* BestForeignRecord::snapshot presents the qualified record that ranks first,
\* whatever the order of the store.
THEOREM SnapshotRanksFirst == Spec => []SnapshotIsFirst
<1>1. IInv => SnapshotIsFirst
  <2> DEFINE Q == {r \in Stored(records) : IsQualified(r)}
             n == Len(records)
  <2> SUFFICES ASSUME IInv, Coherent(Q)
               PROVE  /\ Snapshot.qualified <=> Q # {}
                      /\ \A r \in Q : Snapshot = AsSnapshot(r) <=> \A s \in Q \ {r} : Before(r, s)
    BY DEF SnapshotIsFirst
  <2>1. records \in Seq(Record) /\ Distinct(records)
    BY DEF IInv, Typed, Bounded, Distinct
  <2>2. PICK b \in 0..n :
          /\ Snapshot = IF b = 0 THEN Empty ELSE AsSnapshot(records[b])
          /\ b = 0 => \A j \in 1..n : ~IsQualified(records[j])
          /\ b # 0 => /\ IsQualified(records[b])
                      /\ \A j \in 1..n :
                           j # b /\ IsQualified(records[j]) => Before(records[b], records[j])
    BY <2>1, SnapshotFirst
  <2>3. CASE b = 0
    <3>1. Q = {} /\ Snapshot = Empty
      BY <2>2, <2>3 DEF Stored
    <3> QED  BY <3>1 DEF Empty
  <2>4. CASE b # 0
    <3> DEFINE f == records[b]
    <3>1. /\ b \in 1..n /\ f \in Q /\ f \in Record /\ Snapshot = AsSnapshot(f)
      BY <2>1, <2>2, <2>4 DEF Stored
    <3>2. \A s \in Q : s \in Record /\ (s # f => Before(f, s))
      BY <2>1, <2>2, <2>4 DEF Stored
    <3> HIDE DEF f
    <3>3. Snapshot.qualified /\ Q # {}
      BY <3>1, SnapshotType
    <3>4. ASSUME NEW r \in Q
          PROVE  Snapshot = AsSnapshot(r) <=> \A s \in Q \ {r} : Before(r, s)
      <4>1. CASE r = f
        BY <3>1, <3>2, <4>1
      <4>2. CASE r # f
        <5>1. Before(f, r) /\ ~Before(r, f)
          BY <3>1, <3>2, <4>2, RecordsRank
        <5>2. AsSnapshot(r) # AsSnapshot(f)
          BY <3>1, <3>2, <5>1, RecordsRank DEF Before
        <5> QED  BY <3>1, <4>2, <5>1, <5>2
      <4> QED  BY <4>1, <4>2
    <3> QED  BY <3>3, <3>4
  <2> QED  BY <2>3, <2>4
<1> QED  BY <1>1, Invariance, PTL

\* While a store has had room for every source heard, a master whose last two
\* Announces were in time has a record that is qualified and not stale.
THEOREM PunctualQualifies == Spec => []PunctualIsCandidate
<1>1. IInv => PunctualIsCandidate
  <2> SUFFICES ASSUME IInv, NEW s \in Sources,
                      Cardinality({t \in Sources : heard[t] # <<>>}) <= Capacity,
                      Len(heard[s]) = 2, Within(heard[s][2], heard[s][1].at),
                      heard[s][1].at - heard[s][2].at <=
                        4 * IntervalDuration(heard[s][1].interval),
                      Within(heard[s][1], now)
               PROVE  \E r \in Stored(records) :
                        r.source = s /\ IsQualified(r) /\ ~IsStale(r, now)
    BY DEF PunctualIsCandidate
  <2> DEFINE h == heard[s]
  <2>1. /\ h \in Seq(Announced) /\ h # <<>> /\ s \in Speakers
        /\ Cardinality(Speakers) <= Capacity
    BY DEF IInv, HeardTyped, Speakers
  <2>2. PICK r \in Stored(records) : r.source = s /\ r.prev = h[2].at
    BY <2>1 DEF IInv, HeardRecorded
  <2>3. ~IsStale(r, now)
    BY <2>2, StaleIfSilent
  <2>4. r.last = h[1].at /\ r.window = Window(h[1].interval)
    BY <2>2 DEF IInv, RecordsHeard
  <2>5. h[1].at \in Nat /\ h[2].at \in Nat /\ h[2].at <= h[1].at
    <3>1. h[1] \in Announced /\ h[2] \in Announced
      BY <2>1
    <3>2. h[2].at <= h[1].at
      BY DEF IInv, HeardTyped
    <3> QED  BY <3>1, <3>2 DEF Announced
  <2>6. IsQualified(r)
    BY <2>2, <2>4, <2>5 DEF IsQualified, Window, Never
  <2> QED  BY <2>2, <2>3, <2>6
<1> QED  BY <1>1, Invariance, PTL

\* prune_stale, candidate_index and remember together remove only stale records
\* and, from a full store, the one that ranks below all others and the new one.
THEOREM EvictsTheWorst == Spec => OnlyWorstEvicted
<1> DEFINE Kept == {s \in Stored(records) : ~IsStale(s, now)}
           New == {s \in Stored(records') : \A t \in Kept : t.source # s.source}
           Gone(r) == r.source \notin {s.source : s \in Stored(records')}
<1>1. ASSUME IInv, Next, NEW r \in Stored(records), Coherent(Kept \cup New), records' # records
      PROVE  /\ \A s \in Stored(records') : ~IsStale(s, now)
             /\ Gone(r) => \/ IsStale(r, now)
                          \/ /\ Cardinality(Kept) = Capacity
                             /\ \A s \in (Kept \cup New) \ {r} : Before(s, r)
  <2>1. PICK o \in Offers : FeedBmca(o)
    BY <1>1 DEF Next, Tick
  <2> DEFINE kept == PruneStale(records)
             new == NewRecord(o)
  <2>2. HasLogInterval(o.interval) /\ records' = Remember(kept, new)
    BY <2>1 DEF FeedBmca, Consider
  <2>3. /\ new \in Record /\ new.last = now
        /\ kept \in Seq(Record) /\ Distinct(kept) /\ Len(kept) <= Capacity
        /\ Stored(kept) = Kept
    BY <1>1, <2>2, FeedStore
  <2> HIDE DEF kept, new
  <2>4. \/ Updates(kept, new, records')
        \/ Appends(kept, new, records')
        \/ Refuses(kept, new, records')
        \/ Replaces(kept, new, records')
    BY <2>2, <2>3, RememberCases
  <2>5. \A s \in Kept : s \in Record
    BY <2>3, StoredType
  <2>6. now \in Nat
    BY <1>1 DEF IInv, Typed
  <2>7. ASSUME NEW s \in Record, s.last = now
        PROVE  ~IsStale(s, now)
    BY <2>6, <2>7 DEF IsStale, Record
  <2>8. ASSUME NEW s \in Stored(records')
        PROVE  ~IsStale(s, now)
    <3>1. s \in Kept \/ s = new \/ \E t \in Kept : s = Updated(t, new)
      BY <2>3, <2>4, <2>8 DEF Updates, Appends, Refuses, Replaces
    <3>2. \A t \in Kept : Updated(t, new) \in Record /\ Updated(t, new).last = now
      BY <2>3, <2>5, UpdatedType
    <3> QED  BY <2>3, <2>7, <3>1, <3>2
  <2>9. ASSUME Gone(r), ~IsStale(r, now)
        PROVE  /\ Cardinality(Kept) = Capacity
               /\ \A s \in (Kept \cup New) \ {r} : Before(s, r)
    <3> DEFINE w == CandidateIndex(kept, new)
    <3>1. r \in Kept
      BY <1>1, <2>9
    <3>2. Replaces(kept, new, records')
      <4>1. ~Updates(kept, new, records')
        <5> SUFFICES ASSUME Updates(kept, new, records')
                     PROVE  FALSE
          OBVIOUS
        <5>1. PICK t \in Kept : /\ t.source = new.source
                                /\ Stored(records') = (Kept \ {t}) \cup {Updated(t, new)}
          BY <2>3 DEF Updates
        <5>2. Updated(t, new).source = t.source
          BY <2>3, <2>5, UpdatedType
        <5> QED  BY <2>9, <3>1, <5>1, <5>2
      <4>2. ~Appends(kept, new, records') /\ ~Refuses(kept, new, records')
        BY <2>3, <2>9, <3>1 DEF Appends, Refuses
      <4> QED  BY <2>4, <4>1, <4>2
    <3>3. /\ Len(kept) = Capacity /\ w \in 1..Len(kept)
          /\ Stored(records') = (Kept \ {kept[w]}) \cup {new}
          /\ \A t \in Kept : t.source # new.source
      BY <2>3, <3>2 DEF Replaces, Unknown
    <3>4. r = kept[w]
      BY <2>9, <3>1, <3>3
    <3>5. New = {new}
      BY <3>3
    <3>6. Cardinality(Kept) = Capacity
      BY <2>3, <3>3, CountRecords, Zenon
    <3>7. Coherent(Stored(kept)) /\ \A s \in Kept : Consistent(AsSnapshot(new), AsSnapshot(s))
      BY <1>1, <2>3, <3>5 DEF Coherent
    <3>8. /\ BetterThan(new, r)
          /\ \A j \in 1..Len(kept) : j # w /\ BetterThan(new, kept[j]) => Before(kept[j], r)
      <4> HIDE DEF w
      <4>1. w # 0
        BY <3>3
      <4> QED  BY <2>3, <3>4, <3>7, <4>1, CandidateWorst, Zenon DEF w
    <3>9. Before(new, r)
      BY <2>3, <2>5, <3>1, <3>7, <3>8, RecordsRank
    <3>10. ASSUME NEW s \in Kept, s # r
           PROVE  Before(s, r)
      <4>1. PICK j \in 1..Len(kept) : s = kept[j]
        BY <2>3 DEF Stored
      <4>2. j # w
        BY <3>4, <3>10, <4>1
      <4>3. CASE BetterThan(new, s)
        BY <3>8, <4>1, <4>2, <4>3
      <4>4. CASE ~BetterThan(new, s)
        <5>1. Before(s, new)
          BY <2>3, <2>5, <3>3, <3>7, <4>4, RecordsRank
        <5> QED  BY <2>3, <2>5, <3>1, <3>9, <5>1, RecordsRank
      <4> QED  BY <4>3, <4>4
    <3> QED  BY <3>5, <3>6, <3>9, <3>10
  <2> QED  BY <2>8, <2>9
<1>2. IInv /\ [Next]_vars => [EvictsWorst]_vars
  BY <1>1, Zenon DEF EvictsWorst
<1> QED  BY <1>2, Invariance, PTL DEF Spec, OnlyWorstEvicted
=============================================================================
