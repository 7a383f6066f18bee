------------------------- MODULE ClockDatasetProofs -------------------------
(***************************************************************************)
(* The data set comparison ranks: on received data sets it is the          *)
(* lexicographic order RanksBefore, a strict order that leaves no two      *)
(* different sources or receiving ports tied.                              *)
(*                                                                         *)
(* The best of several data sets is found by a scan, a recursive function  *)
(* over the positions: the lemmas at the end say that such a function      *)
(* exists and carry a fact along it.                                       *)
(***************************************************************************)
EXTENDS ClockDataset, Sequences, WellFoundedInduction, TLAPS

\* SaturatingInc stays in range and never decreases.
LEMMA IncType ==
  ASSUME NEW n \in 0..MaxSteps
  PROVE  /\ SaturatingInc(n) \in 0..MaxSteps
         /\ SaturatingInc(n) >= n
         /\ \A m \in 0..MaxSteps : m > n => m >= SaturatingInc(n)
  BY MaxStepsAssumption DEF SaturatingInc

\* Different grandmasters are always told apart by their attributes.
LEMMA AttributesTotal ==
  ASSUME NEW a \in ClockDS, NEW b \in ClockDS
  PROVE  /\ a.identity # b.identity => AttributesLess(a, b) \/ AttributesLess(b, a)
         /\ ~(AttributesLess(a, b) /\ AttributesLess(b, a))
  BY DEF ClockDS, AttributesLess

LEMMA AttributesTransitive ==
  ASSUME NEW a \in ClockDS, NEW b \in ClockDS, NEW c \in ClockDS
  PROVE  /\ AttributesLess(a, b) /\ ~AttributesLess(c, b) => AttributesLess(a, c)
         /\ ~AttributesLess(b, a) /\ AttributesLess(b, c) => AttributesLess(a, c)
         /\ ~AttributesLess(b, a) /\ ~AttributesLess(c, b) => ~AttributesLess(c, a)
  BY DEF ClockDS, AttributesLess

LEMMA IdentitiesOrdered ==
  ASSUME NEW p \in PortIdentity, NEW q \in PortIdentity, NEW r \in PortIdentity
  PROVE  /\ PortIdentityLess(p, q) \/ PortIdentityLess(q, p) \/ p = q
         /\ ~(PortIdentityLess(p, q) /\ PortIdentityLess(q, p))
         /\ ~PortIdentityLess(p, p)
         /\ PortIdentityLess(p, q) /\ PortIdentityLess(q, r) => PortIdentityLess(p, r)
  BY DEF PortIdentity, PortIdentityLess

\* The comparison of two received data sets (steps first, then the topology of
\* the two paths) is the lexicographic ranking, at the saturation of
\* stepsRemoved too, whenever the attributes of a grandmaster are the same on
\* both paths and neither data set was sent by the port that received it.
THEOREM ComparisonRanks ==
  ASSUME NEW a \in QualifiedSnapshot, NEW b \in QualifiedSnapshot,
         Consistent(a, b), ProperTopology(a), ProperTopology(b)
  PROVE  IsBetterOrBetterByTopology(a, b) <=> RanksBefore(a, b)
<1>0. /\ a.ds \in ClockDS /\ b.ds \in ClockDS
      /\ a.source \in PortIdentity /\ b.source \in PortIdentity
      /\ a.receiver \in PortIdentity /\ b.receiver \in PortIdentity
      /\ a.ds.steps \in 0..MaxSteps /\ b.ds.steps \in 0..MaxSteps
      /\ a.receiver.port \in Nat /\ b.receiver.port \in Nat
  BY DEF QualifiedSnapshot, ClockDS, PortIdentity
<1>1. CASE a.ds.identity # b.ds.identity
  <2>1. AttributesLess(a.ds, b.ds) <=> ~AttributesLess(b.ds, a.ds)
    BY <1>0, <1>1, AttributesTotal
  <2> QED
    BY <1>1, <2>1 DEF IsBetterOrBetterByTopology, Compare, RanksBefore
<1>2. CASE a.ds.identity = b.ds.identity
  <2>1. ~AttributesLess(a.ds, b.ds) /\ ~AttributesLess(b.ds, a.ds)
    BY <1>0, <1>2 DEF Consistent, AttributesLess, ClockDS
  <2>2. CASE a.ds.steps < b.ds.steps
    <3>1. ~StepsWorse(a.ds.steps, b.ds.steps)
      BY <1>0, <2>2, IncType, MaxStepsAssumption DEF StepsWorse
    <3>2. TopologyOrdering(a, b) \in {"Better", "BetterByTopology"}
      BY <2>2 DEF TopologyOrdering, ProperTopology
    <3> QED
      BY <1>2, <2>1, <2>2, <3>1, <3>2
      DEF IsBetterOrBetterByTopology, Compare, RanksBefore
  <2>3. CASE a.ds.steps > b.ds.steps
    <3>1. ~StepsBetter(a.ds.steps, b.ds.steps)
      BY <1>0, <2>3, IncType, MaxStepsAssumption DEF StepsBetter
    <3>2. TopologyOrdering(a, b) \in {"Worse", "WorseByTopology"}
      BY <1>0, <2>3 DEF TopologyOrdering, ProperTopology
    <3>3. ~(a.ds.steps < b.ds.steps) /\ a.ds.steps # b.ds.steps
      BY <1>0, <2>3
    <3> QED
      BY <1>2, <2>1, <3>1, <3>2, <3>3
      DEF IsBetterOrBetterByTopology, Compare, RanksBefore
  <2>4. CASE a.ds.steps = b.ds.steps
    <3>1. ~StepsBetter(a.ds.steps, b.ds.steps) /\ ~StepsWorse(a.ds.steps, b.ds.steps)
      BY <1>0, <2>4, IncType, MaxStepsAssumption DEF StepsBetter, StepsWorse
    <3>2. ~(a.ds.steps < b.ds.steps) /\ ~(a.ds.steps > b.ds.steps)
      BY <1>0, <2>4
    <3>3. TopologyOrdering(a, b) \in {"Better", "BetterByTopology"} <=>
            \/ PortIdentityLess(a.source, b.source)
            \/ a.source = b.source /\ a.receiver.port < b.receiver.port
      BY <1>0, <3>2, IdentitiesOrdered DEF TopologyOrdering
    <3> QED
      BY <1>2, <2>1, <2>4, <3>1, <3>2, <3>3
      DEF IsBetterOrBetterByTopology, Compare, RanksBefore
  <2> QED
    BY <1>0, <2>2, <2>3, <2>4
<1> QED
  BY <1>1, <1>2

\* The ranking is a strict order, total but for data sets of the same source
\* heard on the same port: the best of several does not depend on the order in
\* which they are compared.
THEOREM RankingIsStrictOrder ==
  ASSUME NEW a \in QualifiedSnapshot, NEW b \in QualifiedSnapshot,
         NEW c \in QualifiedSnapshot
  PROVE  /\ ~RanksBefore(a, a)
         /\ RanksBefore(a, b) /\ RanksBefore(b, c) => RanksBefore(a, c)
         /\ (a.source # b.source \/ a.receiver.port # b.receiver.port) =>
              RanksBefore(a, b) \/ RanksBefore(b, a)
<1>0. /\ \A x \in {a, b, c} : /\ x.ds \in ClockDS
                              /\ x.source \in PortIdentity
                              /\ x.ds.steps \in 0..MaxSteps
                              /\ x.receiver.port \in Nat
  BY DEF QualifiedSnapshot, ClockDS, PortIdentity
<1>1. ~RanksBefore(a, a)
  BY <1>0, IdentitiesOrdered, AttributesTotal, MaxStepsAssumption DEF RanksBefore
<1>2. ASSUME RanksBefore(a, b), RanksBefore(b, c) PROVE RanksBefore(a, c)
  <2>1. /\ ~AttributesLess(b.ds, a.ds) /\ ~AttributesLess(c.ds, b.ds)
    BY <1>0, <1>2, AttributesTotal DEF RanksBefore
  <2>2. CASE AttributesLess(a.ds, b.ds) \/ AttributesLess(b.ds, c.ds)
    <3>1. AttributesLess(a.ds, c.ds)
      BY <1>0, <2>1, <2>2, AttributesTransitive
    <3> QED
      BY <3>1 DEF RanksBefore
  <2>3. CASE ~AttributesLess(a.ds, b.ds) /\ ~AttributesLess(b.ds, c.ds)
    <3>1. ~AttributesLess(c.ds, a.ds)
      BY <1>0, <2>1, AttributesTransitive
    <3>2. \/ a.ds.steps < c.ds.steps
          \/ /\ a.ds.steps = c.ds.steps
             /\ \/ PortIdentityLess(a.source, c.source)
                \/ a.source = c.source /\ a.receiver.port < c.receiver.port
      <4>1. /\ \/ a.ds.steps < b.ds.steps
               \/ /\ a.ds.steps = b.ds.steps
                  /\ \/ PortIdentityLess(a.source, b.source)
                     \/ a.source = b.source /\ a.receiver.port < b.receiver.port
            /\ \/ b.ds.steps < c.ds.steps
               \/ /\ b.ds.steps = c.ds.steps
                  /\ \/ PortIdentityLess(b.source, c.source)
                     \/ b.source = c.source /\ b.receiver.port < c.receiver.port
        BY <1>2, <2>3 DEF RanksBefore
      <4> QED
        BY <1>0, <4>1, IdentitiesOrdered, MaxStepsAssumption
    <3> QED
      BY <3>1, <3>2 DEF RanksBefore
  <2> QED
    BY <2>2, <2>3
<1>3. ASSUME a.source # b.source \/ a.receiver.port # b.receiver.port
      PROVE  RanksBefore(a, b) \/ RanksBefore(b, a)
  BY <1>0, <1>3, IdentitiesOrdered, MaxStepsAssumption DEF RanksBefore
<1> QED
  BY <1>1, <1>2, <1>3

----------------------------------------------------------------------------
(* Scans. *)

Less == {pair \in Nat \X Nat : pair[1] < pair[2]}

\* A set of naturals has a least element.
LEMMA LeastElement ==
  ASSUME NEW T \in SUBSET Nat, T # {}
  PROVE  \E x \in T : \A y \in T : x <= y
<1>0. IsWellFoundedOn(Less, Nat)
  BY NatLessThanWellFounded, Zenon DEF OpToRel, Less
<1>1. PICK x \in T : \A y \in T : ~(<<y, x>> \in Less)
  BY <1>0, WFMin
<1>2. ASSUME NEW y \in T
      PROVE  x <= y
  <2>1. x \in Nat /\ y \in Nat /\ <<y, x>> \notin Less
    BY <1>1
  <2>2. ~(y < x)
    BY <2>1 DEF Less
  <2> QED  BY <2>1, <2>2
<1> QED  BY <1>2

\* Induction up to n, over the set of the numbers for which a fact holds.
LEMMA Induction ==
  ASSUME NEW n \in Nat, NEW P, 0 \in P, \A i \in 1..n : i - 1 \in P => i \in P
  PROVE  \A i \in 0..n : i \in P
<1> SUFFICES ASSUME NEW k \in 0..n, k \notin P
             PROVE  FALSE
  OBVIOUS
<1> DEFINE T == {i \in 0..n : i \notin P}
<1>1. T \in SUBSET Nat /\ T # {}
  OBVIOUS
<1>2. PICK x \in T : \A y \in T : x <= y
  BY <1>1, LeastElement
<1>3. x # 0 /\ x \in 1..n /\ x - 1 \notin T
  BY <1>2
<1> QED  BY <1>2, <1>3

\* f goes from c at 0 through positions 1 to n by g.
Scans(f, n, D, c, g) ==
  /\ f \in [0..n -> D]
  /\ f[0] = c
  /\ \A i \in 1..n : f[i] = g[<<i, f[i - 1]>>]

LEMMA ScanExists ==
  ASSUME NEW n \in Nat, NEW D, NEW c \in D, NEW g \in [(1..n) \X D -> D]
  PROVE  \E f : Scans(f, n, D, c, g)
<1> DEFINE P == {m \in 0..n : \E f : Scans(f, m, D, c, g)}
<1>1. 0 \in P
  <2> DEFINE h == [i \in 0..0 |-> c]
  <2>1. h \in [0..0 -> D] /\ h[0] = c /\ \A i \in 1..0 : h[i] = g[<<i, h[i - 1]>>]
    OBVIOUS
  <2> HIDE DEF h
  <2> QED  BY <2>1 DEF Scans
<1>2. ASSUME NEW m \in 1..n, m - 1 \in P
      PROVE  m \in P
  <2>1. PICK f : Scans(f, m - 1, D, c, g)
    BY <1>2
  <2>2. /\ f \in [0..m-1 -> D] /\ f[0] = c
        /\ \A i \in 1..(m - 1) : f[i] = g[<<i, f[i - 1]>>]
    BY <2>1 DEF Scans
  <2> DEFINE h == [i \in 0..m |-> IF i = m THEN g[<<m, f[m - 1]>>] ELSE f[i]]
  <2>3. h \in [0..m -> D] /\ h[0] = c
    BY <2>2
  <2>4. ASSUME NEW i \in 1..m
        PROVE  h[i] = g[<<i, h[i - 1]>>]
    <3>1. CASE i = m
      <4>1. h[m] = g[<<m, f[m - 1]>>] /\ h[m - 1] = f[m - 1]
        OBVIOUS
      <4> QED  BY <3>1, <4>1
    <3>2. CASE i # m
      <4>1. i \in 1..(m - 1) /\ h[i] = f[i] /\ h[i - 1] = f[i - 1]
        BY <3>2
      <4> QED  BY <4>1, <2>2
    <3> QED  BY <3>1, <3>2
  <2>5. Scans(h, m, D, c, g)
    <3> HIDE DEF h
    <3> QED  BY <2>3, <2>4 DEF Scans
  <2> QED  BY <2>5
<1>3. n \in P
  <2> HIDE DEF P
  <2> QED  BY <1>1, <1>2, Induction
<1> QED  BY <1>3

\* A function on the positions that goes from c by g scans.
LEMMA ScanTyped ==
  ASSUME NEW n \in Nat, NEW D, NEW c \in D, NEW g \in [(1..n) \X D -> D],
         NEW h, h = [i \in 0..n |-> h[i]], h[0] = c,
         \A i \in 1..n : h[i - 1] \in D => h[i] = g[<<i, h[i - 1]>>]
  PROVE  Scans(h, n, D, c, g)
<1> DEFINE P == {i \in 0..n : h[i] \in D}
<1>1. 0 \in P
  OBVIOUS
<1>2. ASSUME NEW i \in 1..n, i - 1 \in P
      PROVE  i \in P
  <2>1. i \in 0..n /\ h[i - 1] \in D
    BY <1>2
  <2> QED  BY <2>1
<1>3. \A i \in 0..n : i \in P
  <2> HIDE DEF P
  <2> QED  BY <1>1, <1>2, Induction
<1>4. \A i \in 0..n : h[i] \in D
  BY <1>3
<1>5. h \in [0..n -> D]
  BY <1>4
<1>6. ASSUME NEW i \in 1..n
      PROVE  h[i] = g[<<i, h[i - 1]>>]
  <2>1. i - 1 \in 0..n
    OBVIOUS
  <2> QED  BY <1>4, <2>1
<1> QED  BY <1>5, <1>6 DEF Scans

LEMMA SameSequence ==
  ASSUME NEW S, NEW s \in Seq(S), NEW t \in Seq(S), Len(s) = Len(t),
         \A i \in 1..Len(s) : s[i] = t[i]
  PROVE  s = t
<1>1. s \in [1..Len(s) -> S] /\ t \in [1..Len(s) -> S]
  OBVIOUS
<1> QED  BY <1>1
=============================================================================
