---------------------------- MODULE ClockDataset ----------------------------
(***************************************************************************)
(* The data set comparison of the best master clock algorithm              *)
(* (dataset.rs) and the snapshots it compares (foreign.rs).                *)
(*                                                                         *)
(* A clock data set keeps the attributes the comparison tells apart.  The  *)
(* clock quality is its clock class: accuracy and variance are two more    *)
(* components of the same lexicographic tuple.  Identities are numbers,    *)
(* ordered as the code orders their bytes.                                 *)
(***************************************************************************)
EXTENDS Integers

CONSTANT MaxSteps    \* the largest stepsRemoved, u16::MAX in the code

ASSUME MaxStepsAssumption == MaxSteps \in Nat

PortIdentity == [clock : Nat, port : Nat]

ClockDS == [identity : Nat, priority1 : Nat, class : Nat, priority2 : Nat,
            steps : 0..MaxSteps]

\* BestForeignSnapshot: `E_best' and `E_rbest', a qualified foreign data set
\* with its topology, or the empty data set.
Empty == [qualified |-> FALSE]

Qualified(ds, source, receiver) ==
  [qualified |-> TRUE, ds |-> ds, source |-> source, receiver |-> receiver]

QualifiedSnapshot == [qualified : {TRUE}, ds : ClockDS,
                      source : PortIdentity, receiver : PortIdentity]

----------------------------------------------------------------------------

PortIdentityLess(p, q) ==
  \/ p.clock < q.clock
  \/ p.clock = q.clock /\ p.port < q.port

\* ClockDS::is_authoritative: clock class 1 to 127.
IsAuthoritative(ds) == ds.class \in 1..127

SaturatingInc(n) == IF n < MaxSteps THEN n + 1 ELSE n

WithAddedStep(ds) == [ds EXCEPT !.steps = SaturatingInc(@)]

\* The tuple (priority1, quality, priority2, identity), smaller is better.
AttributesLess(a, b) ==
  \/ a.priority1 < b.priority1
  \/ /\ a.priority1 = b.priority1
     /\ \/ a.class < b.class
        \/ /\ a.class = b.class
           /\ \/ a.priority2 < b.priority2
              \/ a.priority2 = b.priority2 /\ a.identity < b.identity

\* StepsRemoved::compare: decided only when more than one step apart.
StepsBetter(a, b) == SaturatingInc(a) < b
StepsWorse(a, b) == a > SaturatingInc(b)

\* Topology::compare, after a stepsRemoved comparison that left a tie-break.
TopologyOrdering(a, b) ==
  IF a.ds.steps < b.ds.steps
  THEN IF PortIdentityLess(b.receiver, b.source) THEN "Better"
       ELSE IF b.receiver = b.source THEN "Error1" ELSE "BetterByTopology"
  ELSE IF a.ds.steps > b.ds.steps
  THEN IF PortIdentityLess(a.receiver, a.source) THEN "Worse"
       ELSE IF a.receiver = a.source THEN "Error1" ELSE "WorseByTopology"
  ELSE IF PortIdentityLess(a.source, b.source) THEN "BetterByTopology"
  ELSE IF a.source # b.source THEN "WorseByTopology"
  ELSE IF a.receiver.port < b.receiver.port THEN "BetterByTopology"
  ELSE IF a.receiver.port > b.receiver.port THEN "WorseByTopology"
  ELSE "Error2"

\* ClockDS::compare, and the tie-break when the grandmaster is the same.
Compare(a, b) ==
  IF a.ds.identity = b.ds.identity
  THEN IF StepsBetter(a.ds.steps, b.ds.steps) THEN "Better"
       ELSE IF StepsWorse(a.ds.steps, b.ds.steps) THEN "Worse"
       ELSE TopologyOrdering(a, b)
  ELSE IF AttributesLess(a.ds, b.ds) THEN "Better" ELSE "Worse"

IsBetterOrBetterByTopology(a, b) == Compare(a, b) \in {"Better", "BetterByTopology"}

\* Better by the topology tie-break alone.  Compare answers "BetterByTopology"
\* only from the tie-break.
IsBetterByTopology(a, b) == Compare(a, b) = "BetterByTopology"

\* BestForeignSnapshot::is_better_or_better_by_topology
SnapshotBetter(a, b) ==
  a.qualified /\ (b.qualified => IsBetterOrBetterByTopology(a, b))

\* TopologyDS::local: the local data set is its own sender and receiver, port 0.
LocalDS(ds) ==
  LET self == [clock |-> ds.identity, port |-> 0] IN Qualified(ds, self, self)

\* LocalDS::is_better_or_better_by_topology: the local data set wins.
LocalBetter(d_0, e) == SnapshotBetter(LocalDS(d_0), e)

----------------------------------------------------------------------------
(***************************************************************************)
(* The reference order: the IEEE 1588 ranking of two received data sets as *)
(* one lexicographic key.  Attributes that travel with a grandmaster       *)
(* identity are the same on every path (Consistent), and no port hears its *)
(* own Announce (ProperTopology).                                          *)
(***************************************************************************)
Consistent(a, b) ==
  a.ds.identity = b.ds.identity =>
    /\ a.ds.priority1 = b.ds.priority1
    /\ a.ds.class = b.ds.class
    /\ a.ds.priority2 = b.ds.priority2

ProperTopology(a) == a.source # a.receiver

RanksBefore(a, b) ==
  \/ AttributesLess(a.ds, b.ds)
  \/ /\ ~AttributesLess(b.ds, a.ds)
     /\ \/ a.ds.steps < b.ds.steps
        \/ /\ a.ds.steps = b.ds.steps
           /\ \/ PortIdentityLess(a.source, b.source)
              \/ a.source = b.source /\ a.receiver.port < b.receiver.port
=============================================================================
