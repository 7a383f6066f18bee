-------------------------------- MODULE Bmca --------------------------------
(***************************************************************************)
(* The best master clock algorithm (bmca.rs): E_best over the ports of the *)
(* clock, and the state decision it recommends for one port.               *)
(***************************************************************************)
EXTENDS ClockDataset

CONSTANTS N,     \* number of ports
          D0     \* default_ds, the local data set

ASSUME BmcaAssumption == N \in Nat \ {0} /\ D0 \in ClockDS

Ports == 1..N

Nothing == [tracks |-> FALSE]

\* Seeded fault: the loop keeps the last qualified candidate.
BestKeepsLast(candidates) ==
  LET best[i \in 0..N] ==
        IF i = 0 THEN Empty
        ELSE IF candidates[i].qualified THEN candidates[i] ELSE best[i - 1]
  IN best[N]

\* MultiPortForeignCandidates::best, the loop over the ports in order.
Best(candidates) ==
  LET best[i \in 0..N] ==
        IF i = 0 THEN Empty
        ELSE IF SnapshotBetter(candidates[i], best[i - 1])
             THEN candidates[i] ELSE best[i - 1]
  IN best[N]

(***************************************************************************)
(* The decision of BestMasterClockAlgorithm for port p.                    *)
(***************************************************************************)
MasterDecision(ds) == [kind |-> "Master", tracks |-> ds]
SlaveDecision(parent) == [kind |-> "Slave", tracks |-> parent]
PassiveDecision == [kind |-> "Passive", tracks |-> Nothing]

\* QualifiedForeignSnapshot: parent_if_received_on_port, is_better_by_topology,
\* into_grandmaster_ds
ReceivedOn(e_best, p) == e_best.receiver.port = p
OnlyByTopology(e_best, e_rbest) == e_rbest.qualified /\ IsBetterByTopology(e_best, e_rbest)
GrandmasterDS(e_best) == WithAddedStep(e_best.ds)

\* M1 / P1
AuthoritativeDecision(e_rbest) ==
  IF LocalBetter(D0, e_rbest) THEN MasterDecision(D0) ELSE PassiveDecision

\* Seeded fault: the parent is taken from the receiving end of the topology.
DecisionNamesReceiver(p, e_best, e_rbest) ==
  IF LocalBetter(D0, e_best) THEN MasterDecision(D0)
  ELSE IF ReceivedOn(e_best, p) THEN SlaveDecision(e_best.receiver)
  ELSE IF OnlyByTopology(e_best, e_rbest)
       THEN PassiveDecision
       ELSE MasterDecision(GrandmasterDS(e_best))

\* Seeded fault: every port that hears a master becomes a slave.
DecisionIgnoresReceiver(p, e_best, e_rbest) ==
  IF LocalBetter(D0, e_best) THEN MasterDecision(D0)
  ELSE IF e_rbest.qualified THEN SlaveDecision(e_best.source)
  ELSE MasterDecision(GrandmasterDS(e_best))

\* M2, S1, P2 / M3
NonAuthoritativeDecision(p, e_best, e_rbest) ==
  IF LocalBetter(D0, e_best) THEN MasterDecision(D0)
  ELSE IF ReceivedOn(e_best, p) THEN SlaveDecision(e_best.source)
  ELSE IF OnlyByTopology(e_best, e_rbest)
       THEN PassiveDecision
       ELSE MasterDecision(GrandmasterDS(e_best))

Decision(p, e_best, e_rbest) ==
  IF IsAuthoritative(D0) THEN AuthoritativeDecision(e_rbest)
                         ELSE NonAuthoritativeDecision(p, e_best, e_rbest)
=============================================================================
