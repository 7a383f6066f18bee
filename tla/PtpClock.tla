------------------------------ MODULE PtpClock ------------------------------
(***************************************************************************)
(* A PTP clock: N port state machines that share one best master decision. *)
(* N = 1 is the ordinary clock, N > 1 the boundary clock.                  *)
(*                                                                         *)
(* Every port owns a state (portstate.rs), a BMCA role decorator that      *)
(* tracks a parent or a grandmaster (bmca.rs), the best foreign master it  *)
(* hears (foreign.rs), a timeout of its state (profile.rs), and a FIFO of  *)
(* system messages (the daemon's channel, node.rs).  A change of a port's  *)
(* best foreign master is broadcast to every port as a state decision      *)
(* event that carries E_best, and each port applies it when it gets there. *)
(*                                                                         *)
(* A handler runs to completion: the daemon is single threaded.            *)
(***************************************************************************)
EXTENDS Bmca, Sequences

CONSTANTS Foreign,       \* the [ds, source] a port may come to rank best
          MaxQueue,      \* bound on a port's system messages
          FaultsClear    \* whether the host ever delivers FaultCleared

\* What BestForeignRecord::snapshot may return on port p.
OnPort(p) ==
  {Qualified(f.ds, f.source, [clock |-> D0.identity, port |-> p]) : f \in Foreign}
    \cup {Empty}

Snapshots == UNION {OnPort(p) : p \in Ports}

ASSUME PtpClockAssumption ==
  /\ Foreign \subseteq [ds : ClockDS, source : PortIdentity]
  /\ MaxQueue \in Nat
  /\ FaultsClear \in BOOLEAN

VARIABLES
  state,          \* the PortState variant of each port
  tracked,        \* what its BMCA decorator tracks: a parent, a grandmaster
  best_foreign,   \* e_rbest, what BestForeignRecord::snapshot returns
  previous,       \* StateDecisionEventTrigger::previous_best_foreign
  by_port,        \* MultiPortForeignCandidates, Empty for no entry
  timer,          \* the armed announce receipt or qualification timeout
  queue,          \* system messages sent and not yet handled
  mark            \* how many of them were there when timer was restarted

vars == <<state, tracked, best_foreign, previous, by_port, timer, queue, mark>>

----------------------------------------------------------------------------

States == {"Initializing", "Listening", "PreMaster", "Master", "Uncalibrated",
           "Slave", "Passive", "Faulty", "Panicked"}

\* States that hold an announce receipt timeout.
AnnounceReceivers == {"Listening", "Uncalibrated", "Slave", "Passive"}

SlaveStates == {"Uncalibrated", "Slave"}
MasterStates == {"PreMaster", "Master"}

\* States that process an Announce and a state decision event.
Deciding == AnnounceReceivers \cup MasterStates

NoTimer == "None"

ART == [kind |-> "AnnounceReceiptTimeout"]
QT == [kind |-> "QualificationTimeout"]
SDE(e_best) == [kind |-> "StateDecisionEvent", e_best |-> e_best]

\* The role decorators of bmca.rs withhold a decision that repeats what they
\* track and, in Listening, any decision while no qualified master is heard.
ListeningWithholds(p) == state[p] = "Listening" /\ ~best_foreign[p].qualified

GrandMasterTracked(p, d) ==
  state[p] \in MasterStates /\ d.kind = "Master" /\ d.tracks = tracked[p]

ParentTracked(p, d) ==
  state[p] \in SlaveStates /\ d.kind = "Slave" /\ d.tracks = tracked[p]

PassiveAlready(p, d) == state[p] = "Passive" /\ d.kind = "Passive"

\* Seeded fault: a listening port withholds the recommendation to be master.
SuppressedInListening(p, d) ==
  \/ state[p] = "Listening" /\ d.kind = "Master"
  \/ GrandMasterTracked(p, d)
  \/ ParentTracked(p, d)
  \/ PassiveAlready(p, d)

Suppressed(p, d) ==
  \/ ListeningWithholds(p)
  \/ GrandMasterTracked(p, d)
  \/ ParentTracked(p, d)
  \/ PassiveAlready(p, d)

----------------------------------------------------------------------------
(***************************************************************************)
(* Building blocks of the handlers.                                        *)
(***************************************************************************)

\* Seeded fault: a timeout dropped with its state is not cancelled.
EnterKeepsTimer(p, s, t, m) ==
  /\ state' = [state EXCEPT ![p] = s]
  /\ tracked' = [tracked EXCEPT ![p] = t]
  /\ timer' = IF m = NoTimer THEN timer ELSE [timer EXCEPT ![p] = m]

\* PortProfile: enter state s, tracking t, holding the timeout m.  The timeout
\* of the state left behind is dropped with it, which cancels it.
Enter(p, s, t, m) ==
  /\ state' = [state EXCEPT ![p] = s]
  /\ tracked' = [tracked EXCEPT ![p] = t]
  /\ timer' = [timer EXCEPT ![p] = m]

\* PortState::apply on a decision the state cannot take.
Panic(p) == Enter(p, "Panicked", Nothing, NoTimer)

\* A timeout of port p restarts while its queue is q.
RestartedAt(p, q) == mark' = [mark EXCEPT ![p] = Len(q)]

Popped(p) == [queue EXCEPT ![p] = Tail(@)]

\* The next message of port p is of this kind.
Receives(p, kind) == queue[p] # <<>> /\ Head(queue[p]).kind = kind

\* Port p took a message: one less of those queued at the restart is left.
MarkPopped(p) == mark' = [mark EXCEPT ![p] = IF @ > 0 THEN @ - 1 ELSE 0]

\* The bound on the queues, a guard of the environment's steps only.
Room == \A p \in Ports : Len(queue[p]) < MaxQueue

\* PortNotification::notify_all, on queues q.
NotifyAll(q, e_best) == [r \in Ports |-> Append(q[r], SDE(e_best))]

\* Seeded fault: the ports are notified before the candidate is recorded.
TriggerNotifiesFirst(p, e_rbest, q) ==
  /\ previous' = [previous EXCEPT ![p] = e_rbest]
  /\ by_port' = [by_port EXCEPT ![p] = e_rbest]
  /\ queue' = NotifyAll(q, Best(by_port))

\* StateDecisionEvent::trigger: record what port p hears, notify every port.
\* q is the queue of each port before the notification.
Trigger(p, e_rbest, q) ==
  /\ previous' = [previous EXCEPT ![p] = e_rbest]
  /\ by_port' = [by_port EXCEPT ![p] = e_rbest]
  /\ queue' = NotifyAll(q, Best(by_port'))

\* StateDecisionEventTrigger::gated_trigger
GatedTrigger(p, e_rbest) ==
  IF e_rbest = previous[p]
  THEN UNCHANGED <<previous, by_port, queue>>
  ELSE Room /\ Trigger(p, e_rbest, queue)

----------------------------------------------------------------------------
(***************************************************************************)
(* The handlers.                                                           *)
(***************************************************************************)

\* SystemMessage::Initialized
Initialized(p) ==
  /\ state[p] = "Initializing"
  /\ Enter(p, "Listening", Nothing, ART.kind)
  /\ RestartedAt(p, queue[p])
  /\ UNCHANGED <<best_foreign, previous, by_port, queue>>

\* An Announce arrives on port p: process_announce of its state restarts the
\* announce receipt timeout where there is one; Bmca::consider updates the
\* port's records, so that they rank e best, and triggers a state decision
\* event if that changed.  An Announce that is not fed to the BMCA (its
\* interval is out of range) leaves e as it was.
Announce(p) ==
  /\ state[p] \in Deciding
  /\ IF state[p] \in AnnounceReceivers
     THEN /\ timer' = [timer EXCEPT ![p] = ART.kind]
          /\ RestartedAt(p, queue[p])
     ELSE UNCHANGED <<timer, mark>>
  /\ \E e \in OnPort(p) :
       /\ best_foreign' = [best_foreign EXCEPT ![p] = e]
       /\ GatedTrigger(p, e)
  /\ UNCHANGED <<state, tracked>>

\* The transitions of PortState::apply on a recommendation.
RecommendedSlave(p, parent) == Enter(p, "Uncalibrated", parent, ART.kind)

RecommendedMaster(p, grandmaster) == Enter(p, "PreMaster", grandmaster, QT.kind)

RecommendedPassive(p) ==
  IF state[p] = "Passive" THEN Panic(p) ELSE Enter(p, "Passive", Nothing, ART.kind)

\* SystemMessage::StateDecisionEvent
HandleStateDecisionEvent(p) ==
  /\ Receives(p, "StateDecisionEvent")
  /\ queue' = Popped(p)
  /\ LET d == Decision(p, Head(queue[p]).e_best, best_foreign[p]) IN
       IF state[p] \notin Deciding \/ Suppressed(p, d)
       THEN MarkPopped(p) /\ UNCHANGED <<state, tracked, timer>>
       ELSE /\ RestartedAt(p, Tail(queue[p]))
            /\ \/ d.kind = "Slave" /\ RecommendedSlave(p, d.tracks)
               \/ d.kind = "Master" /\ RecommendedMaster(p, d.tracks)
               \/ d.kind = "Passive" /\ RecommendedPassive(p)
  /\ UNCHANGED <<best_foreign, previous, by_port>>

\* Seeded fault: an uncalibrated port ignores its announce receipt timeout.
ReceiptIgnoredUncalibrated(p) ==
  /\ Receives(p, "AnnounceReceiptTimeout")
  /\ IF state[p] \in AnnounceReceivers \ {"Uncalibrated"}
     THEN /\ Trigger(p, best_foreign[p], Popped(p))
          /\ Enter(p, "Master", D0, NoTimer)
     ELSE /\ UNCHANGED <<state, tracked, timer, previous, by_port>>
          /\ queue' = Popped(p)
  /\ MarkPopped(p)
  /\ UNCHANGED best_foreign

\* SystemMessage::AnnounceReceiptTimeout: dispatch_system takes it in Master
\* too, where apply has no transition for it.
HandleAnnounceReceiptTimeout(p) ==
  /\ Receives(p, "AnnounceReceiptTimeout")
  /\ IF state[p] \in AnnounceReceivers
     THEN /\ Trigger(p, best_foreign[p], Popped(p))
          /\ Enter(p, "Master", D0, NoTimer)
     ELSE /\ IF state[p] = "Master" THEN Panic(p)
             ELSE UNCHANGED <<state, tracked, timer>>
          /\ queue' = Popped(p)
          /\ UNCHANGED <<previous, by_port>>
  /\ MarkPopped(p)
  /\ UNCHANGED best_foreign

\* Seeded fault: the qualification timeout is taken from the queue and ignored.
QualificationIgnored(p) ==
  /\ Receives(p, "QualificationTimeout")
  /\ queue' = Popped(p)
  /\ MarkPopped(p)
  /\ UNCHANGED <<state, tracked, timer, best_foreign, previous, by_port>>

\* SystemMessage::QualificationTimeout
HandleQualificationTimeout(p) ==
  /\ Receives(p, "QualificationTimeout")
  /\ IF state[p] = "PreMaster"
     THEN Enter(p, "Master", tracked[p], NoTimer)
     ELSE UNCHANGED <<state, tracked, timer>>
  /\ queue' = Popped(p)
  /\ MarkPopped(p)
  /\ UNCHANGED <<best_foreign, previous, by_port>>

\* Seeded fault: the announce receipt timeout is not carried into Slave.
SelectedWithoutTimeout(p) ==
  /\ state[p] = "Uncalibrated"
  /\ Enter(p, "Slave", tracked[p], NoTimer)
  /\ UNCHANGED <<best_foreign, previous, by_port, queue, mark>>

\* A Sync or FollowUp of the parent completes a sample and the servo locks:
\* StateDecision::MasterClockSelected.
MasterClockSelected(p) ==
  /\ state[p] = "Uncalibrated"
  /\ Enter(p, "Slave", tracked[p], ART.kind)
  /\ RestartedAt(p, queue[p])
  /\ UNCHANGED <<best_foreign, previous, by_port, queue>>

\* A sample does not leave the servo locked; the timeouts are carried over.
SynchronizationFault(p) ==
  /\ state[p] = "Slave"
  /\ state' = [state EXCEPT ![p] = "Uncalibrated"]
  /\ UNCHANGED <<tracked, best_foreign, previous, by_port, timer, queue, mark>>

\* A send of an Announce, Sync, FollowUp, DelayResp or DelayReq fails:
\* StateDecision::FaultDetected.
SendFails(p) ==
  /\ state[p] \in SlaveStates \cup {"Master"}
  /\ Enter(p, "Faulty", Nothing, NoTimer)
  /\ UNCHANGED <<best_foreign, previous, by_port, queue, mark>>

\* SystemMessage::FaultCleared
FaultCleared(p) ==
  /\ FaultsClear
  /\ state[p] = "Faulty"
  /\ Enter(p, "Initializing", Nothing, NoTimer)
  /\ UNCHANGED <<best_foreign, previous, by_port, queue, mark>>

\* A timeout of port p fires: its message is sent to the port's queue.  The
\* announce receipt interval is seconds long, so the port has by then handled
\* what was queued when it was restarted; a qualification may take no time.
Fire(p) ==
  /\ timer[p] # NoTimer
  /\ timer[p] = ART.kind => mark[p] = 0
  /\ Room
  /\ queue' = [queue EXCEPT ![p] = Append(@, [kind |-> timer[p]])]
  /\ timer' = [timer EXCEPT ![p] = NoTimer]
  /\ UNCHANGED <<state, tracked, best_foreign, previous, by_port, mark>>

Handle(p) ==
  \/ HandleStateDecisionEvent(p)
  \/ HandleAnnounceReceiptTimeout(p)
  \/ HandleQualificationTimeout(p)

Init ==
  /\ state = [p \in Ports |-> "Initializing"]
  /\ tracked = [p \in Ports |-> Nothing]
  /\ best_foreign = [p \in Ports |-> Empty]
  /\ previous = [p \in Ports |-> Empty]
  /\ by_port = [p \in Ports |-> Empty]
  /\ timer = [p \in Ports |-> NoTimer]
  /\ queue = [p \in Ports |-> <<>>]
  /\ mark = [p \in Ports |-> 0]

Next == \E p \in Ports :
  \/ Initialized(p)
  \/ Announce(p)
  \/ Handle(p)
  \/ MasterClockSelected(p)
  \/ SynchronizationFault(p)
  \/ SendFails(p)
  \/ FaultCleared(p)
  \/ Fire(p)

Spec == Init /\ [][Next]_vars

\* The event loop delivers Initialized and every queued message, and a timeout
\* that is not restarted fires.  Only Announces restart the announce receipt
\* timeout without end, so its expiry is fair only where they have stopped.
FairSpec ==
  /\ Spec
  /\ \A p \in Ports : /\ WF_vars(Initialized(p))
                      /\ WF_vars(Handle(p))
                      /\ WF_vars(timer[p] = QT.kind /\ Fire(p))

\* A receipt timeout that is not restarted fires, though the bound on the queue may
\* hold it up now and then.
ReceiptFair == \A p \in Ports : SF_vars(Fire(p))

FairReceiptSpec == FairSpec /\ ReceiptFair

----------------------------------------------------------------------------
(***************************************************************************)
(* Properties.                                                             *)
(***************************************************************************)

Broadcasts == {Best(candidates) : candidates \in [Ports -> Snapshots]}

Messages == {ART, QT} \cup {SDE(e) : e \in Broadcasts}

Tracks == {Nothing, D0}
            \cup {e.source : e \in {b \in Broadcasts : b.qualified}}
            \cup {WithAddedStep(e.ds) : e \in {b \in Broadcasts : b.qualified}}

\* The type of every variable.
TypeOK ==
  /\ state \in [Ports -> States]
  /\ tracked \in [Ports -> Tracks]
  /\ best_foreign \in [Ports -> Snapshots]
  /\ previous \in [Ports -> Snapshots]
  /\ by_port \in [Ports -> Snapshots]
  /\ timer \in [Ports -> {NoTimer, ART.kind, QT.kind}]
  /\ queue \in [Ports -> Seq(Messages)]
  /\ mark \in [Ports -> Nat]

Has(s, kind) == \E i \in 1..Len(s) : s[i].kind = kind

Pending(p, kind) == Has(queue[p], kind)

\* PortState::apply never meets a decision that is illegal in its state
\* (portstate.rs: "these are internal invariants"), whatever the order in which
\* announces, timeouts and state decision events reach the ports.
NoIllegalTransition == \A p \in Ports : state[p] # "Panicked"

\* The roles of the ports agree with one BMCA decision: a port with no state
\* decision event left to handle is in the state the algorithm recommends for
\* what the ports hear now, and tracks the parent or grandmaster it names, even
\* though each port decided at a time of its own on a snapshot sent to it.
Settled == \A p \in Ports :
  (state[p] \in Deciding \ {"Listening"} /\ ~Pending(p, "StateDecisionEvent")) =>
    LET d == Decision(p, Best(best_foreign), best_foreign[p]) IN
      /\ state[p] \in SlaveStates => d.kind = "Slave" /\ d.tracks = tracked[p]
      /\ state[p] \in MasterStates => d.kind = "Master" /\ d.tracks = tracked[p]
      /\ state[p] = "Passive" => d.kind = "Passive"

\* A clock never disciplines itself on two ports at once: two ports in
\* Uncalibrated or Slave are seen only while a state decision event is pending.
AtMostOneSlave == \A p, q \in Ports :
  (/\ state[p] \in SlaveStates /\ ~Pending(p, "StateDecisionEvent")
   /\ state[q] \in SlaveStates /\ ~Pending(q, "StateDecisionEvent")) => p = q

\* The candidate that best() broadcasts ranks before those of all other ports in
\* the order of IEEE 1588, though it is found by comparing neighbours only.
BestRanksFirst == \A p \in Ports :
  LET best == Best(by_port) IN
    by_port[p].qualified => best = by_port[p] \/ RanksBefore(best, by_port[p])

\* A port whose next transition hangs on a timeout is never left without one:
\* the timeout is armed, or its message is on the way.
NeverStranded == \A p \in Ports :
  /\ state[p] \in AnnounceReceivers =>
       timer[p] = ART.kind \/ Pending(p, ART.kind)
  /\ state[p] = "PreMaster" => timer[p] = QT.kind \/ Pending(p, QT.kind)

\* A listening port that hears a qualified master has the state decision event
\* that moves it on in its queue (where faults are not cleared: a port that
\* comes back keeps its records, and the event may be long gone).
ListeningDecides == \A p \in Ports :
  (state[p] = "Listening" /\ best_foreign[p].qualified) =>
    Pending(p, "StateDecisionEvent")

----------------------------------------------------------------------------
(***************************************************************************)
(* Temporal properties.                                                    *)
(***************************************************************************)

\* From some point on what the ports hear is the same, Announces arrive on time
\* and no port fails or recovers.
Steady == <>[][/\ best_foreign' = best_foreign
               /\ \A p \in Ports :
                    /\ state[p] \in AnnounceReceivers => state'[p] # "Master"
                    /\ ~SendFails(p) /\ ~FaultCleared(p)]_vars

\* Every port that takes part is for good in the role the algorithm recommends
\* for what the ports hear, and none waits in PreMaster.
Converged == \A p \in Ports :
  /\ state[p] # "PreMaster"
  /\ state[p] = "Listening" => ~best_foreign[p].qualified
  /\ state[p] \in Deciding \ {"Listening"} =>
       LET d == Decision(p, Best(best_foreign), best_foreign[p]) IN
         /\ state[p] \in SlaveStates <=> d.kind = "Slave"
         /\ state[p] = "Master" <=> d.kind = "Master"
         /\ state[p] # "Passive" => tracked[p] = d.tracks

\* In a steady network the broadcasts die out and the roles of all ports become
\* those of one BMCA decision and stay so (bmca.rs, the suppression of decisions
\* that repeat what is tracked).
Converges == Steady => <>[]Converged

\* From some point on nobody else is heard and no send fails.
Silence == <>[][\A p \in Ports :
  ~Announce(p) /\ ~MasterClockSelected(p) /\ ~SendFails(p)]_vars

\* When all masters have fallen silent a port that is not faulty acts as master
\* again and again: no announce receipt timeout is lost on the way.
MasterInSilence == Silence /\ ReceiptFair =>
  \A p \in Ports : []<>(state[p] \in {"Master", "Faulty"})

----------------------------------------------------------------------------
(* What the documentation says and the code does not do: these fail. *)

\* A port leaves Listening, Slave, Uncalibrated or Passive on an announce
\* receipt timeout only if nothing restarted the timeout since: no Announce
\* arrived within the interval (profile.rs, the construction of those states).
ExpiryMeansSilence == [][\A p \in Ports :
  (state[p] \in AnnounceReceivers /\ state'[p] = "Master") => mark[p] = 0]_vars

\* A port enters Master from PreMaster only when the qualification timeout of
\* its latest recommendation has expired (premaster.rs, recommended_master).
QualifiedByLatest == [][\A p \in Ports :
  (state[p] = "PreMaster" /\ state'[p] = "Master") => mark[p] = 0]_vars

\* When all masters have fallen silent the port ends up as master: their
\* records are stale by then (foreign.rs, the foreign master time window).
SilentMasterForgotten == Silence =>
  \A p \in Ports : <>[](state[p] \in {"Master", "Faulty"})
=============================================================================
