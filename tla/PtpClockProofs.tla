--------------------------- MODULE PtpClockProofs ---------------------------
(***************************************************************************)
(* Proofs about PtpClock for every number of ports, every local data set   *)
(* and every set of foreign masters: legal transitions, roles that agree   *)
(* with one decision, timeouts that are there, and what best() elects.     *)
(***************************************************************************)
EXTENDS PtpClock, ClockDatasetProofs

Timeouts == {ART.kind, QT.kind}

\* What Append and Tail do to a queue.
LEMMA AppendFacts ==
  ASSUME NEW S, NEW s \in Seq(S), NEW e \in S
  PROVE  /\ Append(s, e) \in Seq(S)
         /\ Len(Append(s, e)) = Len(s) + 1
         /\ \A i \in 1..Len(s) : Append(s, e)[i] = s[i]
         /\ Append(s, e)[Len(s) + 1] = e
  OBVIOUS

LEMMA TailFacts ==
  ASSUME NEW S, NEW s \in Seq(S), s # <<>>
  PROVE  /\ Tail(s) \in Seq(S)
         /\ Len(s) \in Nat \ {0}
         /\ Len(Tail(s)) = Len(s) - 1
         /\ \A i \in 1..Len(Tail(s)) : Tail(s)[i] = s[i + 1]
         /\ Head(s) = s[1]
  OBVIOUS

\* The messages a handler sends are messages, and E_best is a broadcast one.
LEMMA BestIsBroadcast ==
  ASSUME NEW c \in [Ports -> Snapshots]
  PROVE  Best(c) \in Broadcasts /\ SDE(Best(c)) \in Messages
  BY DEF Broadcasts, Messages

LEMMA BroadcastType ==
  ASSUME NEW q \in [Ports -> Seq(Messages)], NEW m \in Messages
  PROVE  [r \in Ports |-> Append(q[r], m)] \in [Ports -> Seq(Messages)]
<1> SUFFICES ASSUME NEW r \in Ports PROVE Append(q[r], m) \in Seq(Messages)
  OBVIOUS
<1>1. q[r] \in Seq(Messages)
  OBVIOUS
<1> QED
  BY <1>1, AppendFacts

LEMMA OnPortSnapshot ==
  ASSUME NEW p \in Ports, NEW e \in OnPort(p)
  PROVE  e \in Snapshots
  BY DEF Snapshots

\* What a decision makes a port track has the type of tracked.
LEMMA DecisionType ==
  ASSUME NEW p \in Ports, NEW e_best \in Broadcasts, NEW e_rbest
  PROVE  /\ Decision(p, e_best, e_rbest).kind \in {"Master", "Slave", "Passive"}
         /\ Decision(p, e_best, e_rbest).tracks \in Tracks
<1>1. ~LocalBetter(D0, e_best) => e_best.qualified
  BY DEF LocalBetter, SnapshotBetter, LocalDS, Qualified
<1>2. e_best.qualified => /\ e_best.source \in Tracks
                          /\ WithAddedStep(e_best.ds) \in Tracks
  BY DEF Tracks
<1>3. D0 \in Tracks /\ Nothing \in Tracks
  BY DEF Tracks
<1> QED
  BY <1>1, <1>2, <1>3 DEF Decision, AuthoritativeDecision,
     NonAuthoritativeDecision, MasterDecision, SlaveDecision, PassiveDecision,
     ReceivedOn, OnlyByTopology, GrandmasterDS

----------------------------------------------------------------------------
(***************************************************************************)
(* No illegal transition.  Only an announce receipt timeout handled in     *)
(* Master panics, so the question is why none can be left in the queue of  *)
(* a port that becomes Master.                                             *)
(***************************************************************************)

\* No announce receipt timeout in the queue s.
NoReceipt(s) == \A i \in 1..Len(s) : s[i].kind # ART.kind

\* An announce receipt timeout is behind no other timeout: at most one is
\* queued, and none follows a qualification timeout.
ReceiptFirst(s) == \A i, j \in 1..Len(s) :
  (i < j /\ s[j].kind = ART.kind) => s[i].kind \notin Timeouts

\* All timeouts in s are among its first n messages.
TimeoutsWithin(s, n) == \A i \in 1..Len(s) : i > n => s[i].kind \notin Timeouts

\* A timeout is armed only in the states that own it.
TimerOwned == \A p \in Ports :
  /\ timer[p] = ART.kind => state[p] \in AnnounceReceivers
  /\ timer[p] = QT.kind => state[p] = "PreMaster"

\* The heart of the argument: no announce receipt timeout waits for a Master
\* port, and none will: while the timeout is armed the queued ones are older
\* than its restart, so that when it fires they are gone.
QueuesOrdered == \A p \in Ports :
  /\ state[p] = "Master" => NoReceipt(queue[p])
  /\ ReceiptFirst(queue[p])
  /\ timer[p] = ART.kind => TimeoutsWithin(queue[p], mark[p])

SafetyInv ==
  /\ TypeOK
  /\ NoIllegalTransition
  /\ TimerOwned
  /\ QueuesOrdered

----------------------------------------------------------------------------

LEMMA TypeInit == Init => TypeOK
  BY PtpClockAssumption, BmcaAssumption
  DEF Init, TypeOK, States, Tracks, Snapshots, OnPort, Ports

LEMMA TypeNext == TypeOK /\ [Next]_vars => TypeOK'
<1> SUFFICES ASSUME TypeOK, [Next]_vars PROVE TypeOK'
  OBVIOUS
<1>0. Nothing \in Tracks /\ D0 \in Tracks
  BY DEF Tracks
<1>1. ASSUME NEW p \in Ports, Initialized(p) PROVE TypeOK'
  BY <1>0, <1>1 DEF TypeOK, Initialized, Enter, RestartedAt, States
<1>2. ASSUME NEW p \in Ports, Announce(p) PROVE TypeOK'
  <2>1. PICK e \in OnPort(p) :
          /\ best_foreign' = [best_foreign EXCEPT ![p] = e]
          /\ IF e = previous[p]
             THEN UNCHANGED <<previous, by_port, queue>>
             ELSE Room /\ Trigger(p, e, queue)
    BY <1>2, Zenon DEF Announce, GatedTrigger
  <2>2. e \in Snapshots
    BY OnPortSnapshot
  <2>3. best_foreign' \in [Ports -> Snapshots]
    BY <2>1, <2>2 DEF TypeOK
  <2>4. /\ previous' \in [Ports -> Snapshots]
        /\ by_port' \in [Ports -> Snapshots]
    BY <2>1, <2>2, Zenon DEF TypeOK, Trigger, NotifyAll
  <2>5. queue' \in [Ports -> Seq(Messages)]
    <3>1. SDE(Best(by_port')) \in Messages
      BY <2>4, BestIsBroadcast
    <3>2. queue \in [Ports -> Seq(Messages)]
      BY DEF TypeOK
    <3>3. [r \in Ports |-> Append(queue[r], SDE(Best(by_port')))]
            \in [Ports -> Seq(Messages)]
      BY <3>1, <3>2, BroadcastType
    <3> QED
      BY <2>1, <3>2, <3>3, Zenon DEF Trigger, NotifyAll
  <2>6. Len(queue[p]) \in Nat
    <3>1. queue[p] \in Seq(Messages)
      BY DEF TypeOK
    <3> QED
      BY <3>1
  <2>7. /\ timer' \in [Ports -> {NoTimer, ART.kind, QT.kind}]
        /\ mark' \in [Ports -> Nat]
        /\ UNCHANGED <<state, tracked>>
    BY <1>2, <2>6, Zenon DEF TypeOK, Announce, GatedTrigger, RestartedAt
  <2> QED
    BY <2>3, <2>4, <2>5, <2>7 DEF TypeOK
<1>3. ASSUME NEW p \in Ports, HandleStateDecisionEvent(p) PROVE TypeOK'
  <2> DEFINE d == Decision(p, Head(queue[p]).e_best, best_foreign[p])
  <2>1. queue[p] \in Seq(Messages) /\ queue[p] # <<>>
    BY <1>3 DEF TypeOK, HandleStateDecisionEvent, RecommendedSlave,
     RecommendedMaster, RecommendedPassive, Receives
  <2>2. queue' \in [Ports -> Seq(Messages)] /\ Len(Tail(queue[p])) \in Nat
    BY <1>3, <2>1, TailFacts DEF TypeOK, HandleStateDecisionEvent, RecommendedSlave,
     RecommendedMaster, RecommendedPassive, Popped
  <2>3. Head(queue[p]).e_best \in Broadcasts
    BY <1>3, <2>1, TailFacts DEF HandleStateDecisionEvent, RecommendedSlave,
     RecommendedMaster, RecommendedPassive, Receives, Messages, ART, QT, SDE
  <2>4. d.tracks \in Tracks
    BY <2>3, DecisionType
  <2>5. mark' \in [Ports -> Nat]
    <3>1. CASE MarkPopped(p)
      BY <3>1 DEF TypeOK, MarkPopped
    <3>2. CASE RestartedAt(p, Tail(queue[p]))
      BY <2>2, <3>2 DEF TypeOK, RestartedAt
    <3> QED
      BY <1>3, <3>1, <3>2 DEF HandleStateDecisionEvent, RecommendedSlave,
     RecommendedMaster, RecommendedPassive
  <2>6. /\ state' \in [Ports -> States]
        /\ tracked' \in [Ports -> Tracks]
        /\ timer' \in [Ports -> {NoTimer, ART.kind, QT.kind}]
    BY <1>0, <1>3, <2>4, Zenon DEF TypeOK, HandleStateDecisionEvent, RecommendedSlave,
     RecommendedMaster, RecommendedPassive, Enter, Panic, States
  <2> QED
    BY <1>3, <2>2, <2>5, <2>6 DEF TypeOK, HandleStateDecisionEvent, RecommendedSlave,
     RecommendedMaster, RecommendedPassive
<1>4. ASSUME NEW p \in Ports, HandleAnnounceReceiptTimeout(p) PROVE TypeOK'
  <2>1. queue[p] \in Seq(Messages) /\ queue[p] # <<>>
    BY <1>4 DEF TypeOK, HandleAnnounceReceiptTimeout, Receives
  <2>2. Popped(p) \in [Ports -> Seq(Messages)]
    BY <2>1, TailFacts DEF TypeOK, Popped
  <2>3. /\ previous' \in [Ports -> Snapshots]
        /\ by_port' \in [Ports -> Snapshots]
    BY <1>4, Zenon DEF TypeOK, HandleAnnounceReceiptTimeout, Trigger, NotifyAll
  <2>4. queue' \in [Ports -> Seq(Messages)]
    <3>1. SDE(Best(by_port')) \in Messages
      BY <2>3, BestIsBroadcast
    <3> QED
      BY <1>4, <2>2, <3>1, BroadcastType, Zenon
         DEF HandleAnnounceReceiptTimeout, Trigger, NotifyAll
  <2>5. /\ state' \in [Ports -> States]
        /\ tracked' \in [Ports -> Tracks]
        /\ timer' \in [Ports -> {NoTimer, ART.kind, QT.kind}]
    BY <1>0, <1>4, Zenon DEF TypeOK, HandleAnnounceReceiptTimeout, Enter, Panic, States
  <2>6. mark' \in [Ports -> Nat]
    BY <1>4 DEF TypeOK, HandleAnnounceReceiptTimeout, MarkPopped
  <2> QED
    BY <1>4, <2>3, <2>4, <2>5, <2>6 DEF TypeOK, HandleAnnounceReceiptTimeout
<1>5. ASSUME NEW p \in Ports, HandleQualificationTimeout(p) PROVE TypeOK'
  <2>1. queue[p] \in Seq(Messages) /\ queue[p] # <<>>
    BY <1>5 DEF TypeOK, HandleQualificationTimeout, Receives
  <2>2. queue' \in [Ports -> Seq(Messages)]
    BY <1>5, <2>1, TailFacts DEF TypeOK, Popped, HandleQualificationTimeout
  <2>3. mark' \in [Ports -> Nat]
    BY <1>5 DEF TypeOK, HandleQualificationTimeout, MarkPopped
  <2>4. /\ state' \in [Ports -> States]
        /\ tracked' \in [Ports -> Tracks]
        /\ timer' \in [Ports -> {NoTimer, ART.kind, QT.kind}]
    BY <1>0, <1>5, Zenon DEF TypeOK, HandleQualificationTimeout, Enter, States
  <2> QED
    BY <1>5, <2>2, <2>3, <2>4 DEF TypeOK, HandleQualificationTimeout
<1>6. ASSUME NEW p \in Ports, MasterClockSelected(p) PROVE TypeOK'
  BY <1>6 DEF TypeOK, MasterClockSelected, Enter, RestartedAt, States
<1>7. ASSUME NEW p \in Ports, SynchronizationFault(p) PROVE TypeOK'
  BY <1>7 DEF TypeOK, SynchronizationFault, States
<1>8. ASSUME NEW p \in Ports, SendFails(p) \/ FaultCleared(p) PROVE TypeOK'
  <2>1. /\ state' \in {[state EXCEPT ![p] = "Faulty"], [state EXCEPT ![p] = "Initializing"]}
        /\ tracked' = [tracked EXCEPT ![p] = Nothing]
        /\ timer' = [timer EXCEPT ![p] = NoTimer]
        /\ UNCHANGED <<best_foreign, previous, by_port, queue, mark>>
    BY <1>8 DEF SendFails, FaultCleared, Enter
  <2> QED
    BY <1>0, <2>1 DEF TypeOK, States
<1>9. ASSUME NEW p \in Ports, Fire(p) PROVE TypeOK'
  <2>1. [kind |-> timer[p]] \in Messages
    BY <1>9 DEF TypeOK, Fire, Messages, ART, QT
  <2>2. queue' \in [Ports -> Seq(Messages)]
    BY <1>9, <2>1, AppendFacts DEF TypeOK, Fire
  <2> QED
    BY <1>9, <2>2 DEF TypeOK, Fire
<1>10. CASE UNCHANGED vars
  BY <1>10 DEF TypeOK, vars
<1> QED
  BY <1>1, <1>2, <1>3, <1>4, <1>5, <1>6, <1>7, <1>8, <1>9, <1>10 DEF Next, Handle

\* The type invariant holds in every behaviour of the clock.
THEOREM TypeCorrect == Spec => []TypeOK
  BY TypeInit, TypeNext, PTL DEF Spec

----------------------------------------------------------------------------

LEMMA AppendOther ==
  ASSUME NEW s \in Seq(Messages), NEW m \in Messages, m.kind \notin Timeouts
  PROVE  /\ NoReceipt(s) => NoReceipt(Append(s, m))
         /\ ReceiptFirst(s) => ReceiptFirst(Append(s, m))
         /\ \A n \in Nat : TimeoutsWithin(s, n) => TimeoutsWithin(Append(s, m), n)
<1>1. /\ Len(s) \in Nat
      /\ Len(Append(s, m)) = Len(s) + 1
      /\ \A i \in 1..Len(s) : Append(s, m)[i] = s[i]
      /\ Append(s, m)[Len(s) + 1] = m
  BY AppendFacts
<1>2. \A i \in 1..Len(Append(s, m)) :
        \/ i \in 1..Len(s) /\ Append(s, m)[i] = s[i]
        \/ i = Len(s) + 1 /\ Append(s, m)[i] = m
  BY <1>1
<1> QED
  BY <1>1, <1>2 DEF NoReceipt, ReceiptFirst, TimeoutsWithin, Timeouts

LEMMA AppendQualification ==
  ASSUME NEW s \in Seq(Messages), ReceiptFirst(s)
  PROVE  ReceiptFirst(Append(s, QT))
<1>1. QT \in Messages /\ QT.kind # ART.kind
  BY DEF Messages, QT, ART
<1>2. /\ Len(s) \in Nat
      /\ Len(Append(s, QT)) = Len(s) + 1
      /\ \A i \in 1..Len(s) : Append(s, QT)[i] = s[i]
      /\ Append(s, QT)[Len(s) + 1] = QT
  BY <1>1, AppendFacts
<1> QED
  BY <1>1, <1>2 DEF ReceiptFirst

LEMMA AppendReceipt ==
  ASSUME NEW s \in Seq(Messages), TimeoutsWithin(s, 0)
  PROVE  ReceiptFirst(Append(s, ART))
<1>1. ART \in Messages
  BY DEF Messages
<1>2. /\ Len(s) \in Nat
      /\ Len(Append(s, ART)) = Len(s) + 1
      /\ \A i \in 1..Len(s) : Append(s, ART)[i] = s[i]
  BY <1>1, AppendFacts
<1> QED
  BY <1>2 DEF ReceiptFirst, TimeoutsWithin

LEMMA TailKeeps ==
  ASSUME NEW s \in Seq(Messages), s # <<>>
  PROVE  /\ NoReceipt(s) => NoReceipt(Tail(s))
         /\ ReceiptFirst(s) => ReceiptFirst(Tail(s))
         /\ \A n \in Nat : TimeoutsWithin(s, n) =>
              TimeoutsWithin(Tail(s), IF n > 0 THEN n - 1 ELSE 0)
         /\ ReceiptFirst(s) /\ Head(s).kind \in Timeouts => NoReceipt(Tail(s))
<1>1. /\ Len(s) \in Nat \ {0}
      /\ Len(Tail(s)) = Len(s) - 1
      /\ \A i \in 1..Len(Tail(s)) : Tail(s)[i] = s[i + 1]
      /\ Head(s) = s[1]
  BY TailFacts
<1>2. \A i \in 1..Len(Tail(s)) : i + 1 \in 1..Len(s) /\ 1 < i + 1
  BY <1>1
<1> QED
  BY <1>1, <1>2 DEF NoReceipt, ReceiptFirst, TimeoutsWithin

LEMMA RestartCovers ==
  ASSUME NEW s \in Seq(Messages)
  PROVE  TimeoutsWithin(s, Len(s))
  BY DEF TimeoutsWithin

LEMMA MarkDecrement ==
  ASSUME TypeOK, NEW p \in Ports, MarkPopped(p)
  PROVE  /\ mark'[p] = IF mark[p] > 0 THEN mark[p] - 1 ELSE 0
         /\ \A r \in Ports \ {p} : mark'[r] = mark[r]
  BY DEF TypeOK, MarkPopped

LEMMA SafetyInit == Init => SafetyInv
<1> SUFFICES ASSUME Init PROVE SafetyInv
  OBVIOUS
<1>1. TypeOK
  BY TypeInit
<1>2. NoIllegalTransition /\ TimerOwned
  BY DEF Init, NoIllegalTransition, TimerOwned, NoTimer, ART, QT
<1>3. QueuesOrdered
  BY DEF Init, QueuesOrdered, NoReceipt, ReceiptFirst, TimeoutsWithin
<1> QED
  BY <1>1, <1>2, <1>3 DEF SafetyInv

LEMMA SafetyNext == SafetyInv /\ [Next]_vars => SafetyInv'
<1> SUFFICES ASSUME SafetyInv, [Next]_vars
             PROVE  NoIllegalTransition' /\ TimerOwned' /\ QueuesOrdered'
  BY TypeNext DEF SafetyInv
<1> USE DEF SafetyInv
<1>0. /\ TypeOK'
      /\ \A r \in Ports : queue[r] \in Seq(Messages) /\ mark[r] \in Nat
      /\ state \in [Ports -> States] /\ timer \in [Ports -> {NoTimer, ART.kind, QT.kind}]
      /\ mark \in [Ports -> Nat] /\ queue \in [Ports -> Seq(Messages)]
      /\ DOMAIN queue = Ports
  BY TypeNext DEF TypeOK
<1>1. ASSUME NEW p \in Ports, Initialized(p)
      PROVE  NoIllegalTransition' /\ TimerOwned' /\ QueuesOrdered'
  <2>1. NoIllegalTransition' /\ TimerOwned'
    BY <1>0, <1>1 DEF Initialized, Enter, NoIllegalTransition, TimerOwned,
       AnnounceReceivers, NoTimer, ART, QT
  <2>2. QueuesOrdered'
    BY <1>0, <1>1, RestartCovers DEF Initialized, Enter, RestartedAt, QueuesOrdered
  <2> QED
    BY <2>1, <2>2
<1>2. ASSUME NEW p \in Ports, Announce(p)
      PROVE  NoIllegalTransition' /\ TimerOwned' /\ QueuesOrdered'
  <2>1. NoIllegalTransition' /\ TimerOwned'
    BY <1>0, <1>2 DEF Announce, GatedTrigger, NoIllegalTransition, TimerOwned, NoTimer, ART, QT
  <2>2. \A r \in Ports : \/ queue'[r] = queue[r]
                         \/ queue'[r] = Append(queue[r], SDE(Best(by_port')))
    <3>1. \/ queue' = queue
          \/ queue' = [r \in Ports |-> Append(queue[r], SDE(Best(by_port')))]
      BY <1>2 DEF Announce, GatedTrigger, Trigger, NotifyAll
    <3> QED
      BY <3>1
  <2>3. SDE(Best(by_port')) \in Messages /\ SDE(Best(by_port')).kind \notin Timeouts
    BY <1>0, BestIsBroadcast DEF TypeOK, SDE, Timeouts, ART, QT
  <2>4. \A r \in Ports : timer'[r] = ART.kind => TimeoutsWithin(queue[r], mark'[r])
    <3>1. CASE UNCHANGED <<timer, mark>>
      BY <3>1 DEF QueuesOrdered
    <3>2. CASE timer' = [timer EXCEPT ![p] = ART.kind] /\ RestartedAt(p, queue[p])
      BY <1>0, <3>2, RestartCovers DEF RestartedAt, QueuesOrdered
    <3> QED
      BY <1>2, <3>1, <3>2 DEF Announce, GatedTrigger
  <2>5. \A r \in Ports : mark'[r] \in Nat
    BY <1>0 DEF TypeOK
  <2>6. ASSUME NEW r \in Ports
        PROVE  /\ state'[r] = "Master" => NoReceipt(queue'[r])
               /\ ReceiptFirst(queue'[r])
               /\ timer'[r] = ART.kind => TimeoutsWithin(queue'[r], mark'[r])
    <3>1. /\ state[r] = "Master" => NoReceipt(queue[r])
          /\ ReceiptFirst(queue[r])
          /\ state' = state
      BY <1>2 DEF QueuesOrdered, Announce, GatedTrigger
    <3>2. CASE queue'[r] = queue[r]
      BY <2>4, <3>1, <3>2
    <3>3. CASE queue'[r] = Append(queue[r], SDE(Best(by_port')))
      <4>1. queue[r] \in Seq(Messages)
        BY <1>0
      <4> QED
        BY <2>3, <2>4, <2>5, <3>1, <3>3, <4>1, AppendOther
    <3> QED
      BY <2>2, <3>2, <3>3
  <2>7. QueuesOrdered'
    BY <2>6 DEF QueuesOrdered
  <2> QED
    BY <2>1, <2>7
<1>3. ASSUME NEW p \in Ports, HandleStateDecisionEvent(p)
      PROVE  NoIllegalTransition' /\ TimerOwned' /\ QueuesOrdered'
  <2> DEFINE d == Decision(p, Head(queue[p]).e_best, best_foreign[p])
  <2>1. queue[p] \in Seq(Messages) /\ queue[p] # <<>>
    BY <1>0, <1>3 DEF HandleStateDecisionEvent, RecommendedSlave,
     RecommendedMaster, RecommendedPassive, Receives
  <2>2. CASE state[p] \notin Deciding \/ Suppressed(p, d)
    <3>1. /\ UNCHANGED <<state, timer>> /\ MarkPopped(p)
          /\ queue'[p] = Tail(queue[p])
          /\ \A r \in Ports \ {p} : queue'[r] = queue[r]
      BY <1>0, <1>3, <2>2 DEF HandleStateDecisionEvent, RecommendedSlave,
     RecommendedMaster, RecommendedPassive, Popped
    <3>2. QueuesOrdered'
      <4>1. ASSUME NEW r \in Ports \ {p}
            PROVE  queue'[r] = queue[r] /\ mark'[r] = mark[r]
        BY <3>1, MarkDecrement
      <4>2. timer[p] = ART.kind => TimeoutsWithin(queue'[p], mark'[p])
        BY <1>0, <2>1, <3>1, MarkDecrement, TailKeeps DEF QueuesOrdered
      <4> QED
        BY <2>1, <3>1, <4>1, <4>2, TailKeeps DEF QueuesOrdered
    <3> QED
      BY <3>1, <3>2 DEF NoIllegalTransition, TimerOwned
  <2>3. CASE ~(state[p] \notin Deciding \/ Suppressed(p, d))
    <3>1. /\ queue'[p] = Tail(queue[p])
          /\ \A r \in Ports \ {p} : queue'[r] = queue[r]
          /\ mark' = [mark EXCEPT ![p] = Len(Tail(queue[p]))]
      BY <1>0, <1>3, <2>3 DEF HandleStateDecisionEvent, RecommendedSlave,
     RecommendedMaster, RecommendedPassive, Popped, RestartedAt
    <3>2. \/ Enter(p, "Uncalibrated", d.tracks, ART.kind)
          \/ Enter(p, "PreMaster", d.tracks, QT.kind)
          \/ Enter(p, "Passive", Nothing, ART.kind)
      BY <1>3, <2>3 DEF HandleStateDecisionEvent, RecommendedSlave,
     RecommendedMaster, RecommendedPassive, Suppressed, ListeningWithholds,
     GrandMasterTracked, ParentTracked, PassiveAlready
    <3>3. NoIllegalTransition' /\ TimerOwned'
      BY <1>0, <3>2, Zenon DEF Enter, NoIllegalTransition, TimerOwned,
         AnnounceReceivers, NoTimer, ART, QT
    <3>4. Tail(queue[p]) \in Seq(Messages)
      BY <2>1, TailFacts
    <3>5. /\ state'[p] # "Master"
          /\ \A r \in Ports \ {p} : state'[r] = state[r] /\ timer'[r] = timer[r]
      BY <1>0, <3>2 DEF Enter
    <3>6. QueuesOrdered'
      <4>1. TimeoutsWithin(queue'[p], mark'[p])
        BY <1>0, <3>1, <3>4, RestartCovers, Zenon
      <4>2. \A r \in Ports \ {p} : mark'[r] = mark[r]
        BY <1>0, <3>1
      <4> QED
        BY <2>1, <3>1, <3>5, <4>1, <4>2, TailKeeps DEF QueuesOrdered
    <3> QED
      BY <3>3, <3>6
  <2> QED
    BY <2>2, <2>3
<1>4. ASSUME NEW p \in Ports, HandleAnnounceReceiptTimeout(p)
      PROVE  NoIllegalTransition' /\ TimerOwned' /\ QueuesOrdered'
  <2>1. /\ queue[p] \in Seq(Messages) /\ queue[p] # <<>>
        /\ Head(queue[p]).kind = ART.kind
    BY <1>0, <1>4 DEF HandleAnnounceReceiptTimeout, Receives, ART
  <2>2. ~NoReceipt(queue[p])
    <3>1. Len(queue[p]) \in Nat \ {0} /\ Head(queue[p]) = queue[p][1]
      BY <2>1, TailFacts
    <3> QED
      BY <2>1, <3>1 DEF NoReceipt
  <2>3. state[p] # "Master"
    BY <2>2 DEF QueuesOrdered
  <2>4. NoReceipt(Tail(queue[p])) /\ Tail(queue[p]) \in Seq(Messages)
    BY <2>1, TailKeeps, TailFacts DEF QueuesOrdered, Timeouts
  <2>5. /\ Popped(p)[p] = Tail(queue[p])
        /\ \A r \in Ports \ {p} : Popped(p)[r] = queue[r]
    BY <1>0 DEF Popped
  <2>6. \A r \in Ports :
          /\ Popped(p)[r] \in Seq(Messages)
          /\ state[r] = "Master" => NoReceipt(Popped(p)[r])
          /\ ReceiptFirst(Popped(p)[r])
          /\ timer[r] = ART.kind => TimeoutsWithin(Popped(p)[r], mark'[r])
    <3>1. MarkPopped(p)
      BY <1>4 DEF HandleAnnounceReceiptTimeout
    <3>2. ASSUME NEW r \in Ports \ {p}
          PROVE Popped(p)[r] = queue[r] /\ mark'[r] = mark[r]
      BY <2>5, <3>1, MarkDecrement
    <3>3. timer[p] = ART.kind => TimeoutsWithin(Tail(queue[p]), mark'[p])
      BY <1>0, <2>1, <3>1, MarkDecrement, TailKeeps DEF QueuesOrdered
    <3> QED
      BY <1>0, <2>1, <2>4, <2>5, <3>2, <3>3, TailKeeps, Zenon DEF QueuesOrdered
  <2>7. CASE state[p] \in AnnounceReceivers
    <3> DEFINE m == SDE(Best(by_port'))
    <3>1. /\ \A r \in Ports : queue'[r] = Append(Popped(p)[r], m)
          /\ state' = [state EXCEPT ![p] = "Master"]
          /\ timer' = [timer EXCEPT ![p] = NoTimer]
      BY <1>4, <2>7 DEF HandleAnnounceReceiptTimeout, Trigger, NotifyAll, Enter
    <3>2. NoIllegalTransition' /\ TimerOwned'
      BY <1>0, <3>1 DEF NoIllegalTransition, TimerOwned, NoTimer, ART, QT
    <3>3. m \in Messages /\ m.kind \notin Timeouts
      BY <1>0, BestIsBroadcast DEF TypeOK, SDE, Timeouts, ART, QT
    <3>4. \A r \in Ports :
            /\ state'[r] = "Master" => NoReceipt(Popped(p)[r])
            /\ ReceiptFirst(Popped(p)[r])
            /\ timer'[r] = ART.kind => TimeoutsWithin(Popped(p)[r], mark'[r])
      BY <1>0, <2>4, <2>5, <2>6, <3>1, Zenon DEF NoTimer, ART
    <3>5. \A r \in Ports : mark'[r] \in Nat
      BY <1>0 DEF TypeOK
    <3> HIDE DEF m
    <3>6. QueuesOrdered'
      <4>1. ASSUME NEW r \in Ports
            PROVE  /\ state'[r] = "Master" => NoReceipt(queue'[r])
                   /\ ReceiptFirst(queue'[r])
                   /\ timer'[r] = ART.kind => TimeoutsWithin(queue'[r], mark'[r])
        <5>1. Popped(p)[r] \in Seq(Messages) /\ queue'[r] = Append(Popped(p)[r], m)
          BY <2>6, <3>1
        <5> QED
          BY <3>3, <3>4, <3>5, <5>1, AppendOther
      <4> QED
        BY <4>1 DEF QueuesOrdered
    <3> QED
      BY <3>2, <3>6
  <2>8. CASE state[p] \notin AnnounceReceivers
    <3>1. queue' = Popped(p) /\ UNCHANGED <<state, timer>>
      BY <1>4, <2>3, <2>8 DEF HandleAnnounceReceiptTimeout
    <3> QED
      BY <2>6, <3>1 DEF NoIllegalTransition, TimerOwned, QueuesOrdered
  <2> QED
    BY <2>7, <2>8
<1>5. ASSUME NEW p \in Ports, HandleQualificationTimeout(p)
      PROVE  NoIllegalTransition' /\ TimerOwned' /\ QueuesOrdered'
  <2>1. /\ queue[p] \in Seq(Messages) /\ queue[p] # <<>>
        /\ Head(queue[p]).kind \in Timeouts
    BY <1>0, <1>5 DEF HandleQualificationTimeout, Receives, QT, Timeouts
  <2>2. /\ queue'[p] = Tail(queue[p])
        /\ \A r \in Ports \ {p} : queue'[r] = queue[r]
        /\ MarkPopped(p)
    BY <1>0, <1>5 DEF HandleQualificationTimeout, Popped
  <2>3. /\ NoReceipt(queue'[p])
        /\ ReceiptFirst(queue'[p])
        /\ timer[p] = ART.kind => TimeoutsWithin(queue'[p], mark'[p])
    BY <1>0, <2>1, <2>2, MarkDecrement, TailKeeps DEF QueuesOrdered
  <2>4. ASSUME NEW r \in Ports \ {p}
        PROVE  queue'[r] = queue[r] /\ mark'[r] = mark[r]
    BY <2>2, MarkDecrement
  <2>5. \/ /\ state' = [state EXCEPT ![p] = "Master"]
           /\ timer' = [timer EXCEPT ![p] = NoTimer]
        \/ UNCHANGED <<state, timer>>
    BY <1>5 DEF HandleQualificationTimeout, Enter
  <2>6. NoIllegalTransition' /\ TimerOwned'
    BY <1>0, <2>5, Zenon DEF NoIllegalTransition, TimerOwned, NoTimer, ART, QT
  <2>7. QueuesOrdered'
    <3>1. \A r \in Ports \ {p} : state'[r] = state[r] /\ timer'[r] = timer[r]
      BY <1>0, <2>5
    <3>2. timer'[p] = ART.kind => timer[p] = ART.kind
      BY <1>0, <2>5 DEF NoTimer, ART
    <3> QED
      BY <2>3, <2>4, <3>1, <3>2 DEF QueuesOrdered
  <2> QED
    BY <2>6, <2>7
<1>6. ASSUME NEW p \in Ports, MasterClockSelected(p)
      PROVE  NoIllegalTransition' /\ TimerOwned' /\ QueuesOrdered'
  <2>1. NoIllegalTransition' /\ TimerOwned'
    BY <1>0, <1>6 DEF MasterClockSelected, Enter, NoIllegalTransition, TimerOwned,
       AnnounceReceivers, NoTimer, ART, QT
  <2>2. QueuesOrdered'
    BY <1>0, <1>6, RestartCovers DEF MasterClockSelected, Enter, RestartedAt, QueuesOrdered
  <2> QED
    BY <2>1, <2>2
<1>7. ASSUME NEW p \in Ports, SynchronizationFault(p)
      PROVE  NoIllegalTransition' /\ TimerOwned' /\ QueuesOrdered'
  BY <1>0, <1>7 DEF SynchronizationFault, NoIllegalTransition, TimerOwned,
     QueuesOrdered, AnnounceReceivers
<1>8. ASSUME NEW p \in Ports, SendFails(p) \/ FaultCleared(p)
      PROVE  NoIllegalTransition' /\ TimerOwned' /\ QueuesOrdered'
  <2>1. /\ state' \in {[state EXCEPT ![p] = "Faulty"], [state EXCEPT ![p] = "Initializing"]}
        /\ timer' = [timer EXCEPT ![p] = NoTimer]
        /\ UNCHANGED <<queue, mark>>
    BY <1>8 DEF SendFails, FaultCleared, Enter
  <2>2. NoIllegalTransition' /\ TimerOwned'
    BY <1>0, <2>1 DEF NoIllegalTransition, TimerOwned, NoTimer, ART, QT
  <2>3. QueuesOrdered'
    BY <1>0, <2>1 DEF QueuesOrdered, NoTimer, ART
  <2> QED
    BY <2>2, <2>3
<1>9. ASSUME NEW p \in Ports, Fire(p)
      PROVE  NoIllegalTransition' /\ TimerOwned' /\ QueuesOrdered'
  <2>1. NoIllegalTransition' /\ TimerOwned'
    BY <1>0, <1>9 DEF Fire, NoIllegalTransition, TimerOwned, NoTimer, ART, QT
  <2>2. /\ queue'[p] = Append(queue[p], [kind |-> timer[p]])
        /\ \A r \in Ports \ {p} : queue'[r] = queue[r] /\ timer'[r] = timer[r]
        /\ timer'[p] = NoTimer
        /\ UNCHANGED <<state, mark>>
    BY <1>0, <1>9 DEF Fire
  <2>3. state[p] # "Master"
    BY <1>0, <1>9, Zenon DEF Fire, TimerOwned, AnnounceReceivers, NoTimer, ART, QT
  <2>4. ReceiptFirst(queue'[p])
    <3>1. CASE timer[p] = ART.kind
      <4>1. TimeoutsWithin(queue[p], 0) /\ [kind |-> timer[p]] = ART
        BY <1>9, <3>1 DEF Fire, QueuesOrdered, ART
      <4> QED
        BY <1>0, <2>2, <4>1, AppendReceipt
    <3>2. CASE timer[p] = QT.kind
      <4>1. [kind |-> timer[p]] = QT /\ ReceiptFirst(queue[p])
        BY <3>2 DEF QueuesOrdered, QT
      <4> QED
        BY <1>0, <2>2, <4>1, AppendQualification
    <3> QED
      BY <1>0, <1>9, <3>1, <3>2 DEF Fire
  <2>5. QueuesOrdered'
    BY <2>2, <2>3, <2>4, Zenon DEF QueuesOrdered, NoTimer, ART
  <2> QED
    BY <2>1, <2>5
<1>10. CASE UNCHANGED vars
  BY <1>10 DEF vars, NoIllegalTransition, TimerOwned, QueuesOrdered
<1> QED
  BY <1>1, <1>2, <1>3, <1>4, <1>5, <1>6, <1>7, <1>8, <1>9, <1>10 DEF Next, Handle

LEMMA SafetyInvariant == Spec => []SafetyInv
<1>1. Init => SafetyInv
  BY SafetyInit
<1>2. SafetyInv /\ [Next]_vars => SafetyInv'
  BY SafetyNext
<1> QED
  BY <1>1, <1>2, PTL DEF Spec

\* No port ever panics: whatever the number of ports, the local data set and
\* the foreign masters, and however the queues interleave, PortState::apply is
\* never asked for a transition it does not have.
THEOREM TransitionsLegal == Spec => []NoIllegalTransition
<1>1. SafetyInv => NoIllegalTransition
  BY DEF SafetyInv
<1> QED
  BY <1>1, SafetyInvariant, PTL

----------------------------------------------------------------------------
(***************************************************************************)
(* The ports agree on one BMCA decision, at most one of them is slave, and *)
(* none waits for a timeout that is not coming.                            *)
(***************************************************************************)


Decide == "StateDecisionEvent"

\* What a port hears, what it last triggered with and what the clock recorded
\* for it are the same.
InStep == previous = best_foreign /\ by_port = best_foreign

\* The last state decision event in the queue s, if any, carries e.
LastCarries(s, e) == \A i \in 1..Len(s) :
  (s[i].kind = Decide /\ \A j \in 1..Len(s) : j > i => s[j].kind # Decide)
    => s[i].e_best = e

LastIsCurrent == \A p \in Ports : LastCarries(queue[p], Best(best_foreign))

AgreementInv ==
  /\ TypeOK
  /\ InStep
  /\ LastIsCurrent
  /\ Settled

----------------------------------------------------------------------------
(***************************************************************************)
(* What Append and Tail do to the pending messages.                        *)
(***************************************************************************)

LEMMA AppendHas ==
  ASSUME NEW s \in Seq(Messages), NEW m \in Messages
  PROVE  /\ Has(Append(s, m), m.kind)
         /\ \A k : Has(s, k) => Has(Append(s, m), k)
         /\ \A k : Has(Append(s, m), k) => Has(s, k) \/ k = m.kind
<1>1. /\ Len(s) \in Nat
      /\ Len(Append(s, m)) = Len(s) + 1
      /\ \A i \in 1..Len(s) : Append(s, m)[i] = s[i]
      /\ Append(s, m)[Len(s) + 1] = m
  BY AppendFacts
<1>2. \A i \in 1..Len(Append(s, m)) : i \in 1..Len(s) \/ i = Len(s) + 1
  BY <1>1
<1>3. Len(s) + 1 \in 1..Len(Append(s, m))
  BY <1>1
<1>4. \A i \in 1..Len(s) : i \in 1..Len(Append(s, m))
  BY <1>1
<1> QED
  BY <1>1, <1>2, <1>3, <1>4 DEF Has

LEMMA TailHas ==
  ASSUME NEW s \in Seq(Messages), s # <<>>
  PROVE  /\ \A k : Has(Tail(s), k) => Has(s, k)
         /\ \A k : Has(s, k) => Has(Tail(s), k) \/ k = Head(s).kind
<1>1. /\ Len(s) \in Nat \ {0}
      /\ Len(Tail(s)) = Len(s) - 1
      /\ \A i \in 1..Len(Tail(s)) : Tail(s)[i] = s[i + 1]
      /\ Head(s) = s[1]
  BY TailFacts
<1>2. \A i \in 1..Len(Tail(s)) : i + 1 \in 1..Len(s)
  BY <1>1
<1>3. ASSUME NEW i \in 1..Len(s)
      PROVE  i = 1 \/ (i - 1 \in 1..Len(Tail(s)) /\ Tail(s)[i - 1] = s[i])
  BY <1>1
<1> QED
  BY <1>1, <1>2, <1>3, Zenon DEF Has

LEMMA AppendEvent ==
  ASSUME NEW s \in Seq(Messages), NEW e, SDE(e) \in Messages
  PROVE  LastCarries(Append(s, SDE(e)), e)
<1>1. /\ Len(s) \in Nat
      /\ Len(Append(s, SDE(e))) = Len(s) + 1
      /\ Append(s, SDE(e))[Len(s) + 1] = SDE(e)
  BY AppendFacts
<1>2. SDE(e).kind = Decide /\ SDE(e).e_best = e
  BY DEF SDE, Decide
<1> SUFFICES ASSUME NEW i \in 1..Len(Append(s, SDE(e))),
                    \A j \in 1..Len(Append(s, SDE(e))) :
                       j > i => Append(s, SDE(e))[j].kind # Decide
             PROVE  Append(s, SDE(e))[i].e_best = e
  BY DEF LastCarries
<1>3. i = Len(s) + 1
  BY <1>1, <1>2
<1> QED
  BY <1>1, <1>2, <1>3

LEMMA AppendTimeout ==
  ASSUME NEW s \in Seq(Messages), NEW m \in Messages, m.kind # Decide,
         NEW e, LastCarries(s, e)
  PROVE  LastCarries(Append(s, m), e)
<1>1. /\ Len(s) \in Nat
      /\ Len(Append(s, m)) = Len(s) + 1
      /\ \A i \in 1..Len(s) : Append(s, m)[i] = s[i]
      /\ Append(s, m)[Len(s) + 1] = m
  BY AppendFacts
<1>2. \A i \in 1..Len(s) : i \in 1..Len(Append(s, m))
  BY <1>1
<1> SUFFICES ASSUME NEW i \in 1..Len(Append(s, m)), Append(s, m)[i].kind = Decide,
                    \A j \in 1..Len(Append(s, m)) : j > i => Append(s, m)[j].kind # Decide
             PROVE  Append(s, m)[i].e_best = e
  BY DEF LastCarries
<1>3. i \in 1..Len(s) /\ s[i].kind = Decide
  BY <1>1
<1>4. \A j \in 1..Len(s) : j > i => s[j].kind # Decide
  BY <1>1, <1>2
<1> QED
  BY <1>1, <1>3, <1>4 DEF LastCarries

LEMMA TailCarries ==
  ASSUME NEW s \in Seq(Messages), s # <<>>, NEW e, LastCarries(s, e)
  PROVE  /\ LastCarries(Tail(s), e)
         /\ Head(s).kind = Decide /\ ~Has(Tail(s), Decide) => Head(s).e_best = e
<1>1. /\ Len(s) \in Nat \ {0}
      /\ Len(Tail(s)) = Len(s) - 1
      /\ \A i \in 1..Len(Tail(s)) : Tail(s)[i] = s[i + 1]
      /\ Head(s) = s[1]
  BY TailFacts
<1>2. \A i \in 1..Len(Tail(s)) : i + 1 \in 1..Len(s)
  BY <1>1
<1>3. ASSUME NEW j \in 1..Len(s), j > 1
      PROVE  j - 1 \in 1..Len(Tail(s)) /\ Tail(s)[j - 1] = s[j]
  BY <1>1, <1>3
<1>4. ASSUME NEW i \in 1..Len(Tail(s)), Tail(s)[i].kind = Decide,
             \A j \in 1..Len(Tail(s)) : j > i => Tail(s)[j].kind # Decide
      PROVE  Tail(s)[i].e_best = e
  <2>1. \A j \in 1..Len(s) : j > i + 1 => s[j].kind # Decide
    <3> SUFFICES ASSUME NEW j \in 1..Len(s), j > i + 1 PROVE s[j].kind # Decide
      OBVIOUS
    <3>1. j - 1 \in 1..Len(Tail(s)) /\ Tail(s)[j - 1] = s[j] /\ j - 1 > i
      BY <1>1, <1>3
    <3> QED
      BY <1>4, <3>1, Zenon
  <2> QED
    BY <1>1, <1>2, <1>4, <2>1 DEF LastCarries
<1>5. ASSUME Head(s).kind = Decide, ~Has(Tail(s), Decide)
      PROVE  Head(s).e_best = e
  <2>1. \A j \in 1..Len(s) : j > 1 => s[j].kind # Decide
    BY <1>3, <1>5 DEF Has
  <2> QED
    BY <1>1, <1>5, <2>1 DEF LastCarries
<1> QED
  BY <1>4, <1>5 DEF LastCarries

----------------------------------------------------------------------------
(***************************************************************************)
(* Agreement.                                                              *)
(***************************************************************************)

\* The decision d is the one that put a port in state s, tracking t.
Agrees(s, t, d) ==
  /\ s \in SlaveStates => d.kind = "Slave" /\ d.tracks = t
  /\ s \in MasterStates => d.kind = "Master" /\ d.tracks = t
  /\ s = "Passive" => d.kind = "Passive"

Undecided(p) == state[p] \notin Deciding \/ state[p] = "Listening"

SettledAt(p) ==
  Undecided(p) \/ Has(queue[p], Decide)
               \/ Agrees(state[p], tracked[p],
                         Decision(p, Best(best_foreign), best_foreign[p]))

LEMMA SettledByPort == Settled <=> \A p \in Ports : SettledAt(p)
  BY DEF Settled, SettledAt, Undecided, Agrees, Pending, Decide

\* A broadcast of the current E_best to every port, whatever was queued.
LEMMA AfterBroadcast ==
  ASSUME NEW q \in [Ports -> Seq(Messages)], best_foreign' \in [Ports -> Snapshots],
         by_port' = best_foreign',
         queue' = [r \in Ports |-> Append(q[r], SDE(Best(by_port')))]
  PROVE  LastIsCurrent' /\ Settled'
<1> DEFINE m == SDE(Best(best_foreign'))
<1>1. m \in Messages /\ m.kind = Decide
  BY BestIsBroadcast DEF SDE, Decide
<1>2. ASSUME NEW r \in Ports
      PROVE  /\ LastCarries(queue'[r], Best(best_foreign'))
             /\ Has(queue'[r], Decide)
  <2>1. queue'[r] = Append(q[r], m) /\ q[r] \in Seq(Messages)
    OBVIOUS
  <2>2. LastCarries(Append(q[r], m), Best(best_foreign'))
    BY <1>1, <2>1, AppendEvent
  <2> HIDE DEF m
  <2>3. Has(Append(q[r], m), Decide)
    BY <1>1, <2>1, AppendHas
  <2> QED
    BY <2>1, <2>2, <2>3
<1>3. LastIsCurrent'
  BY <1>2 DEF LastIsCurrent
<1>4. Settled'
  BY <1>2 DEF Settled, Pending, Decide
<1> QED
  BY <1>3, <1>4

LEMMA AgreementInit == Init => AgreementInv
<1> SUFFICES ASSUME Init PROVE AgreementInv
  OBVIOUS
<1>1. TypeOK /\ InStep
  BY TypeInit DEF Init, InStep
<1>2. LastIsCurrent
  BY DEF Init, LastIsCurrent, LastCarries
<1>3. Settled
  BY DEF Init, Settled, Deciding, AnnounceReceivers, MasterStates
<1> QED
  BY <1>1, <1>2, <1>3 DEF AgreementInv

LEMMA AgreementNext == AgreementInv /\ [Next]_vars => AgreementInv'
<1> SUFFICES ASSUME AgreementInv, [Next]_vars
             PROVE  InStep' /\ LastIsCurrent' /\ Settled'
  BY TypeNext DEF AgreementInv
<1> USE DEF AgreementInv
<1>0. /\ TypeOK'
      /\ state \in [Ports -> States]
      /\ tracked \in [Ports -> Tracks]
      /\ best_foreign \in [Ports -> Snapshots]
      /\ queue \in [Ports -> Seq(Messages)]
      /\ \A r \in Ports : queue[r] \in Seq(Messages)
  BY TypeNext DEF TypeOK
<1>a. \A r \in Ports : SettledAt(r)
  BY SettledByPort
\* Most steps touch one port and leave what the ports hear alone.
<1>b. ASSUME NEW p \in Ports, UNCHANGED <<best_foreign, previous, by_port>>,
             LastCarries(queue'[p], Best(best_foreign)), SettledAt(p)',
             \A r \in Ports \ {p} : /\ queue'[r] = queue[r]
                                    /\ state'[r] = state[r] /\ tracked'[r] = tracked[r]
      PROVE  InStep' /\ LastIsCurrent' /\ Settled'
  <2>1. InStep'
    BY <1>b DEF InStep
  <2>2. LastIsCurrent'
    BY <1>b DEF LastIsCurrent
  <2>3. \A r \in Ports \ {p} : SettledAt(r)'
    BY <1>a, <1>b DEF SettledAt, Undecided, Agrees
  <2>4. \A r \in Ports : SettledAt(r)'
    BY <1>b, <2>3
  <2>5. Settled'
    BY <2>4 DEF Settled, SettledAt, Undecided, Agrees, Pending, Decide
  <2> QED
    BY <2>1, <2>2, <2>5
<1>1. ASSUME NEW p \in Ports, Initialized(p)
      PROVE  InStep' /\ LastIsCurrent' /\ Settled'
  <2>1. /\ state'[p] = "Listening"
        /\ queue' = queue
        /\ \A r \in Ports \ {p} : state'[r] = state[r] /\ tracked'[r] = tracked[r]
        /\ UNCHANGED <<best_foreign, previous, by_port>>
    BY <1>0, <1>1 DEF Initialized, Enter
  <2>2. SettledAt(p)'
    BY <2>1 DEF SettledAt, Undecided
  <2> QED
    BY <1>b, <2>1, <2>2 DEF LastIsCurrent
<1>2. ASSUME NEW p \in Ports, Announce(p)
      PROVE  InStep' /\ LastIsCurrent' /\ Settled'
  <2>1. PICK e \in OnPort(p) :
          /\ best_foreign' = [best_foreign EXCEPT ![p] = e]
          /\ IF e = previous[p]
             THEN UNCHANGED <<previous, by_port, queue>>
             ELSE Room /\ Trigger(p, e, queue)
    BY <1>2, Zenon DEF Announce, GatedTrigger
  <2>2. UNCHANGED <<state, tracked>>
    BY <1>2 DEF Announce, GatedTrigger
  <2>3. CASE e = previous[p]
    <3>1. UNCHANGED <<best_foreign, previous, by_port, queue>>
      BY <1>0, <2>1, <2>3 DEF InStep
    <3> QED
      BY <2>2, <3>1 DEF InStep, LastIsCurrent, Settled, Pending
  <2>4. CASE e # previous[p]
    <3>1. InStep'
      BY <2>1, <2>4 DEF InStep, Trigger, NotifyAll
    <3>2. queue' = [r \in Ports |-> Append(queue[r], SDE(Best(by_port')))]
      BY <2>1, <2>4 DEF Trigger, NotifyAll
    <3>3. best_foreign' \in [Ports -> Snapshots] /\ by_port' = best_foreign'
      BY <1>0, <3>1 DEF InStep, TypeOK
    <3> QED
      BY <1>0, <3>1, <3>2, <3>3, AfterBroadcast, Zenon
  <2> QED
    BY <2>3, <2>4
<1>3. ASSUME NEW p \in Ports, HandleStateDecisionEvent(p)
      PROVE  InStep' /\ LastIsCurrent' /\ Settled'
  <2> DEFINE d == Decision(p, Head(queue[p]).e_best, best_foreign[p])
  <2>1. /\ queue[p] \in Seq(Messages) /\ queue[p] # <<>>
        /\ Head(queue[p]).kind = Decide
        /\ queue'[p] = Tail(queue[p])
        /\ \A r \in Ports \ {p} : queue'[r] = queue[r]
        /\ UNCHANGED <<best_foreign, previous, by_port>>
    BY <1>0, <1>3, Zenon DEF HandleStateDecisionEvent, RecommendedSlave,
     RecommendedMaster, RecommendedPassive, Receives, Popped, Decide
  <2>2. /\ LastCarries(queue'[p], Best(best_foreign))
        /\ ~Has(queue'[p], Decide) => Head(queue[p]).e_best = Best(best_foreign)
    <3>1. LastCarries(queue[p], Best(best_foreign))
      BY DEF LastIsCurrent
    <3> QED
      BY <2>1, <3>1, TailCarries
  <2>3. \A r \in Ports \ {p} : state'[r] = state[r] /\ tracked'[r] = tracked[r]
    BY <1>0, <1>3, Zenon DEF HandleStateDecisionEvent, RecommendedSlave,
     RecommendedMaster, RecommendedPassive, Enter, Panic
  <2>4. Undecided(p)' \/ Agrees(state'[p], tracked'[p], d)
    <3>1. CASE state[p] \notin Deciding \/ Suppressed(p, d)
      <4>1. UNCHANGED <<state, tracked>>
        BY <1>3, <3>1, Zenon DEF HandleStateDecisionEvent, RecommendedSlave,
     RecommendedMaster, RecommendedPassive
      <4> QED
        BY <2>1, <3>1, <4>1 DEF Undecided, Agrees, Suppressed, ListeningWithholds,
     GrandMasterTracked, ParentTracked, PassiveAlready, SlaveStates,
           MasterStates, Deciding, AnnounceReceivers
    <3>2. CASE ~(state[p] \notin Deciding \/ Suppressed(p, d))
      <4>1. \/ d.kind = "Slave" /\ Enter(p, "Uncalibrated", d.tracks, ART.kind)
            \/ d.kind = "Master" /\ Enter(p, "PreMaster", d.tracks, QT.kind)
            \/ d.kind = "Passive" /\ Panic(p)
            \/ d.kind = "Passive" /\ Enter(p, "Passive", Nothing, ART.kind)
        BY <1>3, <3>2, Zenon DEF HandleStateDecisionEvent, RecommendedSlave,
     RecommendedMaster, RecommendedPassive
      <4> QED
        BY <1>0, <4>1, Zenon DEF Enter, Panic, Undecided, Agrees, SlaveStates,
           MasterStates, Deciding, AnnounceReceivers
    <3> QED
      BY <3>1, <3>2, Zenon
  <2>5. SettledAt(p)'
    BY <2>1, <2>2, <2>4, Zenon DEF SettledAt
  <2> QED
    BY <1>b, <2>1, <2>2, <2>3, <2>5
<1>4. ASSUME NEW p \in Ports, HandleAnnounceReceiptTimeout(p)
      PROVE  InStep' /\ LastIsCurrent' /\ Settled'
  <2>1. /\ queue[p] \in Seq(Messages) /\ queue[p] # <<>>
        /\ Head(queue[p]).kind = ART.kind /\ ART.kind # Decide
    BY <1>0, <1>4 DEF HandleAnnounceReceiptTimeout, Receives, ART, Decide
  <2>2. Popped(p) \in [Ports -> Seq(Messages)]
    BY <1>0, <2>1, TailFacts DEF Popped
  <2>3. CASE state[p] \in AnnounceReceivers
    <3>1. Trigger(p, best_foreign[p], Popped(p)) /\ best_foreign' = best_foreign
      BY <1>4, <2>3 DEF HandleAnnounceReceiptTimeout
    <3>2. InStep'
      BY <1>0, <3>1 DEF InStep, Trigger, NotifyAll
    <3> QED
      BY <1>0, <2>2, <3>1, <3>2, AfterBroadcast, Zenon DEF Trigger, NotifyAll, InStep
  <2>4. CASE state[p] \notin AnnounceReceivers
    <3>1. /\ queue'[p] = Tail(queue[p])
          /\ \A r \in Ports \ {p} : queue'[r] = queue[r]
          /\ UNCHANGED <<best_foreign, previous, by_port>>
          /\ \A r \in Ports \ {p} : state'[r] = state[r] /\ tracked'[r] = tracked[r]
          /\ UNCHANGED <<state, tracked>> \/ state'[p] = "Panicked"
      BY <1>0, <1>4, <2>4 DEF HandleAnnounceReceiptTimeout, Popped, Panic, Enter
    <3>2. LastCarries(queue'[p], Best(best_foreign))
      BY <2>1, <3>1, TailCarries DEF LastIsCurrent
    <3>3. Has(queue[p], Decide) => Has(queue'[p], Decide)
      BY <2>1, <3>1, TailHas
    <3>4. SettledAt(p)'
      BY <1>a, <3>1, <3>3 DEF SettledAt, Undecided, Agrees, Deciding,
         AnnounceReceivers, MasterStates
    <3> QED
      BY <1>b, <3>1, <3>2, <3>4
  <2> QED
    BY <2>3, <2>4
<1>5. ASSUME NEW p \in Ports, HandleQualificationTimeout(p)
      PROVE  InStep' /\ LastIsCurrent' /\ Settled'
  <2>1. /\ queue[p] \in Seq(Messages) /\ queue[p] # <<>>
        /\ Head(queue[p]).kind = QT.kind /\ QT.kind # Decide
    BY <1>0, <1>5 DEF HandleQualificationTimeout, Receives, QT, Decide
  <2>2. /\ queue'[p] = Tail(queue[p])
        /\ \A r \in Ports \ {p} : queue'[r] = queue[r]
        /\ UNCHANGED <<best_foreign, previous, by_port>>
        /\ \A r \in Ports \ {p} : state'[r] = state[r] /\ tracked'[r] = tracked[r]
        /\ tracked'[p] = tracked[p]
        /\ state'[p] = state[p] \/ (state[p] = "PreMaster" /\ state'[p] = "Master")
    BY <1>0, <1>5 DEF HandleQualificationTimeout, Popped, Enter
  <2>3. LastCarries(queue'[p], Best(best_foreign))
    BY <2>1, <2>2, TailCarries DEF LastIsCurrent
  <2>4. Has(queue[p], Decide) => Has(queue'[p], Decide)
    BY <2>1, <2>2, TailHas
  <2>5. SettledAt(p)'
    BY <1>a, <2>2, <2>4 DEF SettledAt, Undecided, Agrees, Deciding,
       AnnounceReceivers, MasterStates, SlaveStates
  <2> QED
    BY <1>b, <2>2, <2>3, <2>5, Zenon
<1>6. ASSUME NEW p \in Ports, MasterClockSelected(p) \/ SynchronizationFault(p)
      PROVE  InStep' /\ LastIsCurrent' /\ Settled'
  <2>1. /\ UNCHANGED <<best_foreign, previous, by_port, queue>>
        /\ \A r \in Ports \ {p} : state'[r] = state[r]
        /\ \A r \in Ports : tracked'[r] = tracked[r]
        /\ state[p] \in SlaveStates /\ state'[p] \in SlaveStates
    BY <1>0, <1>6 DEF MasterClockSelected, SynchronizationFault, Enter, SlaveStates
  <2>2. SettledAt(p)'
    BY <1>a, <2>1 DEF SettledAt, Undecided, Agrees, Deciding,
       AnnounceReceivers, MasterStates, SlaveStates
  <2> QED
    BY <1>b, <2>1, <2>2, Zenon DEF LastIsCurrent
<1>7. ASSUME NEW p \in Ports, SendFails(p) \/ FaultCleared(p)
      PROVE  InStep' /\ LastIsCurrent' /\ Settled'
  <2>1. /\ state'[p] \in {"Faulty", "Initializing"}
        /\ queue' = queue
        /\ \A r \in Ports \ {p} : state'[r] = state[r] /\ tracked'[r] = tracked[r]
        /\ UNCHANGED <<best_foreign, previous, by_port>>
    BY <1>0, <1>7 DEF SendFails, FaultCleared, Enter
  <2>2. SettledAt(p)'
    BY <2>1 DEF SettledAt, Undecided, Deciding, AnnounceReceivers, MasterStates
  <2> QED
    BY <1>b, <2>1, <2>2 DEF LastIsCurrent
<1>8. ASSUME NEW p \in Ports, Fire(p)
      PROVE  InStep' /\ LastIsCurrent' /\ Settled'
  <2> DEFINE m == [kind |-> timer[p]]
  <2>1. m \in Messages /\ m.kind # Decide
    BY <1>8 DEF TypeOK, Fire, Messages, ART, QT, Decide
  <2>2. /\ queue'[p] = Append(queue[p], m)
        /\ \A r \in Ports \ {p} : queue'[r] = queue[r]
        /\ UNCHANGED <<state, tracked, best_foreign, previous, by_port>>
    BY <1>0, <1>8 DEF Fire
  <2> HIDE DEF m
  <2>3. LastCarries(queue'[p], Best(best_foreign))
    BY <1>0, <2>1, <2>2, AppendTimeout DEF LastIsCurrent
  <2>4. Has(queue[p], Decide) => Has(queue'[p], Decide)
    BY <1>0, <2>1, <2>2, AppendHas
  <2>5. SettledAt(p)'
    BY <1>a, <2>2, <2>4 DEF SettledAt, Undecided, Agrees
  <2> QED
    BY <1>b, <2>2, <2>3, <2>5, Zenon
<1>9. CASE UNCHANGED vars
  BY <1>9 DEF vars, InStep, LastIsCurrent, Settled, Pending
<1> QED
  BY <1>1, <1>2, <1>3, <1>4, <1>5, <1>6, <1>7, <1>8, <1>9 DEF Next, Handle

LEMMA AgreementInvariant == Spec => []AgreementInv
<1>1. Init => AgreementInv
  BY AgreementInit
<1>2. AgreementInv /\ [Next]_vars => AgreementInv'
  BY AgreementNext
<1> QED
  BY <1>1, <1>2, PTL DEF Spec

\* The ports agree: a port that has handled its state decision events is in the
\* role the BMCA recommends for what all ports hear now, for every number of
\* ports and every set of foreign masters.
THEOREM PortsAgree == Spec => []Settled
<1>1. AgreementInv => Settled
  BY DEF AgreementInv
<1> QED
  BY <1>1, AgreementInvariant, PTL

\* At most one port that has handled its state decision events is in a slave
\* role: the recommendation of S1 names the port that received E_best.
THEOREM OneSlave == Spec => []AtMostOneSlave
<1>1. ASSUME NEW p \in Ports, NEW e_best, NEW e_rbest,
             Decision(p, e_best, e_rbest).kind = "Slave"
      PROVE  e_best.receiver.port = p
  BY <1>1 DEF Decision, AuthoritativeDecision, NonAuthoritativeDecision,
     MasterDecision, SlaveDecision, PassiveDecision,
     ReceivedOn, OnlyByTopology, GrandmasterDS
<1>2. Settled => AtMostOneSlave
  <2> SUFFICES ASSUME Settled, NEW p \in Ports, NEW q \in Ports,
                      state[p] \in SlaveStates, ~Pending(p, Decide),
                      state[q] \in SlaveStates, ~Pending(q, Decide)
               PROVE  p = q
    BY DEF AtMostOneSlave, Decide
  <2>1. \A r \in {p, q} : Decision(r, Best(best_foreign), best_foreign[r]).kind = "Slave"
    BY DEF Settled, SlaveStates, Deciding, AnnounceReceivers, Decide
  <2> QED
    BY <1>1, <2>1
<1> QED
  BY <1>2, PortsAgree, PTL

----------------------------------------------------------------------------
(***************************************************************************)
(* Timeouts that must come.                                                *)
(***************************************************************************)

StrandedInv == TypeOK /\ NeverStranded

LEMMA StrandedNext == StrandedInv /\ [Next]_vars => StrandedInv'
<1> SUFFICES ASSUME StrandedInv, [Next]_vars PROVE NeverStranded'
  BY TypeNext DEF StrandedInv
<1> USE DEF StrandedInv
<1> DEFINE Waits(p) ==
      /\ state[p] \in AnnounceReceivers =>
           timer[p] = ART.kind \/ Has(queue[p], ART.kind)
      /\ state[p] = "PreMaster" => timer[p] = QT.kind \/ Has(queue[p], QT.kind)
<1>0. /\ TypeOK'
      /\ state \in [Ports -> States]
      /\ timer \in [Ports -> {NoTimer, ART.kind, QT.kind}]
      /\ queue \in [Ports -> Seq(Messages)]
      /\ \A r \in Ports : queue[r] \in Seq(Messages)
      /\ \A r \in Ports : Waits(r)
  BY TypeNext DEF TypeOK, NeverStranded, Pending
<1>a. (\A r \in Ports : Waits(r)') => NeverStranded'
  BY DEF NeverStranded, Pending
<1> HIDE DEF NeverStranded
<1>1. ASSUME NEW p \in Ports,
             \/ Initialized(p) \/ MasterClockSelected(p)
             \/ SynchronizationFault(p) \/ SendFails(p) \/ FaultCleared(p)
      PROVE  \A r \in Ports : Waits(r)'
  <2>1. /\ queue' = queue
        /\ \A r \in Ports \ {p} : state'[r] = state[r] /\ timer'[r] = timer[r]
        /\ \/ timer'[p] = ART.kind /\ state'[p] \in AnnounceReceivers
           \/ state'[p] \in {"Faulty", "Initializing"}
           \/ /\ state[p] = "Slave" /\ state'[p] = "Uncalibrated"
              /\ timer' = timer
    BY <1>0, <1>1 DEF Initialized, MasterClockSelected, SynchronizationFault,
       SendFails, FaultCleared, Enter, AnnounceReceivers
  <2> QED
    BY <1>0, <2>1 DEF AnnounceReceivers
<1>2. ASSUME NEW p \in Ports, Announce(p) PROVE \A r \in Ports : Waits(r)'
  <2>1. \/ queue' = queue
        \/ queue' = [r \in Ports |-> Append(queue[r], SDE(Best(by_port')))]
    BY <1>2 DEF Announce, GatedTrigger, Trigger, NotifyAll
  <2>2. SDE(Best(by_port')) \in Messages
    BY <1>0, BestIsBroadcast DEF TypeOK
  <2>3. \A r \in Ports : \A k : Has(queue[r], k) => Has(queue'[r], k)
    <3> SUFFICES ASSUME NEW r \in Ports, NEW k, Has(queue[r], k)
                 PROVE  Has(queue'[r], k)
      OBVIOUS
    <3> DEFINE m == SDE(Best(by_port'))
    <3>1. queue'[r] = queue[r] \/ queue'[r] = Append(queue[r], m)
      BY <2>1
    <3>2. m \in Messages /\ queue[r] \in Seq(Messages)
      BY <1>0, <2>2
    <3> HIDE DEF m
    <3>3. Has(Append(queue[r], m), k)
      BY <3>2, AppendHas
    <3> QED
      BY <3>1, <3>3, Zenon
  <2>4. /\ state' = state
        /\ \A r \in Ports : timer'[r] = timer[r] \/
             (timer'[r] = ART.kind /\ state[r] \in AnnounceReceivers)
    BY <1>0, <1>2 DEF Announce, GatedTrigger
  <2> QED
    BY <1>0, <2>3, <2>4 DEF AnnounceReceivers
<1>3. ASSUME NEW p \in Ports, HandleStateDecisionEvent(p)
      PROVE  \A r \in Ports : Waits(r)'
  <2>1. /\ queue[p] \in Seq(Messages) /\ queue[p] # <<>>
        /\ Head(queue[p]).kind \notin {ART.kind, QT.kind}
        /\ queue'[p] = Tail(queue[p])
        /\ \A r \in Ports \ {p} : queue'[r] = queue[r]
    BY <1>0, <1>3, Zenon DEF HandleStateDecisionEvent, RecommendedSlave,
     RecommendedMaster, RecommendedPassive, Receives, Popped, ART, QT
  <2>2. /\ Has(queue[p], ART.kind) => Has(queue'[p], ART.kind)
        /\ Has(queue[p], QT.kind) => Has(queue'[p], QT.kind)
    BY <2>1, TailHas
  <2>3. /\ \A r \in Ports \ {p} : state'[r] = state[r] /\ timer'[r] = timer[r]
        /\ \/ UNCHANGED <<state, timer>>
           \/ state'[p] \in {"Uncalibrated", "Passive"} /\ timer'[p] = ART.kind
           \/ state'[p] = "PreMaster" /\ timer'[p] = QT.kind
           \/ state'[p] = "Panicked"
    BY <1>0, <1>3, Zenon DEF HandleStateDecisionEvent, RecommendedSlave,
     RecommendedMaster, RecommendedPassive, Enter, Panic
  <2> QED
    BY <1>0, <2>1, <2>2, <2>3, Zenon DEF AnnounceReceivers
<1>4. ASSUME NEW p \in Ports, HandleAnnounceReceiptTimeout(p)
      PROVE  \A r \in Ports : Waits(r)'
  <2>1. /\ queue[p] \in Seq(Messages) /\ queue[p] # <<>>
        /\ Head(queue[p]).kind # QT.kind
    BY <1>0, <1>4 DEF HandleAnnounceReceiptTimeout, Receives, ART, QT
  <2>2. /\ Popped(p)[p] = Tail(queue[p])
        /\ \A r \in Ports \ {p} : Popped(p)[r] = queue[r]
        /\ \A r \in Ports : Popped(p)[r] \in Seq(Messages)
    BY <1>0, <2>1, TailFacts DEF Popped
  <2>3. /\ \A r \in Ports \ {p} : \A k : Has(queue[r], k) => Has(Popped(p)[r], k)
        /\ Has(queue[p], QT.kind) => Has(Popped(p)[p], QT.kind)
    BY <2>1, <2>2, TailHas
  <2>4. \A r \in Ports : \A k : Has(Popped(p)[r], k) => Has(queue'[r], k)
    <3>1. \/ queue' = Popped(p)
          \/ queue' = [r \in Ports |-> Append(Popped(p)[r], SDE(Best(by_port')))]
      BY <1>4 DEF HandleAnnounceReceiptTimeout, Trigger, NotifyAll
    <3>2. SDE(Best(by_port')) \in Messages
      BY <1>0, BestIsBroadcast DEF TypeOK
    <3> SUFFICES ASSUME NEW r \in Ports, NEW k, Has(Popped(p)[r], k)
                 PROVE  Has(queue'[r], k)
      OBVIOUS
    <3> DEFINE m == SDE(Best(by_port'))
    <3>3. queue'[r] = Popped(p)[r] \/ queue'[r] = Append(Popped(p)[r], m)
      BY <3>1
    <3>4. m \in Messages /\ Popped(p)[r] \in Seq(Messages)
      BY <2>2, <3>2
    <3> HIDE DEF m
    <3>5. Has(Append(Popped(p)[r], m), k)
      BY <3>4, AppendHas
    <3> QED
      BY <3>3, <3>5, Zenon
  <2>5. /\ \A r \in Ports \ {p} : state'[r] = state[r] /\ timer'[r] = timer[r]
        /\ \/ state'[p] \in {"Master", "Panicked"}
           \/ UNCHANGED <<state, timer>> /\ state[p] \notin AnnounceReceivers
    BY <1>0, <1>4 DEF HandleAnnounceReceiptTimeout, Enter, Panic
  <2> QED
    BY <1>0, <2>3, <2>4, <2>5, Zenon DEF AnnounceReceivers
<1>5. ASSUME NEW p \in Ports, HandleQualificationTimeout(p)
      PROVE  \A r \in Ports : Waits(r)'
  <2>1. /\ queue[p] \in Seq(Messages) /\ queue[p] # <<>>
        /\ Head(queue[p]).kind # ART.kind
        /\ queue'[p] = Tail(queue[p])
        /\ \A r \in Ports \ {p} : queue'[r] = queue[r]
    BY <1>0, <1>5 DEF HandleQualificationTimeout, Receives, Popped, ART, QT
  <2>2. Has(queue[p], ART.kind) => Has(queue'[p], ART.kind)
    BY <2>1, TailHas
  <2>3. /\ \A r \in Ports \ {p} : state'[r] = state[r] /\ timer'[r] = timer[r]
        /\ \/ state'[p] = "Master"
           \/ UNCHANGED <<state, timer>> /\ state[p] # "PreMaster"
    BY <1>0, <1>5 DEF HandleQualificationTimeout, Enter
  <2> QED
    BY <1>0, <2>1, <2>2, <2>3, Zenon DEF AnnounceReceivers
<1>6. ASSUME NEW p \in Ports, Fire(p) PROVE \A r \in Ports : Waits(r)'
  <2> DEFINE m == [kind |-> timer[p]]
  <2>1. m \in Messages /\ m.kind = timer[p]
    BY <1>6 DEF TypeOK, Fire, Messages, ART, QT
  <2>2. /\ queue'[p] = Append(queue[p], m)
        /\ \A r \in Ports \ {p} : queue'[r] = queue[r] /\ timer'[r] = timer[r]
        /\ state' = state
    BY <1>0, <1>6 DEF Fire
  <2> HIDE DEF m
  <2>3. /\ Has(queue'[p], timer[p])
        /\ \A k : Has(queue[p], k) => Has(queue'[p], k)
    BY <1>0, <2>1, <2>2, AppendHas
  <2>4. Waits(p)'
    BY <1>0, <2>2, <2>3
  <2>5. ASSUME NEW r \in Ports \ {p} PROVE Waits(r)'
    BY <1>0, <2>2
  <2> HIDE DEF Waits
  <2> QED
    BY <2>4, <2>5
<1>7. ASSUME UNCHANGED vars PROVE \A r \in Ports : Waits(r)'
  <2>1. UNCHANGED <<state, timer, queue>>
    BY <1>7 DEF vars
  <2> QED
    BY <1>0, <2>1
<1> HIDE DEF Waits
<1> QED
  BY <1>a, <1>1, <1>2, <1>3, <1>4, <1>5, <1>6, <1>7 DEF Next, Handle

\* No port waits for a timeout that will not come: in every state left by the
\* announce receipt or qualification timeout, that timeout is armed or queued,
\* so that no interleaving of restarts, cancellations and expiries loses it.
THEOREM NoPortStranded == Spec => []NeverStranded
<1>1. Init => StrandedInv
  BY TypeInit DEF Init, StrandedInv, NeverStranded, AnnounceReceivers
<1>2. StrandedInv /\ [Next]_vars => StrandedInv'
  BY StrandedNext
<1>3. StrandedInv => NeverStranded
  BY DEF StrandedInv
<1> QED
  BY <1>1, <1>2, <1>3, PTL DEF Spec

----------------------------------------------------------------------------
(***************************************************************************)
(* State decision events that must come.                                   *)
(***************************************************************************)

\* A port that was not initialized has heard nothing, and a listening port that
\* hears a qualified master has an event to decide on.
Heard(p) ==
  /\ state[p] = "Initializing" => best_foreign[p] = Empty
  /\ state[p] = "Listening" /\ best_foreign[p].qualified => Has(queue[p], Decide)

ListeningInv == AgreementInv /\ \A p \in Ports : Heard(p)

LEMMA ListeningNext ==
  ASSUME FaultsClear = FALSE
  PROVE  ListeningInv /\ [Next]_vars => ListeningInv'
<1> SUFFICES ASSUME ListeningInv, [Next]_vars PROVE \A r \in Ports : Heard(r)'
  BY AgreementNext DEF ListeningInv
<1>0. /\ TypeOK /\ TypeOK' /\ InStep
      /\ state \in [Ports -> States]
      /\ best_foreign \in [Ports -> Snapshots]
      /\ queue \in [Ports -> Seq(Messages)]
      /\ \A r \in Ports : queue[r] \in Seq(Messages)
      /\ \A r \in Ports : Heard(r)
  BY TypeNext DEF ListeningInv, AgreementInv, TypeOK
<1>1. ASSUME NEW p \in Ports,
             \/ Initialized(p) \/ MasterClockSelected(p)
             \/ SynchronizationFault(p) \/ SendFails(p) \/ FaultCleared(p)
      PROVE  \A r \in Ports : Heard(r)'
  <2>1. /\ UNCHANGED <<queue, best_foreign>>
        /\ \A r \in Ports \ {p} : state'[r] = state[r]
        /\ \/ state[p] = "Initializing" /\ state'[p] = "Listening"
           \/ state'[p] \notin {"Initializing", "Listening"}
    BY <1>0, <1>1 DEF Initialized, MasterClockSelected, SynchronizationFault,
       SendFails, FaultCleared, Enter
  <2>2. Empty.qualified = FALSE
    BY DEF Empty
  <2> QED
    BY <1>0, <2>1, <2>2 DEF Heard
<1>2. ASSUME NEW p \in Ports, Announce(p) PROVE \A r \in Ports : Heard(r)'
  <2>1. PICK e \in OnPort(p) :
          /\ best_foreign' = [best_foreign EXCEPT ![p] = e]
          /\ IF e = previous[p]
             THEN UNCHANGED <<previous, by_port, queue>>
             ELSE Room /\ Trigger(p, e, queue)
    BY <1>2, Zenon DEF Announce, GatedTrigger
  <2>2. state' = state /\ state[p] # "Initializing"
    BY <1>2 DEF Announce, GatedTrigger, Deciding, AnnounceReceivers, MasterStates
  <2>3. CASE e = previous[p]
    <3>1. UNCHANGED <<best_foreign, queue>>
      BY <1>0, <2>1, <2>3 DEF InStep
    <3> QED
      BY <1>0, <2>2, <3>1 DEF Heard
  <2>4. CASE e # previous[p]
    <3> DEFINE m == SDE(Best(by_port'))
    <3>1. \A r \in Ports : queue'[r] = Append(queue[r], m)
      BY <2>1, <2>4 DEF Trigger, NotifyAll
    <3>2. m \in Messages /\ m.kind = Decide
      BY <1>0, BestIsBroadcast DEF TypeOK, SDE, Decide
    <3> HIDE DEF m
    <3>3. ASSUME NEW r \in Ports PROVE Has(queue'[r], Decide)
      <4>1. queue[r] \in Seq(Messages) /\ queue'[r] = Append(queue[r], m)
        BY <1>0, <3>1
      <4> QED
        BY <3>2, <4>1, AppendHas
    <3>4. \A r \in Ports : state'[r] = "Initializing" => best_foreign'[r] = Empty
      BY <1>0, <2>1, <2>2 DEF Heard
    <3> QED
      BY <3>3, <3>4 DEF Heard
  <2> QED
    BY <2>3, <2>4
<1>3. ASSUME NEW p \in Ports, HandleStateDecisionEvent(p)
      PROVE  \A r \in Ports : Heard(r)'
  <2> DEFINE d == Decision(p, Head(queue[p]).e_best, best_foreign[p])
  <2>1. /\ \A r \in Ports \ {p} : queue'[r] = queue[r]
        /\ \A r \in Ports \ {p} : state'[r] = state[r]
        /\ best_foreign' = best_foreign
    BY <1>0, <1>3, Zenon DEF HandleStateDecisionEvent, RecommendedSlave,
     RecommendedMaster, RecommendedPassive, Popped, Enter, Panic
  <2>2. Heard(p)'
    <3>1. CASE state[p] = "Listening" /\ best_foreign[p].qualified
      <4>1. ~(state[p] \notin Deciding \/ Suppressed(p, d))
        BY <3>1 DEF Suppressed, ListeningWithholds,
     GrandMasterTracked, ParentTracked, PassiveAlready, Deciding, AnnounceReceivers, SlaveStates, MasterStates
      <4>2. state'[p] \in {"Uncalibrated", "PreMaster", "Passive", "Panicked"}
        BY <1>0, <1>3, <4>1, Zenon DEF HandleStateDecisionEvent, RecommendedSlave,
     RecommendedMaster, RecommendedPassive, Enter, Panic
      <4> QED
        BY <4>2 DEF Heard
    <3>2. CASE ~(state[p] = "Listening" /\ best_foreign[p].qualified)
      <4>1. \/ state'[p] = state[p]
            \/ state'[p] \in {"Uncalibrated", "PreMaster", "Passive", "Panicked"}
        BY <1>0, <1>3, Zenon DEF HandleStateDecisionEvent, RecommendedSlave,
     RecommendedMaster, RecommendedPassive, Enter, Panic
      <4> QED
        BY <1>0, <2>1, <3>2, <4>1 DEF Heard
    <3> QED
      BY <3>1, <3>2
  <2> QED
    BY <1>0, <2>1, <2>2 DEF Heard
<1>4. ASSUME NEW p \in Ports, HandleAnnounceReceiptTimeout(p)
      PROVE  \A r \in Ports : Heard(r)'
  <2>1. /\ queue[p] \in Seq(Messages) /\ queue[p] # <<>>
        /\ Head(queue[p]).kind # Decide
    BY <1>0, <1>4 DEF HandleAnnounceReceiptTimeout, Receives, Decide
  <2>2. Popped(p) \in [Ports -> Seq(Messages)]
    BY <1>0, <2>1, TailFacts DEF Popped
  <2>3. CASE state[p] \in AnnounceReceivers
    <3> DEFINE m == SDE(Best(by_port'))
    <3>1. /\ \A r \in Ports : queue'[r] = Append(Popped(p)[r], m)
          /\ state' = [state EXCEPT ![p] = "Master"]
          /\ best_foreign' = best_foreign
      BY <1>4, <2>3 DEF HandleAnnounceReceiptTimeout, Trigger, NotifyAll, Enter
    <3>2. m \in Messages /\ m.kind = Decide
      BY <1>0, BestIsBroadcast DEF TypeOK, SDE, Decide
    <3> HIDE DEF m
    <3>3. ASSUME NEW r \in Ports PROVE Has(queue'[r], Decide)
      <4>1. Popped(p)[r] \in Seq(Messages) /\ queue'[r] = Append(Popped(p)[r], m)
        BY <2>2, <3>1
      <4> QED
        BY <3>2, <4>1, AppendHas
    <3> QED
      BY <1>0, <3>1, <3>3 DEF Heard
  <2>4. CASE state[p] \notin AnnounceReceivers
    <3>1. /\ \A r \in Ports \ {p} : queue'[r] = queue[r] /\ state'[r] = state[r]
          /\ state'[p] = state[p] \/ state'[p] = "Panicked"
          /\ best_foreign' = best_foreign
      BY <1>0, <1>4, <2>4 DEF HandleAnnounceReceiptTimeout, Popped, Enter, Panic
    <3> QED
      BY <1>0, <2>4, <3>1 DEF Heard, AnnounceReceivers
  <2> QED
    BY <2>3, <2>4
<1>5. ASSUME NEW p \in Ports, HandleQualificationTimeout(p)
      PROVE  \A r \in Ports : Heard(r)'
  <2>1. /\ queue[p] \in Seq(Messages) /\ queue[p] # <<>>
        /\ Head(queue[p]).kind # Decide
        /\ queue'[p] = Tail(queue[p])
        /\ \A r \in Ports \ {p} : queue'[r] = queue[r] /\ state'[r] = state[r]
        /\ state'[p] = state[p] \/ state'[p] = "Master"
        /\ best_foreign' = best_foreign
    BY <1>0, <1>5 DEF HandleQualificationTimeout, Receives, Popped, Enter, Decide
  <2>2. Has(queue[p], Decide) => Has(queue'[p], Decide)
    BY <2>1, TailHas
  <2> QED
    BY <1>0, <2>1, <2>2, Zenon DEF Heard
<1>6. ASSUME NEW p \in Ports, Fire(p) PROVE \A r \in Ports : Heard(r)'
  <2> DEFINE m == [kind |-> timer[p]]
  <2>1. m \in Messages
    BY <1>0, <1>6 DEF TypeOK, Fire, Messages, ART, QT
  <2>2. /\ queue'[p] = Append(queue[p], m)
        /\ \A r \in Ports \ {p} : queue'[r] = queue[r]
        /\ UNCHANGED <<state, best_foreign>>
    BY <1>0, <1>6 DEF Fire
  <2> HIDE DEF m
  <2>3. Has(queue[p], Decide) => Has(queue'[p], Decide)
    BY <1>0, <2>1, <2>2, AppendHas
  <2> QED
    BY <1>0, <2>2, <2>3, Zenon DEF Heard
<1>7. ASSUME UNCHANGED vars PROVE \A r \in Ports : Heard(r)'
  BY <1>0, <1>7 DEF vars, Heard
<1> QED
  BY <1>1, <1>2, <1>3, <1>4, <1>5, <1>6, <1>7 DEF Next, Handle

\* Where the host clears no fault, no state decision event is lost that a
\* listening port needs: one that hears a qualified master has it queued.
THEOREM ListeningMovesOn ==
  ASSUME FaultsClear = FALSE
  PROVE  Spec => []ListeningDecides
<1>1. Init => ListeningInv
  BY AgreementInit DEF Init, ListeningInv, Heard
<1>2. ListeningInv /\ [Next]_vars => ListeningInv'
  BY ListeningNext, Zenon
<1>3. ListeningInv => ListeningDecides
  BY DEF ListeningInv, Heard, ListeningDecides, Pending, Decide
<1> QED
  BY <1>1, <1>2, <1>3, PTL DEF Spec

----------------------------------------------------------------------------
(***************************************************************************)
(* What best() elects.  The loop compares a candidate only with the best   *)
(* of the ports before it.                                                 *)
(***************************************************************************)

\* The masters the ports hear agree on what they say of a grandmaster, and none
\* of them is a port of this clock.
SoundNetwork ==
  /\ \A f, g \in Foreign : Consistent(f, g)
  /\ \A f \in Foreign, p \in Ports : f.source # [clock |-> D0.identity, port |-> p]

\* Of two qualified candidates one ranks before the other, unless they are the
\* same, and is_better_or_better_by_topology finds out which.
LEMMA CandidatesRank ==
  ASSUME SoundNetwork, NEW a \in Snapshots, NEW b \in Snapshots,
         a.qualified, b.qualified
  PROVE  /\ a \in QualifiedSnapshot /\ b \in QualifiedSnapshot
         /\ SnapshotBetter(a, b) <=> RanksBefore(a, b)
         /\ a = b \/ RanksBefore(a, b) \/ RanksBefore(b, a)
<1>1. ASSUME NEW e \in Snapshots, e.qualified
      PROVE  \E f \in Foreign, p \in Ports :
               e = Qualified(f.ds, f.source, [clock |-> D0.identity, port |-> p])
  <2>1. PICK p \in Ports : e \in OnPort(p)
    BY DEF Snapshots
  <2>2. e # Empty
    BY <1>1 DEF Empty
  <2> QED  BY <2>1, <2>2 DEF OnPort
<1>2. PICK f \in Foreign, p \in Ports :
        a = Qualified(f.ds, f.source, [clock |-> D0.identity, port |-> p])
  BY <1>1
<1>3. PICK g \in Foreign, q \in Ports :
        b = Qualified(g.ds, g.source, [clock |-> D0.identity, port |-> q])
  BY <1>1
<1>4. /\ f \in [ds : ClockDS, source : PortIdentity] /\ D0.identity \in Nat
      /\ g \in [ds : ClockDS, source : PortIdentity] /\ p \in Nat /\ q \in Nat
  BY PtpClockAssumption, BmcaAssumption DEF Ports, ClockDS
<1>5. /\ a.ds = f.ds /\ a.source = f.source /\ a.receiver = [clock |-> D0.identity, port |-> p]
      /\ b.ds = g.ds /\ b.source = g.source /\ b.receiver = [clock |-> D0.identity, port |-> q]
  BY <1>2, <1>3 DEF Qualified
<1>6. a \in QualifiedSnapshot /\ b \in QualifiedSnapshot
  BY <1>2, <1>3, <1>4 DEF Qualified, QualifiedSnapshot, PortIdentity
<1>7. Consistent(a, b) /\ ProperTopology(a) /\ ProperTopology(b)
  BY <1>5 DEF SoundNetwork, Consistent, ProperTopology
<1>8. SnapshotBetter(a, b) <=> RanksBefore(a, b)
  BY <1>6, <1>7, ComparisonRanks DEF SnapshotBetter
<1>9. ASSUME ~RanksBefore(a, b), ~RanksBefore(b, a)
      PROVE  a = b
  <2>1. a.source = b.source /\ a.receiver.port = b.receiver.port
    BY <1>6, <1>9, RankingIsStrictOrder
  <2>2. f.ds.identity = g.ds.identity
    BY <1>4, <1>5, <1>9, AttributesTotal DEF RanksBefore
  <2>3. f.ds = g.ds
    BY <1>4, <1>5, <1>7, <1>9, <2>2 DEF RanksBefore, Consistent, ClockDS
  <2> QED  BY <1>2, <1>3, <1>5, <2>1, <2>3
<1> QED  BY <1>6, <1>8, <1>9

\* The loop of best().
LEMMA BestScan ==
  ASSUME NEW c \in [Ports -> Snapshots]
  PROVE  \E best \in [0..N -> Snapshots] :
           /\ Best(c) = best[N] /\ best[0] = Empty
           /\ \A i \in 1..N :
                best[i] = IF SnapshotBetter(c[i], best[i - 1]) THEN c[i] ELSE best[i - 1]
<1> DEFINE Step(i, e) == IF SnapshotBetter(c[i], e) THEN c[i] ELSE e
           Def(f) == [i \in 0..N |-> IF i = 0 THEN Empty ELSE Step(i, f[i - 1])]
           best == CHOOSE f : f = Def(f)
           g == [x \in (1..N) \X Snapshots |-> Step(x[1], x[2])]
<1>0. N \in Nat \ {0} /\ Empty \in Snapshots
  BY BmcaAssumption DEF Snapshots, OnPort, Ports
<1>1. Best(c) = best[N]
  BY DEF Best
<1>2. \A i \in 1..N, e \in Snapshots : Step(i, e) \in Snapshots
  BY DEF Ports
<1> HIDE DEF Step
<1>3. /\ g \in [(1..N) \X Snapshots -> Snapshots]
      /\ \A i \in 1..N, e \in Snapshots : g[<<i, e>>] = Step(i, e)
  BY <1>2
<1> HIDE DEF g
<1>4. PICK f : Scans(f, N, Snapshots, Empty, g)
  BY <1>0, <1>3, ScanExists, Zenon
<1>5. f = Def(f)
  <2>1. /\ f \in [0..N -> Snapshots] /\ f[0] = Empty
        /\ \A i \in 1..N : f[i] = g[<<i, f[i - 1]>>]
    BY <1>4 DEF Scans
  <2>2. ASSUME NEW i \in 0..N, i # 0
        PROVE  f[i] = Step(i, f[i - 1])
    <3>1. i \in 1..N /\ i - 1 \in 0..N
      BY <1>0, <2>2
    <3>2. f[i - 1] \in Snapshots
      BY <2>1, <3>1
    <3> QED  BY <1>3, <2>1, <3>1, <3>2, Zenon
  <2> QED  BY <2>1, <2>2
<1>6. best = Def(best)
  <2> HIDE DEF Def
  <2> QED  BY <1>5
<1> HIDE DEF best
<1>7. best = [i \in 0..N |-> best[i]] /\ best[0] = Empty
  BY <1>0, <1>6
<1>8. ASSUME NEW i \in 1..N
      PROVE  best[i] = Step(i, best[i - 1])
  <2>1. i \in 0..N /\ i # 0
    BY <1>0
  <2> QED  BY <1>6, <2>1, Zenon
<1>9. Scans(best, N, Snapshots, Empty, g)
  BY <1>0, <1>3, <1>7, <1>8, ScanTyped, Zenon
<1>10. best \in [0..N -> Snapshots]
  BY <1>9 DEF Scans
<1> QED  BY <1>1, <1>7, <1>8, <1>10, Zenon DEF Step

\* Whatever the ports hear, the loop ends at the candidate that ranks first.
LEMMA BestOfAll ==
  ASSUME SoundNetwork, NEW c \in [Ports -> Snapshots]
  PROVE  \A p \in Ports : c[p].qualified =>
           /\ Best(c).qualified
           /\ Best(c) = c[p] \/ RanksBefore(Best(c), c[p])
<1>0. N \in Nat /\ Ports = 1..N
  BY BmcaAssumption DEF Ports
<1>1. PICK best \in [0..N -> Snapshots] :
        /\ Best(c) = best[N] /\ best[0] = Empty
        /\ \A i \in 1..N :
             best[i] = IF SnapshotBetter(c[i], best[i - 1]) THEN c[i] ELSE best[i - 1]
  BY BestScan
<1> DEFINE Leads(e, k) == \A j \in 1..k : c[j].qualified =>
                            e.qualified /\ (e = c[j] \/ RanksBefore(e, c[j]))
           P == {i \in 0..N : Leads(best[i], i)}
<1>2. 0 \in P
  BY <1>0
<1>3. ASSUME NEW i \in 1..N, i - 1 \in P
      PROVE  i \in P
  <2> DEFINE a == best[i - 1]
             e == c[i]
  <2>1. /\ a \in Snapshots /\ e \in Snapshots /\ i \in 0..N /\ i - 1 \in 0..N
        /\ best[i] = IF SnapshotBetter(e, a) THEN e ELSE a
    BY <1>0, <1>1
  <2>2. Leads(a, i - 1)
    BY <1>3
  <2>3. \A j \in 1..i : j = i \/ j \in 1..(i - 1)
    BY <1>0
  <2>4. \A j \in 1..(i - 1) : c[j] \in Snapshots
    BY <1>0
  <2> HIDE DEF a
  <2>5. CASE SnapshotBetter(e, a)
    <3>1. e.qualified /\ best[i] = e
      BY <2>1, <2>5 DEF SnapshotBetter
    <3>2. ASSUME NEW j \in 1..(i - 1), c[j].qualified
          PROVE  RanksBefore(e, c[j])
      <4>1. c[j] \in Snapshots /\ a.qualified /\ (a = c[j] \/ RanksBefore(a, c[j]))
        BY <2>2, <2>4, <3>2
      <4>2. RanksBefore(e, a)
        BY <2>1, <2>5, <3>1, <4>1, CandidatesRank
      <4>3. /\ e \in QualifiedSnapshot /\ a \in QualifiedSnapshot
            /\ c[j] \in QualifiedSnapshot
        BY <2>1, <3>1, <3>2, <4>1, CandidatesRank
      <4> QED  BY <4>1, <4>2, <4>3, RankingIsStrictOrder
    <3> QED  BY <2>1, <2>3, <3>1, <3>2
  <2>6. CASE ~SnapshotBetter(e, a)
    <3>1. best[i] = a
      BY <2>1, <2>6
    <3>2. ASSUME e.qualified
          PROVE  a.qualified /\ (a = e \/ RanksBefore(a, e))
      <4>1. a.qualified
        BY <2>6, <3>2 DEF SnapshotBetter
      <4> QED  BY <2>1, <2>6, <3>2, <4>1, CandidatesRank
    <3> QED  BY <2>1, <2>2, <2>3, <3>1, <3>2
  <2> QED  BY <2>5, <2>6
<1>4. N \in P
  <2> HIDE DEF P
  <2> QED  BY <1>0, <1>2, <1>3, Induction
<1> QED  BY <1>0, <1>1, <1>4

\* The master that best() broadcasts ranks before those that all other ports
\* hear, for any number of ports and any masters that agree on what they say of
\* a grandmaster (bmca.rs, MultiPortForeignCandidates::best): which port a
\* candidate is on, and in which order the candidates came, does not matter.
THEOREM BestIsFirst ==
  ASSUME SoundNetwork
  PROVE  Spec => []BestRanksFirst
<1>1. TypeOK => BestRanksFirst
  BY BestOfAll, Zenon DEF TypeOK, BestRanksFirst
<1> QED  BY <1>1, TypeCorrect, PTL

=============================================================================
