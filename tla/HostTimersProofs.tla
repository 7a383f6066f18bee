-------------------------- MODULE HostTimersProofs --------------------------
(***************************************************************************)
(* The timers of the two hosts.                                            *)
(*                                                                         *)
(* The daemon, for any handles, messages and bounds: no task sleeps        *)
(* without a handle that can cancel it, and every behaviour of its         *)
(* timeouts is one of Timeouts.                                            *)
(*                                                                         *)
(* The embedded demo, for any intervals and any size of the table: the     *)
(* port has the role that it should have whenever no state decision event  *)
(* waits in its slot, and the timers of its role run.                      *)
(***************************************************************************)
EXTENDS Integers, Sequences, TokioTimeouts, EmbeddedDemo, TLAPS

----------------------------------------------------------------------------
(* The daemon *)

TokioTypes ==
  /\ msg \in [Handles -> Messages \cup {None}]
  /\ join \in [Handles -> Ids \cup {None}]
  /\ tasks \in [Ids -> Messages \cup {None}]
  /\ spawned \in 0..MaxTasks
  /\ channel \in Seq(Messages)

\* A handle joins a task that was spawned, and only while it exists; no two handles
\* join the same task; a task that sleeps is joined.
Joined ==
  /\ \A h \in Handles : join[h] # None => Live(h) /\ join[h] <= spawned
  /\ \A g, h \in Handles : join[g] = join[h] /\ join[g] # None => g = h
  /\ \A i \in Ids : tasks[i] # None => \E h \in Handles : join[h] = i

TokioInv == TokioTypes /\ Joined

LEMMA IdsAreNumbers == None \notin Ids /\ Ids \subseteq Nat
BY TokioAssumption DEF Ids

\* An id that has not been given out is the id of no task.
LEMMA FreshId ==
  ASSUME TokioInv, spawned < MaxTasks
  PROVE  /\ spawned + 1 \in Ids
         /\ tasks[spawned + 1] = None
         /\ \A h \in Handles : join[h] # spawned + 1
<1>1. spawned \in Nat /\ spawned + 1 \in Ids
  BY TokioAssumption DEF TokioInv, TokioTypes, Ids
<1>2. \A h \in Handles : join[h] # spawned + 1
  <2> SUFFICES ASSUME NEW h \in Handles, join[h] = spawned + 1 PROVE FALSE
    OBVIOUS
  <2>1. join[h] # None
    BY <1>1, IdsAreNumbers
  <2> QED
    BY <1>1, <2>1 DEF TokioInv, Joined
<1> QED
  BY <1>1, <1>2 DEF TokioInv, Joined

LEMMA ResetKeeps ==
  ASSUME TokioInv, NEW h \in Handles, NEW m \in Messages, Live(h), Reset(h, m),
         msg' \in [Handles -> Messages \cup {None}],
         \A g \in Handles : Live(g) => Live(g)'
  PROVE  TokioInv'
<1> USE DEF Ids, Live
<1>1. spawned + 1 \in Ids /\ tasks[spawned + 1] = None /\ \A g \in Handles : join[g] # spawned + 1
  BY FreshId DEF Reset
<1>2. TokioTypes'
  <2>1. Aborted(h) \in [Ids -> Messages \cup {None}]
    BY DEF TokioInv, TokioTypes, Aborted
  <2>2. tasks' \in [Ids -> Messages \cup {None}]
    BY <2>1, Zenon DEF Reset
  <2>3. join' \in [Handles -> Ids \cup {None}]
    BY <1>1 DEF TokioInv, TokioTypes, Reset
  <2> QED
    BY <1>1, <2>2, <2>3, TokioAssumption DEF TokioInv, TokioTypes, Reset
<1>3. \A g \in Handles : join'[g] = IF g = h THEN spawned + 1 ELSE join[g]
  BY DEF TokioInv, TokioTypes, Reset
<1>4. \A i \in Ids : tasks'[i] = IF i = spawned + 1 THEN m
                                ELSE IF i = join[h] THEN None ELSE tasks[i]
  BY DEF Reset, Aborted
<1>5. spawned' = spawned + 1 /\ spawned \in Nat /\ None \notin Ids
  BY TokioAssumption DEF TokioInv, TokioTypes, Reset
<1>6. \A g \in Handles : join'[g] # None => Live(g)' /\ join'[g] <= spawned'
  <2> SUFFICES ASSUME NEW g \in Handles, join'[g] # None
               PROVE  Live(g)' /\ join'[g] <= spawned'
    OBVIOUS
  <2>1. CASE g = h
    BY <1>3, <1>5, <2>1
  <2>2. CASE g # h
    <3>1. join'[g] = join[g] /\ join[g] \in Ids /\ Live(g) /\ join[g] <= spawned
      BY <1>3, <2>2 DEF TokioInv, Joined, TokioTypes
    <3> QED
      BY <1>5, <3>1
  <2> QED
    BY <2>1, <2>2
<1>7. \A f, g \in Handles : join'[f] = join'[g] /\ join'[f] # None => f = g
  BY <1>1, <1>3 DEF TokioInv, Joined
<1>8. \A i \in Ids : tasks'[i] # None => \E g \in Handles : join'[g] = i
  <2> SUFFICES ASSUME NEW i \in Ids, tasks'[i] # None
               PROVE  \E g \in Handles : join'[g] = i
    OBVIOUS
  <2>1. CASE i = spawned + 1
    BY <1>3, <2>1
  <2>2. CASE i # spawned + 1
    <3>1. i # join[h] /\ tasks[i] # None
      BY <1>4, <2>2
    <3>2. PICK g \in Handles : join[g] = i
      BY <3>1 DEF TokioInv, Joined
    <3> QED
      BY <1>3, <3>1, <3>2
  <2> QED
    BY <2>1, <2>2
<1> QED
  BY <1>2, <1>6, <1>7, <1>8 DEF TokioInv, Joined

LEMMA TokioPreserved == TokioInv /\ [TokioNext]_tokioVars => TokioInv'
<1> SUFFICES ASSUME TokioInv, [TokioNext]_tokioVars PROVE TokioInv'
  OBVIOUS
<1>1. CASE UNCHANGED tokioVars
  BY <1>1 DEF tokioVars, TokioInv, TokioTypes, Joined, Live
<1>2. ASSUME NEW h \in Handles, Restart(h) PROVE TokioInv'
  <2>1. msg[h] \in Messages
    BY <1>2 DEF TokioInv, TokioTypes, Restart, Live
  <2> QED
    BY <1>2, <2>1, ResetKeeps DEF Restart, TokioInv, TokioTypes, Live
<1>3. ASSUME NEW h \in Handles, NEW m \in Messages, RestartWithMessage(h, m) PROVE TokioInv'
  <2>1. msg' \in [Handles -> Messages \cup {None}] /\ \A g \in Handles : Live(g) => Live(g)'
    BY <1>3, TokioAssumption DEF RestartWithMessage, TokioInv, TokioTypes, Live
  <2> QED
    BY <1>3, <2>1, ResetKeeps DEF RestartWithMessage
<1>4. ASSUME NEW h \in Handles, NEW m \in Messages, Create(h, m) PROVE TokioInv'
  BY <1>4, TokioAssumption DEF Create, TokioInv, TokioTypes, Joined, Live
<1>5. ASSUME NEW h \in Handles, NEW m \in Messages, SendAtOnce(h, m) PROVE TokioInv'
  BY <1>5, TokioAssumption DEF SendAtOnce, TokioInv, TokioTypes, Joined, Live
<1>6. ASSUME NEW h \in Handles, Drop(h) PROVE TokioInv'
  <2>1. TokioTypes'
    BY <1>6 DEF Drop, Aborted, TokioInv, TokioTypes
  <2>2. \A g \in Handles : /\ msg'[g] = IF g = h THEN None ELSE msg[g]
                           /\ join'[g] = IF g = h THEN None ELSE join[g]
    BY <1>6 DEF Drop, TokioInv, TokioTypes
  <2>3. \A i \in Ids : tasks'[i] # None => i # join[h] /\ tasks[i] # None
    BY <1>6 DEF Drop, Aborted
  <2>4. spawned' = spawned
    BY <1>6 DEF Drop
  <2> QED
    BY <2>1, <2>2, <2>3, <2>4 DEF TokioInv, Joined, Live
<1>7. ASSUME NEW i \in Ids, Wake(i) PROVE TokioInv'
  BY <1>7 DEF Wake, TokioInv, TokioTypes, Joined, Live
<1>8. CASE Take
  BY <1>8 DEF Take, TokioInv, TokioTypes, Joined, Live
<1> QED
  BY <1>1, <1>2, <1>3, <1>4, <1>5, <1>6, <1>7, <1>8 DEF TokioNext

LEMMA TokioInitially == TokioInit => TokioInv
BY TokioAssumption DEF TokioInit, TokioInv, TokioTypes, Joined, Live

LEMMA TokioInvariant == TokioSpec => []TokioInv
BY TokioInitially, TokioPreserved, PTL DEF TokioSpec

\* No task is left to send a message that nobody can cancel, however many handles,
\* messages and tasks there are (TokioTimeout::reset, Drop).
THEOREM TasksAreJoined == TokioSpec => []NoOrphanTask
<1>1. TokioInv => NoOrphanTask
  BY IdsAreNumbers DEF TokioInv, Joined, NoOrphanTask
<1> QED
  BY <1>1, TokioInvariant, PTL

----------------------------------------------------------------------------

\* A reset replaces what was scheduled for its handle, and for no other.
LEMMA ResetSchedules ==
  ASSUME TokioInv, NEW h \in Handles, NEW m \in Messages, Reset(h, m)
  PROVE  Scheduled' = [Scheduled EXCEPT ![h] = m]
<1>1. spawned + 1 \in Ids /\ \A g \in Handles : join[g] # spawned + 1
  BY FreshId DEF Reset
<1>2. \A g \in Handles : join'[g] = IF g = h THEN spawned + 1 ELSE join[g]
  BY DEF TokioInv, TokioTypes, Reset
<1>3. \A i \in Ids : tasks'[i] = IF i = spawned + 1 THEN m
                                ELSE IF i = join[h] THEN None ELSE tasks[i]
  BY DEF Reset, Aborted
<1>4. ASSUME NEW g \in Handles
      PROVE  Scheduled'[g] = IF g = h THEN m ELSE Scheduled[g]
  <2>1. CASE g = h
    BY <1>1, <1>2, <1>3, <2>1, IdsAreNumbers, Zenon DEF Scheduled
  <2>2. CASE g # h /\ join[g] = None
    BY <1>2, <2>2 DEF Scheduled
  <2>3. CASE g # h /\ join[g] # None
    <3>1. join[g] \in Ids /\ join[g] # join[h] /\ join[g] # spawned + 1
      BY <1>1, <2>3 DEF TokioInv, Joined, TokioTypes
    <3> QED
      BY <1>2, <1>3, <2>3, <3>1 DEF Scheduled
  <2> QED
    BY <2>1, <2>2, <2>3
<1> QED
  BY <1>4, Zenon DEF Scheduled

\* Dropping a handle takes back what was scheduled for it, and nothing else.
LEMMA DropUnschedules ==
  ASSUME TokioInv, NEW h \in Handles, Drop(h)
  PROVE  Scheduled' = [Scheduled EXCEPT ![h] = None]
<1>1. \A g \in Handles : join'[g] = IF g = h THEN None ELSE join[g]
  BY DEF TokioInv, TokioTypes, Drop
<1>2. \A i \in Ids : tasks'[i] = IF i = join[h] THEN None ELSE tasks[i]
  BY DEF Drop, Aborted
<1>3. ASSUME NEW g \in Handles
      PROVE  Scheduled'[g] = IF g = h THEN None ELSE Scheduled[g]
  <2>1. CASE g = h \/ join[g] = None
    BY <1>1, <2>1 DEF Scheduled
  <2>2. CASE g # h /\ join[g] # None
    <3>1. join[g] \in Ids /\ join[g] # join[h]
      BY <2>2 DEF TokioInv, Joined, TokioTypes
    <3> QED
      BY <1>1, <1>2, <2>2, <3>1 DEF Scheduled
  <2> QED
    BY <2>1, <2>2
<1> QED
  BY <1>3, Zenon DEF Scheduled

\* A task that wakes fires the timeout of the handle that joins it.
LEMMA WakeFires ==
  ASSUME TokioInv, NEW i \in Ids, Wake(i)
  PROVE  \E h \in Handles : Promise!Fire(h)
<1>1. PICK h \in Handles : join[h] = i
  BY DEF TokioInv, Joined, Wake
<1>2. Scheduled[h] = tasks[i]
  BY <1>1, IdsAreNumbers DEF Scheduled
<1>3. \A g \in Handles : g # h => join[g] # i
  BY <1>1, IdsAreNumbers DEF TokioInv, Joined
<1>4. \A j \in Ids : tasks'[j] = IF j = i THEN None ELSE tasks[j]
  BY DEF TokioInv, TokioTypes, Wake
<1>5. ASSUME NEW g \in Handles
      PROVE  Scheduled'[g] = IF g = h THEN None ELSE Scheduled[g]
  <2>1. join[g] \in Ids \cup {None} /\ join' = join
    BY DEF TokioInv, TokioTypes, Wake
  <2> QED
    BY <1>1, <1>3, <1>4, <2>1 DEF Scheduled
<1>6. Scheduled' = [Scheduled EXCEPT ![h] = None]
  BY <1>5, Zenon DEF Scheduled
<1> QED
  BY <1>2, <1>6, Zenon DEF Wake, Room, Promise!Fire, Promise!Room

LEMMA Simulation == TokioInv /\ [TokioNext]_tokioVars => [Promise!Next]_(Promise!vars)
<1> SUFFICES ASSUME TokioInv, [TokioNext]_tokioVars PROVE Promise!Next \/ UNCHANGED Promise!vars
  BY DEF Promise!Next, Promise!vars
<1> USE DEF Promise!Live, Live, Promise!Room, Room
<1>1. CASE UNCHANGED tokioVars
  BY <1>1 DEF tokioVars, Promise!vars, Scheduled
<1>2. ASSUME NEW h \in Handles, Restart(h) PROVE Promise!Restart(h)
  <2>1. msg[h] \in Messages
    BY <1>2 DEF TokioInv, TokioTypes, Restart
  <2> QED
    BY <1>2, <2>1, ResetSchedules, Zenon DEF Restart, Reset, Promise!Restart
<1>3. ASSUME NEW h \in Handles, NEW m \in Messages, RestartWithMessage(h, m)
      PROVE  Promise!RestartWithMessage(h, m)
  BY <1>3, ResetSchedules, Zenon DEF RestartWithMessage, Reset, Promise!RestartWithMessage
<1>4. ASSUME NEW h \in Handles, NEW m \in Messages, Create(h, m)
      PROVE  Promise!Create(h, m)
  BY <1>4 DEF Create, Promise!Create, Scheduled
<1>5. ASSUME NEW h \in Handles, NEW m \in Messages, SendAtOnce(h, m)
      PROVE  Promise!Deliver(h, m)
  BY <1>5 DEF SendAtOnce, Promise!Deliver, Scheduled
<1>6. ASSUME NEW h \in Handles, Drop(h) PROVE Promise!Drop(h)
  BY <1>6, DropUnschedules, Zenon DEF Drop, Promise!Drop
<1>7. ASSUME NEW i \in Ids, Wake(i) PROVE \E h \in Handles : Promise!Fire(h)
  BY <1>7, WakeFires
<1>8. ASSUME Take PROVE Promise!Take
  BY <1>8 DEF Take, Promise!Take, Scheduled
<1> QED
  BY <1>1, <1>2, <1>3, <1>4, <1>5, <1>6, <1>7, <1>8 DEF TokioNext, Promise!Next

\* The timeouts of the daemon implement the timeouts that the core is written for,
\* for any handles, messages and bounds; that what is scheduled is delivered in the
\* end is left to the runs (TokioTimeout).
THEOREM Implements == TokioSpec => Promise!Spec
<1>1. TokioInit => Promise!Init
  BY DEF TokioInit, Promise!Init, Scheduled
<1> QED
  BY <1>1, Simulation, TokioInvariant, PTL DEF TokioSpec, Promise!Spec

----------------------------------------------------------------------------
(* The embedded demo *)

SlotMessages == {"StateDecisionEvent", "AnnounceReceiptTimeout", "QualificationTimeout",
             "AnnounceSendTimeout", "SyncTimeout", "DelayRequestTimeout"}

SlotType == [active : BOOLEAN, left : Int, msg : SlotMessages]

\* Slot h is the one that the port holds for m.
IsHeld(s, m, h) ==
  h \in 1..Len(s) /\ s[h].msg = m /\ \A j \in 1..Len(s) : s[j].msg = m => j <= h

HasTimer(s, m) == \E h \in 1..Len(s) : IsHeld(s, m, h) /\ s[h].active

\* The timers that the next step of a state waits for.
Awaited(r) ==
  {m \in SlotMessages :
     \/ m = "AnnounceReceiptTimeout" /\ r \in {"Listening", "Uncalibrated", "Slave"}
     \/ m = "QualificationTimeout" /\ r = "PreMaster"
     \/ m = "DelayRequestTimeout" /\ r \in {"Uncalibrated", "Slave"}
     \/ m \in {"AnnounceSendTimeout", "SyncTimeout"} /\ r = "Master"}

Roles == {"Listening", "Uncalibrated", "Slave", "PreMaster", "Master"}

SlotsInv ==
  /\ slots \in Seq(SlotType) /\ Len(slots) >= 1
  /\ \A i \in 1..Len(slots) : slots[i].msg = "StateDecisionEvent" <=> i = 1

\* Slot 1 always has the snapshot of what the port hears now: what overwrites it is
\* newer, and nothing that the port hears goes past it.
TimerInv ==
  /\ SlotsInv
  /\ role \in Roles \cup {"Exhausted", "IllegalTransition"}
  /\ snapshot = heard
  /\ Timers!RoleSettled
  /\ role \in Roles => \A m \in Awaited(role) : HasTimer(slots, m)

\* The scan starts at slot 1.
ScanInv == scan \in Nat \ {0}

LEMMA TimerConstants ==
  /\ ReceiptTicks \in Nat \ {0} /\ CycleTicks \in Nat \ {0}
  /\ MaxTimers \in Nat \ {0} /\ MaxLag \in Nat
BY DemoAssumption DEF Timers!TimerSlotsAssumption

LEMMA Concatenated ==
  ASSUME NEW E, NEW s \in Seq(E), NEW t \in Seq(E)
  PROVE  /\ s \o t \in Seq(E) /\ Len(s \o t) = Len(s) + Len(t)
         /\ \A i \in 1..Len(s) : (s \o t)[i] = s[i]
         /\ \A i \in (Len(s) + 1)..(Len(s) + Len(t)) : (s \o t)[i] = t[i - Len(s)]
OBVIOUS

LEMMA HeldIs ==
  ASSUME NEW s \in Seq(SlotType), NEW m, NEW h, IsHeld(s, m, h)
  PROVE  Timers!Held(s, m) = h
<1>1. h \in 1..Len(s) /\ s[h].msg = m /\ \A j \in 1..Len(s) : s[j].msg = m => j <= h
  BY DEF IsHeld
<1>2. \A x \in 1..Len(s) :
        (s[x].msg = m /\ \A j \in (x + 1)..Len(s) : s[j].msg # m) <=> x = h
  BY <1>1
<1> QED  BY <1>1, <1>2 DEF Timers!Held

\* TimerSlot::restart makes the slot active and leaves the others alone.
LEMMA RestartedIs ==
  ASSUME NEW s \in Seq(SlotType), NEW i \in 1..Len(s), NEW d \in Int
  PROVE  /\ Timers!Restarted(s, i, d) \in Seq(SlotType)
         /\ Len(Timers!Restarted(s, i, d)) = Len(s)
         /\ Timers!Restarted(s, i, d)[i].active
         /\ \A j \in 1..Len(s) : Timers!Restarted(s, i, d)[j].msg = s[j].msg
         /\ \A j \in 1..Len(s) \ {i} : Timers!Restarted(s, i, d)[j] = s[j]
<1> DEFINE t == Timers!Restarted(s, i, d)
<1>1. s[i] \in SlotType /\ [s[i] EXCEPT !.active = TRUE] \in SlotType
  <2>1. s[i] \in SlotType
    OBVIOUS
  <2>2. \A a \in SlotType : [a EXCEPT !.active = TRUE] \in SlotType
    BY Zenon DEF SlotType
  <2> QED  BY <2>1, <2>2
<1>2. [[s[i] EXCEPT !.active = TRUE] EXCEPT !.left = d] \in SlotType
  BY <1>1, Zenon DEF SlotType
<1>3. t = [s EXCEPT ![i] = [[s[i] EXCEPT !.active = TRUE] EXCEPT !.left = d]]
  BY Zenon DEF Timers!Restarted, SlotType
<1>4. t \in Seq(SlotType) /\ Len(t) = Len(s)
  BY <1>2, <1>3
<1>5. t[i].active = TRUE /\ t[i].msg = s[i].msg
  BY <1>1, <1>3 DEF SlotType
<1>6. \A j \in 1..Len(s) \ {i} : t[j] = s[j]
  BY <1>3
<1> QED  BY <1>4, <1>5, <1>6

\* A timer survives what leaves its slot alone and takes no other for its message.
LEMMA TimerStays ==
  ASSUME NEW s \in Seq(SlotType), NEW t \in Seq(SlotType), NEW m,
         Len(t) >= Len(s),
         \A j \in 1..Len(s) : t[j].msg = s[j].msg,
         \A j \in 1..Len(s) : s[j].msg = m /\ s[j].active => t[j].active,
         \A j \in (Len(s) + 1)..Len(t) : t[j].msg # m,
         HasTimer(s, m)
  PROVE  HasTimer(t, m)
<1>1. PICK h \in 1..Len(s) : IsHeld(s, m, h) /\ s[h].active
  BY DEF HasTimer
<1>2. h \in 1..Len(t) /\ t[h].msg = m /\ t[h].active
  BY <1>1 DEF IsHeld
<1>3. ASSUME NEW j \in 1..Len(t), t[j].msg = m PROVE j <= h
  <2>1. j \in 1..Len(s)
    BY <1>3
  <2> QED  BY <2>1, <1>1, <1>3 DEF IsHeld
<1> QED  BY <1>2, <1>3 DEF HasTimer, IsHeld

\* The messages of the timers that a state starts.
Fresh(r) ==
  CASE r \in {"Listening", "Slave"} -> {"AnnounceReceiptTimeout"}
    [] r = "Uncalibrated" -> {"AnnounceReceiptTimeout", "DelayRequestTimeout"}
    [] r = "PreMaster" -> {"QualificationTimeout"}
    [] r = "Master" -> {"AnnounceSendTimeout", "SyncTimeout"}

LEMMA TimersOfRole ==
  ASSUME NEW r \in Roles
  PROVE  /\ Timers!TimersOf(r) \in Seq(SlotMessages \X Int)
         /\ Len(Timers!TimersOf(r)) \in {1, 2}
         /\ \A i \in 1..Len(Timers!TimersOf(r)) :
              /\ Timers!TimersOf(r)[i][1] \in Fresh(r)
              /\ \A j \in 1..Len(Timers!TimersOf(r)) :
                   Timers!TimersOf(r)[j][1] = Timers!TimersOf(r)[i][1] => j <= i
         /\ \A m \in Fresh(r) : \E i \in 1..Len(Timers!TimersOf(r)) :
              Timers!TimersOf(r)[i][1] = m
         /\ Fresh(r) \subseteq SlotMessages \ {"StateDecisionEvent"}
<1>1. CASE r = "Listening"
  BY <1>1, TimerConstants DEF Timers!TimersOf, Timers!AnnounceReceipt, Timers!AtOnce, Fresh, SlotMessages
<1>2. CASE r = "Uncalibrated"
  BY <1>2, TimerConstants DEF Timers!TimersOf, Timers!AnnounceReceipt, Timers!AtOnce, Fresh, SlotMessages
<1>3. CASE r = "Slave"
  BY <1>3, TimerConstants DEF Timers!TimersOf, Timers!AnnounceReceipt, Timers!AtOnce, Fresh, SlotMessages
<1>4. CASE r = "PreMaster"
  BY <1>4, TimerConstants DEF Timers!TimersOf, Timers!AnnounceReceipt, Timers!AtOnce, Fresh, SlotMessages
<1>5. CASE r = "Master"
  BY <1>5, TimerConstants DEF Timers!TimersOf, Timers!AnnounceReceipt, Timers!AtOnce, Fresh, SlotMessages
<1> QED  BY <1>1, <1>2, <1>3, <1>4, <1>5, Zenon DEF Roles

\* What entering a state does to the table: it has an active slot for every timer of
\* the state, above the others, which stay as they are.
LEMMA Entered ==
  ASSUME NEW s \in Seq(SlotType), NEW r \in Roles, NEW t, Timers!Enter(s, r, t),
         role' # "Exhausted"
  PROVE  /\ role' = r /\ parent' = t
         /\ slots' \in Seq(SlotType) /\ Len(slots') >= Len(s)
         /\ \A j \in 1..Len(s) : slots'[j] = s[j]
         /\ \A j \in (Len(s) + 1)..Len(slots') : slots'[j].msg \in Fresh(r)
         /\ \A m \in Fresh(r) : HasTimer(slots', m)
<1> DEFINE ts == Timers!TimersOf(r)
           n == Len(s)
           new == [i \in 1..Len(ts) |->
                     [active |-> TRUE, left |-> ts[i][2], msg |-> ts[i][1]]]
<1>1. role' = r /\ parent' = t /\ slots' = s \o new
  BY Zenon DEF Timers!Enter, Timers!Started
<1>2. /\ ts \in Seq(SlotMessages \X Int) /\ Len(ts) \in Nat
      /\ \A i \in 1..Len(ts) :
           ts[i][1] \in Fresh(r) /\ \A j \in 1..Len(ts) : ts[j][1] = ts[i][1] => j <= i
      /\ \A m \in Fresh(r) : \E i \in 1..Len(ts) : ts[i][1] = m
  BY TimersOfRole
<1> HIDE DEF ts
<1>3. \A i \in 1..Len(ts) : ts[i] \in SlotMessages \X Int
  BY <1>2
<1>4. /\ new \in Seq(SlotType) /\ Len(new) = Len(ts)
      /\ \A i \in 1..Len(ts) : new[i].active /\ new[i].msg = ts[i][1]
  BY <1>2, <1>3 DEF SlotType
<1> HIDE DEF new
<1>5. /\ slots' \in Seq(SlotType) /\ Len(slots') = n + Len(ts)
      /\ \A j \in 1..n : slots'[j] = s[j]
      /\ \A j \in (n + 1)..(n + Len(ts)) : slots'[j] = new[j - n]
  <2>1. /\ s \o new \in Seq(SlotType) /\ Len(s \o new) = Len(s) + Len(new)
        /\ \A i \in 1..Len(s) : (s \o new)[i] = s[i]
        /\ \A i \in (Len(s) + 1)..(Len(s) + Len(new)) : (s \o new)[i] = new[i - Len(s)]
    BY <1>4, Concatenated, Zenon
  <2>2. slots' = s \o new /\ Len(new) = Len(ts)
    BY <1>1, <1>4
  <2> QED  BY <2>1, <2>2, Zenon
<1>6. n \in Nat
  OBVIOUS
<1> HIDE DEF n
<1>7. \A j \in (n + 1)..(n + Len(ts)) :
        /\ j - n \in 1..Len(ts)
        /\ slots'[j].active /\ slots'[j].msg = ts[j - n][1]
  <2>1. \A j \in (n + 1)..(n + Len(ts)) : j - n \in 1..Len(ts)
    BY <1>2, <1>6
  <2> QED  BY <2>1, <1>4, <1>5
<1>8. ASSUME NEW m \in Fresh(r) PROVE HasTimer(slots', m)
  <2>1. PICK i \in 1..Len(ts) : ts[i][1] = m
    BY <1>2
  <2>2. n + i \in (n + 1)..(n + Len(ts)) /\ (n + i) - n = i /\ n + i \in 1..Len(slots')
    BY <1>2, <1>5, <1>6
  <2>3. slots'[n + i].active /\ slots'[n + i].msg = m
    BY <2>1, <2>2, <1>7
  <2>4. ASSUME NEW j \in 1..Len(slots'), slots'[j].msg = m PROVE j <= n + i
    <3>1. CASE j <= n
      BY <3>1, <1>2, <1>5, <1>6
    <3>2. CASE j > n
      <4>1. j \in (n + 1)..(n + Len(ts))
        BY <3>2, <1>2, <1>5, <1>6
      <4>2. ts[j - n][1] = m /\ j - n \in 1..Len(ts)
        BY <4>1, <2>4, <1>7
      <4>3. j - n <= i
        BY <4>2, <2>1, <1>2
      <4> QED  BY <4>1, <4>3, <1>2, <1>6
    <3> QED  BY <3>1, <3>2, <1>2, <1>5, <1>6
  <2> QED  BY <2>2, <2>3, <2>4 DEF HasTimer, IsHeld
<1>9. Len(slots') >= n /\ \A j \in (n + 1)..Len(slots') : slots'[j].msg \in Fresh(r)
  <2>1. n + Len(ts) >= n
    BY <1>2, <1>6
  <2> QED  BY <2>1, <1>2, <1>5, <1>7
<1> QED  BY <1>1, <1>5, <1>8, <1>9 DEF n

\* The slots after one that kept the messages of s, and started those of fresh.
LEMMA SlotsKept ==
  ASSUME NEW s \in Seq(SlotType), NEW t \in Seq(SlotType), Len(s) >= 1, Len(t) >= Len(s),
         \A i \in 1..Len(s) : s[i].msg = "StateDecisionEvent" <=> i = 1,
         \A j \in 1..Len(s) : t[j].msg = s[j].msg,
         \A j \in (Len(s) + 1)..Len(t) : t[j].msg # "StateDecisionEvent"
  PROVE  Len(t) >= 1 /\ \A i \in 1..Len(t) : t[i].msg = "StateDecisionEvent" <=> i = 1
<1>1. ASSUME NEW i \in 1..Len(t) PROVE t[i].msg = "StateDecisionEvent" <=> i = 1
  <2>1. i \in 1..Len(s) \/ (i \in (Len(s) + 1)..Len(t) /\ i # 1)
    OBVIOUS
  <2> QED  BY <2>1
<1> QED  BY <1>1

\* t has the slots of s, with the same messages.
SameSlots(s, t) ==
  t \in Seq(SlotType) /\ Len(t) = Len(s) /\ \A j \in 1..Len(s) : t[j].msg = s[j].msg

LEMMA SlotsInvKept ==
  ASSUME SlotsInv, SameSlots(slots, slots')
  PROVE  SlotsInv'
<1>1. /\ slots \in Seq(SlotType) /\ Len(slots) >= 1
      /\ \A i \in 1..Len(slots) : slots[i].msg = "StateDecisionEvent" <=> i = 1
      /\ slots' \in Seq(SlotType) /\ Len(slots') = Len(slots)
      /\ \A j \in 1..Len(slots) : slots'[j].msg = slots[j].msg
  BY DEF SlotsInv, SameSlots
<1>2. Len(slots') >= 1
      /\ \A i \in 1..Len(slots') : slots'[i].msg = "StateDecisionEvent" <=> i = 1
  BY <1>1, Zenon
<1> QED  BY <1>1, <1>2 DEF SlotsInv

LEMMA EnteringKeeps ==
  ASSUME SlotsInv, NEW s \in Seq(SlotType), SameSlots(slots, s),
         NEW r \in Roles, NEW t, Timers!Enter(s, r, t),
         \A m \in Awaited(r) \ Fresh(r) : HasTimer(s, m)
  PROVE  /\ SlotsInv'
         /\ \/ role' = "Exhausted"
            \/ /\ role' = r /\ parent' = t /\ slots'[1] = s[1]
               /\ \A m \in Awaited(r) : HasTimer(slots', m)
<1>1. CASE role' = "Exhausted"
  <2>1. slots' = slots
    BY <1>1 DEF Timers!Enter, Roles
  <2> QED  BY <2>1, <1>1 DEF SlotsInv
<1>2. CASE role' # "Exhausted"
  <2>1. /\ role' = r /\ parent' = t
        /\ slots' \in Seq(SlotType) /\ Len(slots') >= Len(s)
        /\ \A j \in 1..Len(s) : slots'[j] = s[j]
        /\ \A j \in (Len(s) + 1)..Len(slots') : slots'[j].msg \in Fresh(r)
        /\ \A m \in Fresh(r) : HasTimer(slots', m)
    BY <1>2, Entered
  <2>2. /\ Len(s) >= 1 /\ \A i \in 1..Len(s) : s[i].msg = "StateDecisionEvent" <=> i = 1
    BY SMTT(20) DEF SlotsInv, SameSlots
  <2>3. slots'[1] = s[1]
    BY <2>1, <2>2
  <2>4. Fresh(r) \subseteq SlotMessages \ {"StateDecisionEvent"}
    BY TimersOfRole, SMTT(20)
  <2>5. SlotsInv'
    <3>1. /\ \A j \in 1..Len(s) : slots'[j].msg = s[j].msg
          /\ \A j \in (Len(s) + 1)..Len(slots') : slots'[j].msg # "StateDecisionEvent"
      BY <2>1, <2>4, Zenon
    <3>2. Len(slots') >= 1
          /\ \A i \in 1..Len(slots') : slots'[i].msg = "StateDecisionEvent" <=> i = 1
      BY <2>1, <2>2, <3>1, SlotsKept, Zenon
    <3> QED  BY <2>1, <3>2 DEF SlotsInv
  <2>6. ASSUME NEW m \in Awaited(r) \ Fresh(r) PROVE HasTimer(slots', m)
    <3>1. /\ \A j \in 1..Len(s) : slots'[j].msg = s[j].msg
          /\ \A j \in 1..Len(s) : s[j].msg = m /\ s[j].active => slots'[j].active
          /\ \A j \in (Len(s) + 1)..Len(slots') : slots'[j].msg # m
          /\ HasTimer(s, m)
      BY <2>1, <2>6, Zenon
    <3> QED  BY <2>1, <3>1, TimerStays, Zenon
  <2> QED  BY <2>1, <2>3, <2>5, <2>6, Zenon
<1> QED  BY <1>1, <1>2

\* The slot that fired is inactive, and the port may have lost the timer it was.
LEMMA FiredIs ==
  ASSUME TimerInv, role \in Roles, NEW i \in 1..Len(slots)
  PROVE  /\ [slots EXCEPT ![i].active = FALSE] \in Seq(SlotType)
         /\ SameSlots(slots, [slots EXCEPT ![i].active = FALSE])
         /\ \A j \in 1..Len(slots) \ {i} : [slots EXCEPT ![i].active = FALSE][j] = slots[j]
         /\ \A m \in Awaited(role) :
              m # slots[i].msg => HasTimer([slots EXCEPT ![i].active = FALSE], m)
<1> DEFINE s == [slots EXCEPT ![i].active = FALSE]
<1>1. slots \in Seq(SlotType) /\ slots[i] \in SlotType
  BY DEF TimerInv, SlotsInv
<1>2. \A a \in SlotType : [a EXCEPT !.active = FALSE] \in SlotType
                          /\ [a EXCEPT !.active = FALSE].msg = a.msg
  BY Zenon DEF SlotType
<1>3. s = [slots EXCEPT ![i] = [slots[i] EXCEPT !.active = FALSE]]
  OBVIOUS
<1>4. s \in Seq(SlotType) /\ Len(s) = Len(slots)
  BY <1>1, <1>2, <1>3
<1>5. \A j \in 1..Len(slots) \ {i} : s[j] = slots[j]
  BY <1>1, <1>3
<1>6. s[i].msg = slots[i].msg
  BY <1>1, <1>2, <1>3
<1> HIDE DEF s
<1>7. SameSlots(slots, s)
  BY <1>4, <1>5, <1>6, Zenon DEF SameSlots
<1>8. ASSUME NEW m \in Awaited(role), m # slots[i].msg PROVE HasTimer(s, m)
  <2>1. HasTimer(slots, m)
    BY <1>8 DEF TimerInv
  <2>2. /\ \A j \in 1..Len(slots) : s[j].msg = slots[j].msg
        /\ \A j \in 1..Len(slots) : slots[j].msg = m /\ slots[j].active => s[j].active
    BY <1>5, <1>6, <1>8, Zenon
  <2>3. Len(s) >= Len(slots) /\ \A j \in (Len(slots) + 1)..Len(s) : s[j].msg # m
    BY <1>1, <1>4
  <2> QED  BY <1>1, <1>4, <2>1, <2>2, <2>3, TimerStays, Zenon
<1> QED  BY <1>4, <1>5, <1>7, <1>8, Zenon DEF s

\* Restarting the timer that the port holds for a message it awaits.
LEMMA HeldRestarted ==
  ASSUME SlotsInv, NEW s \in Seq(SlotType), SameSlots(slots, s), NEW d \in Int,
         NEW m \in SlotMessages \ {"StateDecisionEvent"}, NEW h, IsHeld(s, m, h)
  PROVE  LET t == Timers!Restarted(s, Timers!Held(s, m), d) IN
           /\ t \in Seq(SlotType) /\ SameSlots(slots, t) /\ t[1] = s[1]
           /\ \A j \in 1..Len(s) : s[j].active => t[j].active
           /\ HasTimer(t, m)
<1> DEFINE t == Timers!Restarted(s, h, d)
<1>1. Timers!Held(s, m) = h
  BY HeldIs, SMTT(20)
<1>2. h \in 1..Len(s) /\ s[h].msg = m
  BY DEF IsHeld
<1>3. /\ t \in Seq(SlotType) /\ Len(t) = Len(s) /\ t[h].active
      /\ \A j \in 1..Len(s) : t[j].msg = s[j].msg
      /\ \A j \in 1..Len(s) \ {h} : t[j] = s[j]
  BY <1>2, RestartedIs, Zenon
<1> HIDE DEF t
<1>4. SameSlots(slots, t)
  BY <1>3, Zenon DEF SameSlots
<1>5. 1 \in 1..Len(s) /\ h # 1
  <2>1. 1 \in 1..Len(slots) /\ Len(s) = Len(slots) /\ slots[1].msg = "StateDecisionEvent"
        /\ s[1].msg = slots[1].msg
    BY DEF SlotsInv, SameSlots
  <2> QED  BY <2>1, <1>2
<1>6. t[1] = s[1]
  BY <1>3, <1>5, Zenon
<1>7. \A j \in 1..Len(s) : s[j].active => t[j].active
  BY <1>3, Zenon
<1>8. HasTimer(t, m)
  <2>1. h \in 1..Len(t) /\ t[h].msg = m /\ \A j \in 1..Len(t) : t[j].msg = m => j <= h
    BY <1>2, <1>3, Zenon DEF IsHeld
  <2> QED  BY <2>1, <1>3, Zenon DEF HasTimer, IsHeld
<1> QED  BY <1>1, <1>3, <1>4, <1>6, <1>7, <1>8, Zenon DEF t

LEMMA AnnounceKeepsTimers ==
  ASSUME TimerInv, role \in Roles, NEW e, Timers!Announce(e)
  PROVE  TimerInv'
<1> DEFINE Receivers == {"Listening", "Uncalibrated", "Slave"}
           m0 == "AnnounceReceiptTimeout"
           s == IF role \in Receivers
                THEN Timers!Restarted(slots, Timers!Held(slots, m0), ReceiptTicks)
                ELSE slots
<1>1. /\ slots' = IF e # heard THEN Timers!Restarted(s, 1, 0) ELSE s
      /\ heard' = e /\ role' = role /\ parent' = parent
      /\ snapshot' = IF e # heard THEN e ELSE snapshot
  BY SMTT(20) DEF Timers!Announce, Timers!Notified, Timers!Receivers
<1>2. slots \in Seq(SlotType) /\ SlotsInv /\ Len(slots) \in Nat /\ 1 \in 1..Len(slots)
      /\ SameSlots(slots, slots)
  BY DEF TimerInv, SlotsInv, SameSlots
<1>3. /\ s \in Seq(SlotType) /\ SameSlots(slots, s) /\ s[1] = slots[1]
      /\ \A j \in 1..Len(slots) : slots[j].active => s[j].active
  <2>1. CASE role \in Receivers
    <3>1. m0 \in Awaited(role) /\ m0 \in SlotMessages \ {"StateDecisionEvent"}
      BY <2>1 DEF Awaited, SlotMessages
    <3>2. PICK h \in 1..Len(slots) : IsHeld(slots, m0, h)
      BY <3>1 DEF TimerInv, HasTimer
    <3>3. ReceiptTicks \in Int
      BY TimerConstants
    <3> HIDE DEF m0
    <3> QED  BY <2>1, <3>1, <3>2, <3>3, <1>2, HeldRestarted, Zenon
  <2>2. CASE role \notin Receivers
    BY <2>2, <1>2
  <2> QED  BY <2>1, <2>2
<1> HIDE DEF s
<1>4. /\ slots' \in Seq(SlotType) /\ SameSlots(slots, slots')
      /\ \A j \in 1..Len(slots) : slots[j].active => slots'[j].active
      /\ e # heard => slots'[1].active
      /\ e = heard => slots'[1] = slots[1]
  <2>1. CASE e # heard
    <3>1. slots' = Timers!Restarted(s, 1, 0) /\ 1 \in 1..Len(s) /\ Len(s) = Len(slots)
      BY <2>1, <1>1, <1>2, <1>3, Zenon DEF SameSlots
    <3>2. /\ slots' \in Seq(SlotType) /\ Len(slots') = Len(s) /\ slots'[1].active
          /\ \A j \in 1..Len(s) : slots'[j].msg = s[j].msg
          /\ \A j \in 1..Len(s) \ {1} : slots'[j] = s[j]
      <4>1. 0 \in Int
        OBVIOUS
      <4> QED  BY <4>1, <3>1, <1>3, RestartedIs, Zenon
    <3>3. SameSlots(slots, slots')
      BY <3>1, <3>2, <1>3, Zenon DEF SameSlots
    <3> QED  BY <2>1, <3>1, <3>2, <3>3, <1>3, Zenon
  <2>2. CASE e = heard
    BY <2>2, <1>1, <1>3, Zenon
  <2> QED  BY <2>1, <2>2
<1>5. SlotsInv'
  BY <1>2, <1>4, SlotsInvKept
<1>6. \A m \in Awaited(role) : HasTimer(slots', m)
  <2> SUFFICES ASSUME NEW m \in Awaited(role) PROVE HasTimer(slots', m)
    OBVIOUS
  <2>1. HasTimer(slots, m)
    BY DEF TimerInv
  <2>2. /\ Len(slots') >= Len(slots)
        /\ \A j \in (Len(slots) + 1)..Len(slots') : slots'[j].msg # m
        /\ \A j \in 1..Len(slots) : slots'[j].msg = slots[j].msg
    BY <1>2, <1>4 DEF SameSlots
  <2> QED  BY <2>1, <2>2, <1>2, <1>4, TimerStays, Zenon
<1>7. snapshot' = heard'
  BY <1>1 DEF TimerInv
<1>8. Timers!RoleSettled'
  <2>1. Timers!RoleSettled
    BY DEF TimerInv
  <2> QED  BY <2>1, <1>1, <1>4, Zenon DEF Timers!RoleSettled, Timers!Running
<1> QED  BY <1>1, <1>5, <1>6, <1>7, <1>8, Zenon DEF TimerInv

LEMMA SampleKeepsTimers ==
  ASSUME TimerInv, role \in Roles, Timers!Sample
  PROVE  TimerInv'
<1>1. heard' = heard /\ snapshot' = snapshot
  BY DEF Timers!Sample
<1>2. CASE role = "Uncalibrated"
  <2>1. Timers!Enter(slots, "Slave", parent)
    BY <1>2 DEF Timers!Sample
  <2>2. SlotsInv /\ slots \in Seq(SlotType) /\ SameSlots(slots, slots) /\ "Slave" \in Roles
    BY DEF TimerInv, SlotsInv, SameSlots, Roles
  <2>3. \A m \in Awaited("Slave") \ Fresh("Slave") : HasTimer(slots, m)
    <3>1. Awaited("Slave") = Awaited("Uncalibrated")
      BY DEF Awaited
    <3> QED  BY <3>1, <1>2 DEF TimerInv
  <2>4. /\ SlotsInv'
        /\ \/ role' = "Exhausted"
           \/ /\ role' = "Slave" /\ parent' = parent /\ slots'[1] = slots[1]
              /\ \A m \in Awaited("Slave") : HasTimer(slots', m)
    BY <2>1, <2>2, <2>3, EnteringKeeps, Zenon
  <2>5. CASE role' = "Exhausted"
    BY <2>4, <2>5, <1>1
       DEF TimerInv, Roles, Timers!RoleSettled, Timers!Running, Timers!Panics
  <2>6. CASE role' # "Exhausted"
    <3>1. role' = "Slave" /\ parent' = parent /\ slots'[1] = slots[1]
      BY <2>4, <2>6
    <3>2. Timers!RoleSettled'
      <4>1. Timers!RoleSettled
        BY DEF TimerInv
      <4> QED  BY <4>1, <3>1, <1>1, <1>2
               DEF Timers!RoleSettled, Timers!Running, Timers!Panics
    <3>3. \A m \in Awaited(role') : HasTimer(slots', m)
      BY <2>4, <2>6, <3>1
    <3>4. role' \in Roles /\ snapshot' = heard'
      BY <3>1, <1>1 DEF Roles, TimerInv
    <3> QED  BY <2>4, <3>2, <3>3, <3>4, Zenon DEF TimerInv
  <2> QED  BY <2>5, <2>6
<1>3. CASE role # "Uncalibrated"
  <2>1. slots' = slots /\ role' = role /\ parent' = parent
    BY <1>3 DEF Timers!Sample
  <2> QED  BY <2>1, <1>1 DEF TimerInv, SlotsInv, Timers!RoleSettled, Timers!Running
<1> QED  BY <1>2, <1>3

\* What is left to show when the port enters a state or the program panics.
LEMMA EntersSettled ==
  ASSUME SlotsInv', snapshot' = heard', role' \in Roles \cup {"Exhausted"},
         role' \in Roles => /\ Timers!RoleSettled'
                            /\ \A m \in Awaited(role') : HasTimer(slots', m)
  PROVE  TimerInv'
<1>1. role' = "Exhausted" => Timers!RoleSettled'
  BY DEF Timers!RoleSettled, Timers!Running, Timers!Panics
<1>2. "Exhausted" \notin Roles
  BY DEF Roles
<1> QED  BY <1>1, <1>2, Zenon DEF TimerInv

LEMMA DecisionKeepsTimers ==
  ASSUME TimerInv, role \in Roles,
         Timers!StateDecision([slots EXCEPT ![1].active = FALSE])
  PROVE  TimerInv'
<1> DEFINE s == [slots EXCEPT ![1].active = FALSE]
<1>1. heard' = heard /\ snapshot' = snapshot /\ snapshot = heard /\ SlotsInv
  BY DEF Timers!StateDecision, TimerInv
<1>2. 1 \in 1..Len(slots) /\ slots[1].msg = "StateDecisionEvent"
  BY <1>1 DEF SlotsInv
<1>3. /\ s \in Seq(SlotType) /\ SameSlots(slots, s)
      /\ \A m \in Awaited(role) : m # "StateDecisionEvent" => HasTimer(s, m)
  BY <1>2, FiredIs, Zenon
<1>4. \A r : "StateDecisionEvent" \notin Awaited(r)
  BY DEF Awaited
<1>5. CASE Timers!Withheld(snapshot)
  <2>1. slots' = s /\ role' = role /\ parent' = parent
    BY <1>5 DEF Timers!StateDecision
  <2> HIDE DEF s
  <2>2. SlotsInv'
    BY <2>1, <1>1, <1>3, SlotsInvKept
  <2>3. Timers!RoleSettled'
    BY <2>1, <1>1, <1>5 DEF Timers!Withheld, Timers!RoleSettled
  <2>4. \A m \in Awaited(role) : HasTimer(slots', m)
    BY <2>1, <1>3, <1>4, Zenon
  <2>5. role' \in Roles /\ snapshot' = heard'
    BY <2>1, <1>1
  <2> QED  BY <2>1, <2>2, <2>3, <2>4, <2>5, Zenon DEF TimerInv
<1>6. CASE ~Timers!Withheld(snapshot)
  <2> DEFINE r == IF snapshot \in Masters THEN "Uncalibrated" ELSE "PreMaster"
             t == IF snapshot \in Masters THEN snapshot ELSE "none"
  <2>1. Timers!Enter(s, r, t)
    BY <1>6 DEF Timers!StateDecision
  <2>2. r \in Roles /\ Awaited(r) \subseteq Fresh(r)
    BY DEF Roles, Awaited, Fresh
  <2>3. \/ r = "Uncalibrated" /\ t = snapshot
        \/ r = "PreMaster" /\ snapshot \notin Masters
    OBVIOUS
  <2> HIDE DEF s, r, t
  <2>4. /\ SlotsInv'
        /\ \/ role' = "Exhausted"
           \/ /\ role' = r /\ parent' = t /\ slots'[1] = s[1]
              /\ \A m \in Awaited(r) : HasTimer(slots', m)
    BY <2>1, <2>2, <1>1, <1>3, EnteringKeeps, Zenon
  <2>5. role' \in Roles => /\ Timers!RoleSettled'
                           /\ \A m \in Awaited(role') : HasTimer(slots', m)
    <3> SUFFICES ASSUME role' \in Roles
                 PROVE  Timers!RoleSettled' /\ \A m \in Awaited(role') : HasTimer(slots', m)
      OBVIOUS
    <3>1. role' # "Exhausted"
      BY DEF Roles
    <3>2. role' = r /\ parent' = t /\ \A m \in Awaited(role') : HasTimer(slots', m)
      BY <2>4, <3>1
    <3>3. Timers!RoleSettled'
      BY <3>2, <2>3, <1>1 DEF Timers!RoleSettled
    <3> QED  BY <3>2, <3>3
  <2>6. role' \in Roles \cup {"Exhausted"} /\ snapshot' = heard'
    BY <2>2, <2>4, <1>1
  <2> QED  BY <2>4, <2>5, <2>6, EntersSettled
<1> QED  BY <1>5, <1>6

\* A timer of no state fired, or one that the state does not wait for.
LEMMA QuietKeepsTimers ==
  ASSUME TimerInv, role \in Roles, NEW i \in 1..Len(slots), i # 1,
         slots[i].msg \notin Awaited(role),
         slots' = [slots EXCEPT ![i].active = FALSE],
         role' = role, parent' = parent, heard' = heard, snapshot' = snapshot
  PROVE  TimerInv'
<1>1. SlotsInv /\ snapshot = heard /\ Timers!RoleSettled /\ 1 \in 1..Len(slots)
  BY DEF TimerInv, SlotsInv
<1>2. /\ SameSlots(slots, slots') /\ slots'[1] = slots[1]
      /\ \A m \in Awaited(role) : HasTimer(slots', m)
  <2>1. 1 \in 1..Len(slots) \ {i}
    BY <1>1
  <2> QED  BY <2>1, FiredIs, Zenon
<1>3. SlotsInv'
  BY <1>1, <1>2, SlotsInvKept
<1>4. Timers!RoleSettled'
  BY <1>1, <1>2 DEF Timers!RoleSettled, Timers!Running
<1> QED  BY <1>1, <1>2, <1>3, <1>4, Zenon DEF TimerInv

LEMMA ReceiptKeepsTimers ==
  ASSUME TimerInv, role \in Roles, NEW i \in 1..Len(slots),
         slots[i].msg = "AnnounceReceiptTimeout",
         Timers!ReceiptTimeout([slots EXCEPT ![i].active = FALSE])
  PROVE  TimerInv'
<1> DEFINE s == [slots EXCEPT ![i].active = FALSE]
<1>1. SlotsInv /\ snapshot = heard /\ 1 \in 1..Len(slots) /\ i # 1
  BY DEF TimerInv, SlotsInv
<1>2. s \in Seq(SlotType) /\ SameSlots(slots, s)
  BY FiredIs, Zenon
<1>3. CASE role \in {"Listening", "Uncalibrated", "Slave"}
  <2> DEFINE n == Timers!Restarted(s, 1, 0)
  <2>1. Timers!Enter(n, "Master", "none") /\ snapshot' = heard /\ heard' = heard
    BY <1>3 DEF Timers!ReceiptTimeout, Timers!Notified
  <2> HIDE DEF s
  <2>2. /\ n \in Seq(SlotType) /\ Len(n) = Len(s) /\ n[1].active
        /\ \A j \in 1..Len(s) : n[j].msg = s[j].msg
    <3>1. 1 \in 1..Len(s) /\ 0 \in Int
      BY <1>1, <1>2 DEF SameSlots
    <3> QED  BY <3>1, <1>2, RestartedIs, Zenon
  <2> HIDE DEF n
  <2>3. SameSlots(slots, n)
    BY <2>2, <1>2, Zenon DEF SameSlots
  <2>4. "Master" \in Roles /\ Awaited("Master") \subseteq Fresh("Master")
    BY DEF Roles, Awaited, Fresh
  <2>5. /\ SlotsInv'
        /\ \/ role' = "Exhausted"
           \/ /\ role' = "Master" /\ parent' = "none" /\ slots'[1] = n[1]
              /\ \A m \in Awaited("Master") : HasTimer(slots', m)
    BY <2>1, <2>2, <2>3, <2>4, <1>1, EnteringKeeps, Zenon
  <2>6. role' \in Roles => /\ Timers!RoleSettled'
                           /\ \A m \in Awaited(role') : HasTimer(slots', m)
    <3> SUFFICES ASSUME role' \in Roles
                 PROVE  Timers!RoleSettled' /\ \A m \in Awaited(role') : HasTimer(slots', m)
      OBVIOUS
    <3>1. role' # "Exhausted"
      BY DEF Roles
    <3>2. slots'[1].active /\ \A m \in Awaited(role') : HasTimer(slots', m)
      BY <2>2, <2>5, <3>1, Zenon
    <3> QED  BY <3>2 DEF Timers!RoleSettled
  <2>7. role' \in Roles \cup {"Exhausted"} /\ snapshot' = heard'
    BY <2>1, <2>4, <2>5
  <2> QED  BY <2>5, <2>6, <2>7, EntersSettled
<1>4. CASE role = "Master"
  <2>1. role' = "IllegalTransition" /\ slots' = s /\ heard' = heard /\ snapshot' = snapshot
    BY <1>4 DEF Timers!ReceiptTimeout, Timers!Receivers
  <2>2. SlotsInv'
    BY <2>1, <1>1, <1>2, SlotsInvKept
  <2> QED  BY <2>1, <2>2, <1>1
           DEF TimerInv, Roles, Timers!RoleSettled, Timers!Running, Timers!Panics
<1>5. CASE role = "PreMaster"
  <2>1. slots' = s /\ role' = role /\ parent' = parent /\ heard' = heard
        /\ snapshot' = snapshot
    BY <1>5 DEF Timers!ReceiptTimeout, Timers!Receivers
  <2>2. slots[i].msg \notin Awaited(role)
    BY <1>5 DEF Awaited
  <2> QED  BY <2>1, <2>2, <1>1, QuietKeepsTimers, Zenon
<1> QED  BY <1>3, <1>4, <1>5 DEF Roles

LEMMA QualifiedKeepsTimers ==
  ASSUME TimerInv, role \in Roles, NEW i \in 1..Len(slots),
         slots[i].msg = "QualificationTimeout",
         Timers!Qualified([slots EXCEPT ![i].active = FALSE], i)
  PROVE  TimerInv'
<1> DEFINE s == [slots EXCEPT ![i].active = FALSE]
<1>1. /\ SlotsInv /\ snapshot = heard /\ Timers!RoleSettled
      /\ 1 \in 1..Len(slots) /\ i # 1
  BY DEF TimerInv, SlotsInv
<1>2. heard' = heard /\ snapshot' = snapshot
  BY DEF Timers!Qualified
<1>3. CASE role = "PreMaster"
  <2>1. Timers!Enter(s, "Master", "none")
    BY <1>3 DEF Timers!Qualified
  <2>2. s \in Seq(SlotType) /\ SameSlots(slots, s) /\ s[1] = slots[1]
    <3>1. 1 \in 1..Len(slots) \ {i}
      BY <1>1
    <3> QED  BY <3>1, FiredIs, Zenon
  <2> HIDE DEF s
  <2>3. "Master" \in Roles /\ Awaited("Master") \subseteq Fresh("Master")
    BY DEF Roles, Awaited, Fresh
  <2>4. /\ SlotsInv'
        /\ \/ role' = "Exhausted"
           \/ /\ role' = "Master" /\ parent' = "none" /\ slots'[1] = s[1]
              /\ \A m \in Awaited("Master") : HasTimer(slots', m)
    BY <2>1, <2>2, <2>3, <1>1, EnteringKeeps, Zenon
  <2>5. role' \in Roles => /\ Timers!RoleSettled'
                           /\ \A m \in Awaited(role') : HasTimer(slots', m)
    <3> SUFFICES ASSUME role' \in Roles
                 PROVE  Timers!RoleSettled' /\ \A m \in Awaited(role') : HasTimer(slots', m)
      OBVIOUS
    <3>1. role' # "Exhausted"
      BY DEF Roles
    <3>2. role' = "Master" /\ slots'[1] = slots[1]
          /\ \A m \in Awaited(role') : HasTimer(slots', m)
      BY <2>2, <2>4, <3>1, Zenon
    <3>3. Timers!RoleSettled'
      BY <3>2, <1>1, <1>2, <1>3 DEF Timers!RoleSettled, Timers!Running, Timers!Panics
    <3> QED  BY <3>2, <3>3
  <2>6. role' \in Roles \cup {"Exhausted"} /\ snapshot' = heard'
    BY <2>3, <2>4, <1>1, <1>2
  <2> QED  BY <2>4, <2>5, <2>6, EntersSettled
<1>4. CASE role # "PreMaster"
  <2>1. slots' = s /\ role' = role /\ parent' = parent
    BY <1>4 DEF Timers!Qualified
  <2>2. slots[i].msg \notin Awaited(role)
    BY <1>4 DEF Awaited
  <2> QED  BY <2>1, <2>2, <1>1, <1>2, QuietKeepsTimers, Zenon
<1> QED  BY <1>3, <1>4

LEMMA CycleKeepsTimers ==
  ASSUME TimerInv, role \in Roles, NEW i \in 1..Len(slots),
         slots[i].msg \in {"AnnounceSendTimeout", "SyncTimeout", "DelayRequestTimeout"},
         Timers!Cycle([slots EXCEPT ![i].active = FALSE], i, slots[i].msg)
  PROVE  TimerInv'
<1> DEFINE s == [slots EXCEPT ![i].active = FALSE]
           m == slots[i].msg
<1>1. /\ SlotsInv /\ snapshot = heard /\ Timers!RoleSettled
      /\ 1 \in 1..Len(slots) /\ i # 1 /\ slots \in Seq(SlotType)
  BY DEF TimerInv, SlotsInv
<1>2. /\ role' = role /\ parent' = parent /\ heard' = heard /\ snapshot' = snapshot
      /\ slots' = IF role \in Timers!Senders(m)
                  THEN Timers!Restarted(s, Timers!Held(s, m), CycleTicks) ELSE s
  BY DEF Timers!Cycle
<1>3. /\ m \in Awaited(role) <=> role \in Timers!Senders(m)
      /\ m \in SlotMessages \ {"StateDecisionEvent"}
  BY DEF Awaited, SlotMessages, Timers!Senders
<1>4. CASE role \in Timers!Senders(m)
  <2>1. /\ s \in Seq(SlotType) /\ SameSlots(slots, s) /\ s[1] = slots[1]
        /\ \A x \in Awaited(role) : x # m => HasTimer(s, x)
    <3>1. 1 \in 1..Len(slots) \ {i}
      BY <1>1
    <3> QED  BY <3>1, FiredIs, Zenon
  <2>2. PICK h \in 1..Len(slots) : IsHeld(slots, m, h)
    BY <1>3, <1>4 DEF TimerInv, HasTimer
  <2> HIDE DEF s, m
  <2>3. IsHeld(s, m, h)
    BY <2>1, <2>2, Zenon DEF IsHeld, SameSlots
  <2>4. CycleTicks \in Int /\ slots' = Timers!Restarted(s, Timers!Held(s, m), CycleTicks)
    BY <1>2, <1>4, TimerConstants
  <2>5. /\ slots' \in Seq(SlotType) /\ SameSlots(slots, slots') /\ slots'[1] = s[1]
        /\ \A j \in 1..Len(s) : s[j].active => slots'[j].active
        /\ HasTimer(slots', m)
    BY <2>1, <2>3, <2>4, <1>1, <1>3, HeldRestarted, Zenon
  <2>6. ASSUME NEW x \in Awaited(role) PROVE HasTimer(slots', x)
    <3>1. CASE x = m
      BY <3>1, <2>5
    <3>2. CASE x # m
      <4>1. HasTimer(s, x)
        BY <3>2, <2>1
      <4>2. /\ Len(slots') = Len(s) /\ \A j \in 1..Len(s) : slots'[j].msg = s[j].msg
        BY <2>1, <2>5, Zenon DEF SameSlots
      <4>3. /\ Len(slots') >= Len(s)
            /\ \A j \in (Len(s) + 1)..Len(slots') : slots'[j].msg # x
        BY <4>2, <2>1
      <4> QED  BY <4>1, <4>2, <4>3, <2>1, <2>5, TimerStays, Zenon
    <3> QED  BY <3>1, <3>2
  <2>7. SlotsInv'
    BY <2>5, <1>1, SlotsInvKept
  <2>8. Timers!RoleSettled'
    BY <2>1, <2>5, <1>1, <1>2 DEF Timers!RoleSettled, Timers!Running
  <2> QED  BY <2>6, <2>7, <2>8, <1>1, <1>2, Zenon DEF TimerInv
<1>5. CASE role \notin Timers!Senders(m)
  <2>1. slots' = s
    BY <1>2, <1>5
  <2> QED  BY <2>1, <1>1, <1>2, <1>3, <1>5, QuietKeepsTimers, Zenon
<1> QED  BY <1>4, <1>5

LEMMA FireKeepsTimers ==
  ASSUME TimerInv, ScanInv, role \in Roles, Timers!FireSlot
  PROVE  TimerInv' /\ ScanInv'
<1>1. PICK i \in scan..Len(slots) : Timers!Process(i) /\ scan' = i + 1
  BY DEF Timers!FireSlot
<1>2. i \in 1..Len(slots) /\ i \in Nat /\ slots \in Seq(SlotType)
  BY DEF TimerInv, SlotsInv, ScanInv
<1>3. ScanInv'
  BY <1>1, <1>2 DEF ScanInv
<1> DEFINE s == [slots EXCEPT ![i].active = FALSE]
           m == slots[i].msg
<1>4. m \in SlotMessages
  <2>1. slots[i] \in SlotType
    BY <1>2
  <2> QED  BY <2>1 DEF SlotType
<1>5. CASE m = "StateDecisionEvent"
  <2>1. i = 1
    BY <1>2, <1>5 DEF TimerInv, SlotsInv
  <2>2. Timers!StateDecision([slots EXCEPT ![1].active = FALSE])
    BY <2>1, <1>1, <1>5 DEF Timers!Process
  <2> QED  BY <2>2, <1>3, DecisionKeepsTimers
<1>6. CASE m = "AnnounceReceiptTimeout"
  <2>1. Timers!ReceiptTimeout(s)
    BY <1>1, <1>6 DEF Timers!Process
  <2> QED  BY <2>1, <1>2, <1>3, <1>6, ReceiptKeepsTimers
<1>7. CASE m = "QualificationTimeout"
  <2>1. Timers!Qualified(s, i)
    BY <1>1, <1>7 DEF Timers!Process
  <2> QED  BY <2>1, <1>2, <1>3, <1>7, QualifiedKeepsTimers
<1>8. CASE m \in {"AnnounceSendTimeout", "SyncTimeout", "DelayRequestTimeout"}
  <2>1. Timers!Cycle(s, i, m)
    BY <1>1, <1>8 DEF Timers!Process
  <2> QED  BY <2>1, <1>2, <1>3, <1>8, CycleKeepsTimers
<1> QED  BY <1>4, <1>5, <1>6, <1>7, <1>8 DEF SlotMessages

LEMMA TickKeepsTimers ==
  ASSUME TimerInv, role \in Roles, Timers!SysTick
  PROVE  TimerInv'
<1> DEFINE Aged(a) == [a EXCEPT !.left = IF @ > -MaxLag THEN @ - 1 ELSE @]
<1>1. /\ slots' = [i \in 1..Len(slots) |-> Aged(slots[i])]
      /\ role' = role /\ parent' = parent /\ heard' = heard /\ snapshot' = snapshot
  BY DEF Timers!SysTick
<1>2. slots \in Seq(SlotType) /\ SlotsInv /\ snapshot = heard /\ Timers!RoleSettled
      /\ 1 \in 1..Len(slots)
  BY DEF TimerInv, SlotsInv
<1>3. \A a \in SlotType :
        Aged(a) \in SlotType /\ Aged(a).msg = a.msg /\ Aged(a).active = a.active
  BY TimerConstants DEF SlotType
<1> HIDE DEF Aged
<1>4. \A i \in 1..Len(slots) : slots[i] \in SlotType
  BY <1>2
<1>5. slots' \in Seq(SlotType) /\ Len(slots') = Len(slots)
  BY <1>1, <1>2, <1>3, <1>4
<1>6. \A i \in 1..Len(slots) :
        slots'[i].msg = slots[i].msg /\ slots'[i].active = slots[i].active
  BY <1>1, <1>3, <1>4, Zenon
<1>7. SameSlots(slots, slots')
  BY <1>5, <1>6, Zenon DEF SameSlots
<1>8. SlotsInv'
  BY <1>2, <1>7, SlotsInvKept
<1>9. Timers!RoleSettled'
  BY <1>1, <1>2, <1>6, Zenon DEF Timers!RoleSettled, Timers!Running
<1>10. ASSUME NEW m \in Awaited(role) PROVE HasTimer(slots', m)
  <2>1. HasTimer(slots, m)
    BY DEF TimerInv
  <2>2. /\ Len(slots') >= Len(slots)
        /\ \A j \in (Len(slots) + 1)..Len(slots') : slots'[j].msg # m
    BY <1>2, <1>5
  <2> QED  BY <2>1, <2>2, <1>2, <1>5, <1>6, TimerStays, Zenon
<1> QED  BY <1>1, <1>2, <1>8, <1>9, <1>10, Zenon DEF TimerInv

LEMMA TimersInitially == Timers!Init => TimerInv /\ ScanInv
<1> SUFFICES ASSUME Timers!Init PROVE TimerInv /\ ScanInv
  OBVIOUS
<1> DEFINE first == [active |-> FALSE, left |-> 0, msg |-> "StateDecisionEvent"]
           second == [active |-> TRUE, left |-> ReceiptTicks, msg |-> "AnnounceReceiptTimeout"]
<1>1. /\ role = "Listening" /\ heard = "none" /\ snapshot = "none" /\ scan = 1
      /\ slots = <<first>> \o [i \in 1..1 |-> second]
  BY DEF Timers!Init, Timers!Started, Timers!TimersOf, Timers!AnnounceReceipt
<1>2. first \in SlotType /\ second \in SlotType
  BY TimerConstants DEF SlotType, SlotMessages
<1>3. first.msg = "StateDecisionEvent" /\ second.msg = "AnnounceReceiptTimeout" /\ second.active
  OBVIOUS
<1> HIDE DEF first, second
<1>4. /\ slots \in Seq(SlotType) /\ Len(slots) = 2
      /\ slots[1] = first /\ slots[2] = second
  BY <1>1, <1>2
<1>5. SlotsInv
  BY <1>3, <1>4 DEF SlotsInv
<1>6. IsHeld(slots, "AnnounceReceiptTimeout", 2) /\ 2 \in 1..Len(slots)
  BY <1>3, <1>4 DEF IsHeld
<1>7. HasTimer(slots, "AnnounceReceiptTimeout")
  BY <1>3, <1>4, <1>6, Zenon DEF HasTimer
<1>8. Awaited(role) = {"AnnounceReceiptTimeout"}
  BY <1>1 DEF Awaited, SlotMessages
<1> QED  BY <1>1, <1>5, <1>7, <1>8 DEF TimerInv, ScanInv, Roles, Timers!RoleSettled

LEMMA OnlyTimersStep ==
  [DemoNext]_demoVars => Timers!MainLoop \/ Timers!SysTick \/ UNCHANGED timerVars
BY DEF DemoNext, ClocksStep, MainLoopStep, SysTickStep, NetStep, EthernetStep, demoVars

LEMMA TimersInvariant == DemoSpec => [](TimerInv /\ ScanInv)
<1>1. DemoInit => TimerInv /\ ScanInv
  BY TimersInitially DEF DemoInit
<1>2. TimerInv /\ ScanInv /\ [DemoNext]_demoVars => (TimerInv /\ ScanInv)'
  <2> SUFFICES ASSUME TimerInv, ScanInv,
                      Timers!MainLoop \/ Timers!SysTick \/ UNCHANGED timerVars
               PROVE  TimerInv' /\ ScanInv'
    BY OnlyTimersStep
  <2>1. Timers!Running => role \in Roles
    BY SMTT(20) DEF TimerInv, Timers!Running, Timers!Panics
  <2>2. ASSUME slots' = slots, role' = role, parent' = parent, heard' = heard,
               snapshot' = snapshot
        PROVE  TimerInv'
    BY <2>2 DEF TimerInv, SlotsInv, Timers!RoleSettled, Timers!Running
  <2>3. CASE Timers!Poll \/ Timers!ScanDone \/ UNCHANGED timerVars
    BY <2>2, <2>3 DEF Timers!Poll, Timers!ScanDone, timerVars, ScanInv
  <2>4. CASE Timers!PacketsDone
    <3>1. scan' = 1
      BY <2>4 DEF Timers!PacketsDone
    <3> QED  BY <2>2, <2>4, <3>1 DEF Timers!PacketsDone, ScanInv
  <2>5. CASE Timers!ProcessAnnounce
    <3>1. role \in Roles /\ scan' = scan /\ \E e \in Foreign : Timers!Announce(e)
      BY <2>1, <2>5 DEF Timers!ProcessAnnounce
    <3> QED  BY <3>1, AnnounceKeepsTimers DEF ScanInv
  <2>6. CASE Timers!ProcessSample
    <3>1. role \in Roles /\ scan' = scan /\ Timers!Sample
      BY <2>1, <2>6 DEF Timers!ProcessSample
    <3> QED  BY <3>1, SampleKeepsTimers DEF ScanInv
  <2>7. CASE Timers!FireSlot
    BY <2>1, <2>7, FireKeepsTimers DEF Timers!FireSlot
  <2>8. CASE Timers!SysTick
    <3>1. role \in Roles /\ scan' = scan
      BY <2>1, <2>8 DEF Timers!SysTick
    <3> QED  BY <3>1, <2>8, TickKeepsTimers DEF ScanInv
  <2> QED  BY <2>3, <2>4, <2>5, <2>6, <2>7, <2>8 DEF Timers!MainLoop
<1> QED  BY <1>1, <1>2, PTL DEF DemoSpec

LEMMA AwaitedRuns ==
  ASSUME SlotsInv, NEW m, HasTimer(slots, m)
  PROVE  slots[Timers!Held(slots, m)].active
<1>1. slots \in Seq(SlotType)
  BY DEF SlotsInv
<1>2. PICK h \in 1..Len(slots) : IsHeld(slots, m, h) /\ slots[h].active
  BY DEF HasTimer
<1> QED  BY <1>1, <1>2, HeldIs, Zenon

\* However the slots are shared and their handles dropped, once slot 1 is idle the
\* port is in the role that its best foreign clock calls for, and it always has the
\* timers of its role, whatever the intervals and the size of the table
\* (SinglePortNotification::notify_all, DemoTimeout, TimerSlot::restart, main).
THEOREM RolesSettle == DemoSpec => []RoleSettled
<1>1. TimerInv => RoleSettled
  <2> SUFFICES ASSUME TimerInv PROVE Timers!RoleSettled /\ Timers!TimersRun
    BY DEF RoleSettled
  <2>1. SlotsInv /\ Timers!RoleSettled
    BY DEF TimerInv
  <2>2. ASSUME Timers!Running
        PROVE  \A m \in Awaited(role) : slots[Timers!Held(slots, m)].active
    <3>1. role \in Roles
      BY <2>2 DEF TimerInv, Timers!Running, Timers!Panics
    <3> QED  BY <2>1, <3>1, AwaitedRuns, Zenon DEF TimerInv
  <2>3. /\ role \in Timers!Receivers => "AnnounceReceiptTimeout" \in Awaited(role)
        /\ role = "PreMaster" => "QualificationTimeout" \in Awaited(role)
        /\ role \in {"Uncalibrated", "Slave"} => "DelayRequestTimeout" \in Awaited(role)
        /\ role = "Master" => {"AnnounceSendTimeout", "SyncTimeout"} \subseteq Awaited(role)
    BY DEF Timers!Receivers, Awaited, SlotMessages
  <2>4. Timers!TimersRun
    BY <2>2, <2>3, Zenon DEF Timers!TimersRun
  <2> QED  BY <2>1, <2>4
<1> QED  BY <1>1, TimersInvariant, PTL
=============================================================================
