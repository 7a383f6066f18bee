---------------------------- MODULE TimerSlots ----------------------------
(***************************************************************************)
(* The timers of the embedded demo (main.rs) under the one port of its     *)
(* ordinary clock.  A timer is a slot of a fixed table: it is taken when a *)
(* port state asks for a timeout, is never given back, and stays active    *)
(* when the handle is dropped.  The main loop reads the time once, handles *)
(* the packets received, scans the slots in order and sleeps until an      *)
(* interrupt.  Time is kept relative to the present: a slot has the ticks  *)
(* that are left to its deadline, and the loop the ticks since it read the *)
(* time.                                                                   *)
(***************************************************************************)
EXTENDS Integers, Sequences

CONSTANTS
  Masters,          \* other clocks better than this one
  Foreign,          \* what the port may hear best: masters, "worse", "none"
  ReceiptTicks,     \* announce receipt timeout interval
  CycleTicks,       \* interval of Announce, Sync and DelayReq
  MaxTimers,        \* MAX_TIMERS
  MaxPackets,       \* bound on the packets of one iteration
  MaxLag            \* bound on the ticks during one iteration

TimerSlotsAssumption ==
  /\ Foreign \subseteq Masters \cup {"worse", "none"} /\ "none" \in Foreign
  /\ ReceiptTicks \in Nat \ {0} /\ CycleTicks \in Nat \ {0}
  /\ MaxTimers \in Nat \ {0} /\ MaxPackets \in Nat /\ MaxLag \in Nat

VARIABLES
  slots,      \* the allocated slots of TIMER_SLOTS
  role,       \* the state of the port, or how the program panicked
  parent,     \* the master that the port tracks, "none" if there is none
  heard,      \* the best foreign clock of the port
  snapshot,   \* e_best of the StateDecisionEvent in slot 1
  pc,         \* where the main loop is
  lag,        \* ticks since the loop read the time
  packets,    \* the packets received and not yet handled
  scan,       \* the slot the scan has reached
  prompt,     \* slots restarted with no delay in this iteration and not fired
  silence     \* ticks since an Announce, up to ReceiptTicks

vars == <<slots, role, parent, heard, snapshot, pc, lag, packets, scan, prompt, silence>>

Receivers == {"Listening", "Uncalibrated", "Slave"}

Panics == {"Exhausted", "IllegalTransition"}

\* DemoTimeout::restart_with_message with no delay, and TimerSlot::restart, which
\* counts from the time at which it is called, not from that of the loop.
Restarted(s, i, delay) == [s EXCEPT ![i].active = TRUE, ![i].left = delay]

\* TimerSlot::alloc and restart, for the timeouts of a state: the first slots not
\* allocated are taken.
Started(s, timers) ==
  s \o [i \in 1..Len(timers) |->
          [active |-> TRUE, left |-> timers[i][2], msg |-> timers[i][1]]]

\* The slot of the handle that the port holds for a message: the last allocated.
Held(s, m) ==
  CHOOSE i \in 1..Len(s) : s[i].msg = m /\ \A j \in i+1..Len(s) : s[j].msg # m

AnnounceReceipt == <<"AnnounceReceiptTimeout", ReceiptTicks>>

AtOnce(m) == <<m, 0>>

\* The timeouts that the profile starts for a state; Slave keeps the delay cycle of
\* Uncalibrated.
TimersOf(r) ==
  CASE r = "Listening" -> <<AnnounceReceipt>>
    [] r = "Uncalibrated" -> <<AnnounceReceipt, AtOnce("DelayRequestTimeout")>>
    [] r = "Slave" -> <<AnnounceReceipt>>
    [] r = "PreMaster" -> <<AtOnce("QualificationTimeout")>>
    [] r = "Master" -> <<AtOnce("AnnounceSendTimeout"), AtOnce("SyncTimeout")>>

\* Indices of the timers of a state that start with no delay, in slots s.
PromptOf(s, r) == {Len(s) + i : i \in {j \in 1..Len(TimersOf(r)) : TimersOf(r)[j][2] = 0}}

\* Enter state r tracking t, from slots s.  The handles of the state left behind are
\* dropped, which does nothing; TimerHost::timeout panics if no slot is left.
Enter(s, r, t) ==
  IF Len(s) + Len(TimersOf(r)) > MaxTimers
  THEN role' = "Exhausted" /\ UNCHANGED <<slots, parent>>
  ELSE /\ role' = r /\ parent' = t
       /\ slots' = Started(s, TimersOf(r))

\* SinglePortNotification::notify_all on slots s: slot 1 takes the new snapshot,
\* whatever it held.
Notified(s) == Restarted(s, 1, 0)

----------------------------------------------------------------------------

\* Seeded fault: a slot that is active keeps the message it has.
AnnounceKeepsFirst(e) ==
  /\ slots' =
       LET s == IF role \in Receivers
                THEN Restarted(slots, Held(slots, "AnnounceReceiptTimeout"), ReceiptTicks)
                ELSE slots
       IN  IF e # heard THEN Notified(s) ELSE s
  /\ heard' = e
  /\ snapshot' = IF e # heard /\ ~slots[1].active THEN e ELSE snapshot
  /\ prompt' = IF e # heard THEN prompt \cup {1} ELSE prompt
  /\ UNCHANGED <<role, parent>>

\* process_announce: restart the announce receipt timeout where the state has one;
\* a change of the best foreign clock triggers a state decision event.
Announce(e) ==
  /\ slots' =
       LET s == IF role \in Receivers
                THEN Restarted(slots, Held(slots, "AnnounceReceiptTimeout"), ReceiptTicks)
                ELSE slots
       IN  IF e # heard THEN Notified(s) ELSE s
  /\ heard' = e
  /\ snapshot' = IF e # heard THEN e ELSE snapshot
  /\ prompt' = IF e # heard THEN prompt \cup {1} ELSE prompt
  /\ UNCHANGED <<role, parent>>

\* A message completes a sample, and the stepping servo locks.
Sample ==
  /\ IF role = "Uncalibrated" THEN Enter(slots, "Slave", parent)
                              ELSE UNCHANGED <<slots, role, parent>>
  /\ UNCHANGED <<heard, snapshot, prompt>>

\* StateDecisionEvent: D0 is worse than a master and better than the rest.  The role
\* decorators withhold what they track already and, in Listening, a decision
\* while nothing qualified is heard.
Withheld(s) ==
  \/ role = "Listening" /\ s = "none"
  \/ role \in {"Uncalibrated", "Slave"} /\ s = parent
  \/ role \in {"PreMaster", "Master"} /\ s \notin Masters

StateDecision(s) ==
  /\ IF Withheld(snapshot) THEN slots' = s /\ UNCHANGED <<role, parent, prompt>>
     ELSE LET r == IF snapshot \in Masters THEN "Uncalibrated" ELSE "PreMaster" IN
            /\ Enter(s, r, IF snapshot \in Masters THEN snapshot ELSE "none")
            /\ prompt' = (prompt \ {1}) \cup PromptOf(s, r)
  /\ UNCHANGED <<heard, snapshot>>

\* AnnounceReceiptTimeout: into_local_grandmaster_tracking triggers a state decision
\* event, then the port becomes master; in Master, PortState::apply panics.
ReceiptTimeout(s) ==
  \/ /\ role \in Receivers
     /\ Enter(Notified(s), "Master", "none")
     /\ snapshot' = heard
     /\ prompt' = (prompt \cup {1}) \cup PromptOf(s, "Master")
     /\ UNCHANGED heard
  \/ /\ role = "Master"
     /\ role' = "IllegalTransition" /\ slots' = s
     /\ UNCHANGED <<parent, heard, snapshot, prompt>>
  \/ /\ role = "PreMaster"
     /\ slots' = s
     /\ UNCHANGED <<role, parent, heard, snapshot, prompt>>

Qualified(s, i) ==
  /\ IF role = "PreMaster"
     THEN Enter(s, "Master", "none") /\ prompt' = (prompt \ {i}) \cup PromptOf(s, "Master")
     ELSE slots' = s /\ prompt' = prompt \ {i} /\ UNCHANGED <<role, parent>>
  /\ UNCHANGED <<heard, snapshot>>

Senders(m) == IF m = "DelayRequestTimeout" THEN {"Uncalibrated", "Slave"} ELSE {"Master"}

\* Seeded fault: the message is sent and its cycle not restarted.
CycleOnce(s, i, m) ==
  /\ slots' = s
  /\ prompt' = prompt \ {i}
  /\ UNCHANGED <<role, parent, heard, snapshot>>

\* AnnounceSendTimeout, SyncTimeout, DelayRequestTimeout: send and restart the cycle
\* that the port holds, whichever slot the message came from.
Cycle(s, i, m) ==
  /\ slots' = IF role \in Senders(m) THEN Restarted(s, Held(s, m), CycleTicks) ELSE s
  /\ prompt' = prompt \ {i}
  /\ UNCHANGED <<role, parent, heard, snapshot>>

\* process_system_message of what slot i holds; the slot was made inactive first.
Process(i) ==
  LET s == [slots EXCEPT ![i].active = FALSE]
      m == slots[i].msg
  IN  CASE m = "StateDecisionEvent" -> StateDecision(s)
        [] m = "AnnounceReceiptTimeout" -> ReceiptTimeout(s)
        [] m = "QualificationTimeout" -> Qualified(s, i)
        [] OTHER -> Cycle(s, i, m)

----------------------------------------------------------------------------

Running == role \notin Panics

\* The scan's test: now >= deadline
Due(i) == slots[i].active /\ slots[i].left + lag <= 0

\* SysTick: the interrupt may come anywhere in the loop, and ends its sleep.
SysTick ==
  /\ Running /\ (pc = "wfi" \/ lag < MaxLag)
  /\ slots' = [i \in 1..Len(slots) |->
                 [slots[i] EXCEPT !.left = IF @ > -MaxLag THEN @ - 1 ELSE @]]
  /\ silence' = IF silence < ReceiptTicks THEN silence + 1 ELSE silence
  /\ IF pc = "wfi" THEN pc' = "top" /\ UNCHANGED lag ELSE lag' = lag + 1 /\ UNCHANGED pc
  /\ UNCHANGED <<role, parent, heard, snapshot, packets, scan, prompt>>

\* The loop reads the time and polls the network.
Poll ==
  /\ Running /\ pc = "top"
  /\ lag' = 0 /\ prompt' = {} /\ pc' = "packets"
  /\ packets' \in 0..MaxPackets
  /\ UNCHANGED <<slots, role, parent, heard, snapshot, scan, silence>>

ProcessAnnounce ==
  /\ Running /\ pc = "packets" /\ packets > 0
  /\ packets' = packets - 1
  /\ \E e \in Foreign : Announce(e)
  /\ silence' = 0
  /\ UNCHANGED <<pc, lag, scan>>

ProcessSample ==
  /\ Running /\ pc = "packets" /\ packets > 0
  /\ packets' = packets - 1
  /\ Sample
  /\ UNCHANGED <<pc, lag, scan, silence>>

\* Seeded fault: the scan leaves out the first slot.
ScanFromSecond ==
  /\ Running /\ pc = "packets" /\ packets = 0
  /\ pc' = "timers" /\ scan' = 2
  /\ UNCHANGED <<slots, role, parent, heard, snapshot, lag, packets, prompt, silence>>

PacketsDone ==
  /\ Running /\ pc = "packets" /\ packets = 0
  /\ pc' = "timers" /\ scan' = 1
  /\ UNCHANGED <<slots, role, parent, heard, snapshot, lag, packets, prompt, silence>>

\* The scan fires the next slot that is due.
FireSlot ==
  /\ Running /\ pc = "timers"
  /\ \E i \in scan..Len(slots) :
       /\ Due(i) /\ \A j \in scan..(i - 1) : ~Due(j)
       /\ Process(i)
       /\ scan' = i + 1
  /\ UNCHANGED <<pc, lag, packets, silence>>

ScanDone ==
  /\ Running /\ pc = "timers"
  /\ \A i \in scan..Len(slots) : ~Due(i)
  /\ pc' = "wfi"
  /\ UNCHANGED <<slots, role, parent, heard, snapshot, lag, packets, scan, prompt, silence>>

\* OrdinaryClock::port takes slot 1 for state decision events, and main delivers
\* Initialized before the loop.
Init ==
  /\ slots = Started(<<[active |-> FALSE, left |-> 0, msg |-> "StateDecisionEvent"]>>,
                     TimersOf("Listening"))
  /\ role = "Listening" /\ parent = "none" /\ heard = "none" /\ snapshot = "none"
  /\ pc = "top" /\ lag = 0 /\ packets = 0 /\ scan = 1 /\ prompt = {} /\ silence = 0

MainLoop ==
  \/ Poll
  \/ ProcessAnnounce
  \/ ProcessSample
  \/ PacketsDone
  \/ FireSlot
  \/ ScanDone

Next == MainLoop \/ SysTick

Spec == Init /\ [][Next]_vars

\* The loop runs, and the interrupt comes at its rate.
FairSpec == Spec /\ WF_vars(MainLoop) /\ WF_vars(SysTick)

----------------------------------------------------------------------------

\* Though a second state decision event overwrites the first in slot 1, the port is
\* in the role that its best foreign clock calls for once slot 1 is idle
\* (SinglePortNotification::notify_all, DemoTimeout::restart_with_message).
RoleSettled ==
  (Running /\ ~slots[1].active) =>
    \/ role = "Listening" /\ heard = "none"
    \/ role \in {"Uncalibrated", "Slave"} /\ parent = heard
    \/ role \in {"PreMaster", "Master"} /\ heard \notin Masters

\* The port always has the timer that its next step waits for, though handles are
\* dropped and slots are shared by all its states (TimerSlot::restart, main).
TimersRun ==
  Running =>
    /\ role \in Receivers => slots[Held(slots, "AnnounceReceiptTimeout")].active
    /\ role = "PreMaster" => slots[Held(slots, "QualificationTimeout")].active
    /\ role \in {"Uncalibrated", "Slave"} => slots[Held(slots, "DelayRequestTimeout")].active
    /\ role = "Master" => /\ slots[Held(slots, "AnnounceSendTimeout")].active
                          /\ slots[Held(slots, "SyncTimeout")].active

\* A state decision event is handled in the end, unless the best foreign clock keeps
\* changing: a restart during the iteration may put it off to the next (the scan
\* of main).
DecisionsHandled ==
  []<><<heard' # heard>>_vars \/ []<>(~slots[1].active \/ ~Running)

----------------------------------------------------------------------------
(* What the documentation says and the code does not do: these fail. *)

\* PortState::apply is never handed a decision that is illegal in its state: an
\* announce receipt timeout reaches only states that wait for one (portstate.rs).
LegalTransitions == role # "IllegalTransition"

\* The table has a slot for every timeout that the port asks for (TimerHost::timeout
\* of DemoTimerHost).
SlotsSuffice == role # "Exhausted"

\* A timer with no delay fires in the iteration in which it was restarted (main).
ZeroFiresAtOnce == pc = "wfi" => prompt = {}

\* The port does not give up on its master unless no Announce arrived for a whole
\* announce receipt interval (AnnounceReceiptTimeout).
SilenceBeforeMaster ==
  [][(role \in Receivers /\ role' = "Master") => silence = ReceiptTicks]_vars
=============================================================================
