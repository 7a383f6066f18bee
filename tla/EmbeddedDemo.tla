---------------------------- MODULE EmbeddedDemo ----------------------------
(***************************************************************************)
(* The host side of the embedded demo in one specification: its clocks     *)
(* (EmbeddedClocks), its timers (TimerSlots), its sockets (EmbeddedNet)    *)
(* and its Ethernet driver (EthernetDriver).  They are modelled apart,     *)
(* with no variable in common, so a behaviour of all four is one of each:  *)
(* part says which one takes steps here, and the others are at rest.       *)
(***************************************************************************)
EXTENDS EmbeddedClocks

CONSTANTS Masters, Foreign, ReceiptTicks, CycleTicks, MaxTimers, MaxPackets, MaxLag,
          SocketPackets, MaxRxPackets, QueueLength, MaxRequests, MaxGeneral, MaxEvents,
          AddrLen, MaxFrameSize, Mac, Peer, Lengths, Backlog, NoFrame

VARIABLES
  part,
  slots, role, parent, heard, snapshot, pc, lag, packets, scan, prompt, silence,
  event, general, rxPackets, eventTx, generalTx, stamps, netRole, netPc,
  arrived, handled, load,
  rx, wire, handed, sent

Timers == INSTANCE TimerSlots
Net == INSTANCE EmbeddedNet WITH rx <- rxPackets, role <- netRole, pc <- netPc
Eth == INSTANCE EthernetDriver WITH None <- NoFrame

ASSUME DemoAssumption ==
  /\ Timers!TimerSlotsAssumption
  /\ Net!EmbeddedNetAssumption
  /\ Eth!DriverAssumption

timerVars == <<slots, role, parent, heard, snapshot, pc, lag, packets, scan, prompt, silence>>
netVars == <<event, general, rxPackets, eventTx, generalTx, stamps, netRole, netPc,
             arrived, handled, load>>
ethVars == <<rx, wire, handed, sent>>
demoVars == <<part, vars, timerVars, netVars, ethVars>>

DemoInit ==
  /\ part \in {"clocks", "timers", "net", "ethernet"}
  /\ Init /\ Timers!Init /\ Net!Init /\ Eth!Init

ClocksStep ==
  /\ part = "clocks"
  /\ Next
  /\ UNCHANGED <<part, timerVars, netVars, ethVars>>

MainLoopStep ==
  /\ part = "timers"
  /\ Timers!MainLoop
  /\ UNCHANGED <<part, vars, netVars, ethVars>>

SysTickStep ==
  /\ part = "timers"
  /\ Timers!SysTick
  /\ UNCHANGED <<part, vars, netVars, ethVars>>

NetStep ==
  /\ part = "net"
  /\ Net!Next
  /\ UNCHANGED <<part, vars, timerVars, ethVars>>

EthernetStep ==
  /\ part = "ethernet"
  /\ Eth!Next
  /\ UNCHANGED <<part, vars, timerVars, netVars>>

DemoNext == ClocksStep \/ MainLoopStep \/ SysTickStep \/ NetStep \/ EthernetStep

\* The main loop runs, and the interrupt comes at its rate.
DemoSpec ==
  /\ DemoInit /\ [][DemoNext]_demoVars
  /\ WF_demoVars(MainLoopStep) /\ WF_demoVars(SysTickStep)

----------------------------------------------------------------------------
(* Properties *)

\* Though a second state decision event overwrites the first in its slot, the port is
\* in the role that its best foreign clock calls for once the slot is idle, and it
\* always has the timers of its role, though handles are dropped and slots shared
\* (SinglePortNotification::notify_all, DemoTimeout, TimerSlot::restart, main).
RoleSettled == Timers!RoleSettled /\ Timers!TimersRun

\* A state decision event is handled in the end, unless the best foreign clock keeps
\* changing: a restart during the iteration may put it off to the next (the scan
\* of main).
DecisionsHandled == Timers!DecisionsHandled

\* Every DelayReq that the event socket accepted reaches the port, in order, though
\* draining a socket into a full vector loses a packet (drain_socket, poll).
RequestsReachPort == Net!RequestsReachPort

\* What the port sends in one iteration fits in the transmit buffer of the general
\* socket, unless the DelayReqs of the iteration leave no room for a FollowUp and an
\* Announce, and the queue of timestamps never overflows (SmoltcpPhysicalPort::send,
\* TimestampQueue::push).
SendsFit == Net!SendsFit /\ Net!TimestampsFit

\* The stack gets every frame of another device as it was on the wire and none that
\* this device sent, the frames it sends go out unchanged, and the controller's
\* receive queue always starts where a frame starts (Lm3sRxToken::consume,
\* Lm3sTxToken::consume).
FramesIntact == Eth!QueueAligned /\ Eth!HandedIntact /\ Eth!SentIntact
=============================================================================
