---------------------------- MODULE EmbeddedNet ----------------------------
(***************************************************************************)
(* The network side of the embedded demo (net.rs and the main loop) for a  *)
(* port in Master: two UDP sockets with room for a few packets each way,   *)
(* drained once per iteration into a vector, and the queue of transmit     *)
(* timestamps.  Packets are numbered in the order of their arrival.        *)
(***************************************************************************)
EXTENDS Naturals, Sequences

CONSTANTS
  SocketPackets,      \* packets that a socket buffers each way
  MaxRxPackets,       \* MAX_RX_PACKETS
  QueueLength,        \* capacity of TIMESTAMP_QUEUE
  MaxRequests,        \* bound on the DelayReqs of one iteration
  MaxGeneral,         \* bound on the general messages of one iteration
  MaxEvents           \* bound on the DelayReqs in all

EmbeddedNetAssumption ==
  /\ {SocketPackets, MaxRxPackets, MaxRequests, MaxGeneral, MaxEvents} \subseteq Nat
  /\ QueueLength \in Nat \ {0}

VARIABLES
  event,       \* the packets in the receive buffer of the event socket
  general,     \* how many packets the receive buffer of the general socket holds
  rx,          \* rx_packets: the numbers of DelayReqs, 0 for a general message
  eventTx,     \* packets that the transmit buffers hold
  generalTx,
  stamps,      \* messages in TIMESTAMP_QUEUE
  role,        \* Master, Faulty or Panicked
  pc,          \* where the main loop is
  arrived,     \* DelayReqs accepted by the event socket so far
  handled,     \* DelayReqs handed to the port, in order
  load         \* history: the most DelayReqs that one iteration handled

vars == <<event, general, rx, eventTx, generalTx, stamps, role, pc, arrived, handled, load>>

Least(a, b) == IF a <= b THEN a ELSE b

\* drain_socket into v: how many of n packets it copies, and how many it leaves.
\* One more is received, and so lost, when the vector turns out to be full.
Copied(n, v) == Least(n, MaxRxPackets - Len(v))

Left(n, v) == IF n > Copied(n, v) THEN n - Copied(n, v) - 1 ELSE 0

\* Interface::poll sends what the sockets hold and takes in what has arrived, up to
\* the room in their buffers.
Egress == eventTx' = 0 /\ generalTx' = 0

\* Seeded fault: the general socket is drained first.
PollGeneralFirst ==
  /\ pc = "poll"
  /\ Egress
  /\ \E e \in 0..MaxRequests, g \in 0..MaxGeneral :
       LET new == Least(Least(e, SocketPackets - Len(event)), MaxEvents - arrived)
           events == event \o [i \in 1..new |-> arrived + i]
           generals == Least(general + g, SocketPackets)
           first == [i \in 1..Copied(generals, <<>>) |-> 0]
           n == Copied(Len(events), first)
       IN  /\ arrived' = arrived + new
           /\ rx' = first \o SubSeq(events, 1, n)
           /\ event' = SubSeq(events, Len(events) - Left(Len(events), first) + 1, Len(events))
           /\ general' = Left(generals, <<>>)
           /\ load' = IF n > load THEN n ELSE load
  /\ pc' = "packets"
  /\ UNCHANGED <<stamps, role, handled>>

\* PtpNetwork::poll: the event socket is drained first.
Poll ==
  /\ pc = "poll"
  /\ Egress
  /\ \E e \in 0..MaxRequests, g \in 0..MaxGeneral :
       LET new == Least(Least(e, SocketPackets - Len(event)), MaxEvents - arrived)
           events == event \o [i \in 1..new |-> arrived + i]
           generals == Least(general + g, SocketPackets)
           n == Copied(Len(events), <<>>)
           first == SubSeq(events, 1, n)
       IN  /\ arrived' = arrived + new
           /\ rx' = first \o [i \in 1..Copied(generals, first) |-> 0]
           /\ event' = SubSeq(events, Len(events) - Left(Len(events), <<>>) + 1, Len(events))
           /\ general' = Left(generals, first)
           /\ load' = IF n > load THEN n ELSE load
  /\ pc' = "packets"
  /\ UNCHANGED <<stamps, role, handled>>

\* Seeded fault: the transmit buffer has one entry less.
SendGeneralShort ==
  IF generalTx + 1 < SocketPackets
  THEN generalTx' = generalTx + 1 /\ UNCHANGED role
  ELSE role' = "Faulty" /\ UNCHANGED generalTx

\* SmoltcpPhysicalPort::send on the general socket: a send that does not fit fails,
\* and the port is faulty from then on, as no one sends FaultCleared.
SendGeneral ==
  IF generalTx < SocketPackets
  THEN generalTx' = generalTx + 1 /\ UNCHANGED role
  ELSE role' = "Faulty" /\ UNCHANGED generalTx

NoSend == UNCHANGED <<generalTx, role>>

\* process_packet: a DelayReq is answered with a DelayResp.
ProcessPacket ==
  /\ pc = "packets" /\ rx # <<>>
  /\ rx' = Tail(rx)
  /\ handled' = IF Head(rx) # 0 THEN Append(handled, Head(rx)) ELSE handled
  /\ IF Head(rx) # 0 /\ role = "Master" THEN SendGeneral ELSE NoSend
  /\ UNCHANGED <<event, general, eventTx, stamps, pc, arrived, load>>

\* Seeded fault: the queue is not emptied.
DeliverNoTimestamp ==
  /\ pc = "packets" /\ rx = <<>> /\ stamps > 0
  /\ NoSend
  /\ pc' = "timers"
  /\ UNCHANGED <<event, general, rx, eventTx, stamps, arrived, handled, load>>

\* The loop pops a timestamp: the port sends the FollowUp of its Sync.
DeliverTimestamp ==
  /\ pc = "packets" /\ rx = <<>> /\ stamps > 0
  /\ stamps' = stamps - 1
  /\ IF role = "Master" THEN SendGeneral ELSE NoSend
  /\ UNCHANGED <<event, general, rx, eventTx, pc, arrived, handled, load>>

TimestampsDone ==
  /\ pc = "packets" /\ rx = <<>> /\ stamps = 0
  /\ pc' = "timers"
  /\ UNCHANGED <<event, general, rx, eventTx, generalTx, stamps, role, arrived, handled, load>>

\* stamp_egress pushes the timestamp of a Sync that was sent; a full queue panics.
SendSync ==
  IF eventTx = SocketPackets THEN role' = "Faulty" /\ UNCHANGED <<eventTx, stamps>>
  ELSE IF stamps = QueueLength THEN role' = "Panicked" /\ UNCHANGED <<eventTx, stamps>>
  ELSE eventTx' = eventTx + 1 /\ stamps' = stamps + 1 /\ UNCHANGED role

\* The scan of the timers: the slot of AnnounceSendTimeout comes before that of
\* SyncTimeout.  Either may be due.
AnnounceDue ==
  /\ pc = "timers"
  /\ IF role = "Master" THEN SendGeneral ELSE NoSend
  /\ pc' = "sync"
  /\ UNCHANGED <<event, general, rx, eventTx, stamps, arrived, handled, load>>

AnnounceNotDue ==
  /\ pc = "timers" /\ pc' = "sync"
  /\ UNCHANGED <<event, general, rx, eventTx, generalTx, stamps, role, arrived, handled, load>>

SyncDue ==
  /\ pc = "sync" /\ pc' = "poll"
  /\ IF role = "Master" THEN SendSync ELSE UNCHANGED <<eventTx, stamps, role>>
  /\ UNCHANGED <<event, general, rx, generalTx, arrived, handled, load>>

SyncNotDue ==
  /\ pc = "sync" /\ pc' = "poll"
  /\ UNCHANGED <<event, general, rx, eventTx, generalTx, stamps, role, arrived, handled, load>>

Init ==
  /\ event = <<>> /\ general = 0 /\ rx = <<>>
  /\ eventTx = 0 /\ generalTx = 0 /\ stamps = 0
  /\ role = "Master" /\ pc = "poll" /\ arrived = 0 /\ handled = <<>> /\ load = 0

Next ==
  \/ Poll
  \/ ProcessPacket
  \/ DeliverTimestamp
  \/ TimestampsDone
  \/ AnnounceDue
  \/ AnnounceNotDue
  \/ SyncDue
  \/ SyncNotDue

Spec == Init /\ [][Next]_vars

----------------------------------------------------------------------------

\* Every DelayReq that the event socket accepted reaches the port, once and in order,
\* though draining a socket into a full vector loses a packet: those handled, those in
\* the vector and those in the socket are 1 to arrived (drain_socket, poll).
RequestsReachPort ==
  LET packets == handled \o rx \o event
  IN /\ {packets[i] : i \in DOMAIN packets} \ {0} = 1..arrived
     /\ \A i, j \in DOMAIN packets :
          i < j /\ packets[i] # 0 /\ packets[j] # 0 => packets[i] < packets[j]

\* What the port sends in one iteration, DelayResps, a FollowUp and an Announce, fits
\* in the transmit buffer of the general socket, which only the next poll empties,
\* unless the DelayReqs alone leave no room for two more: no send fails and the port
\* does not become faulty (SmoltcpPhysicalPort::send).
SendsFit == load + 2 <= SocketPackets => role # "Faulty"

\* The queue of timestamps does not overflow (TimestampQueue::push).
TimestampsFit == role # "Panicked"
=============================================================================
