--------------------------- MODULE EthernetDriver ---------------------------
(***************************************************************************)
(* The Ethernet driver of the embedded demo (net.rs, Lm3sEth): how a frame *)
(* goes through the controller's data register, a word of four bytes at a  *)
(* time, in both directions.                                               *)
(*                                                                         *)
(* The controller is external and modelled from the driver's use of it: a  *)
(* received frame is queued as a length (of itself, the two length bytes   *)
(* and the CRC), its bytes and the CRC, in whole words; a frame to send is *)
(* given as the length of its payload and its bytes, and goes out when TR  *)
(* is written.  Nothing in the queue marks where a frame begins, so one    *)
(* word too many or too few and every later frame is read askew.           *)
(*                                                                         *)
(* A byte is an opaque value; an address has AddrLen of them, 6 in the     *)
(* code, and the header, 14 there, two addresses and the type.             *)
(***************************************************************************)
EXTENDS Integers, Sequences

CONSTANTS AddrLen, MaxFrameSize,
          Mac, Peer,       \* the address bytes of this device and of another
          Lengths,         \* of the frames on the wire, with the header
          Backlog,         \* bound on the frames waiting in the controller
          None

HeaderLen == 2 * AddrLen + 2

DriverAssumption ==
  /\ AddrLen \in Nat \ {0}
  /\ MaxFrameSize \in {n \in Nat : n >= HeaderLen}
  /\ Lengths \subseteq {n \in Nat : n >= HeaderLen}
  /\ Backlog \in Nat \ {0}

VARIABLES
  rx,         \* the words in the controller's receive queue
  wire,       \* history: the frames in rx, first received first
  handed,     \* the last frame received: what it was, what the stack got
  sent        \* the last frame sent: what the stack gave, what went out

vars == <<rx, wire, handed, sent>>

Pad == 0
Crc == <<"crc", "crc", "crc", "crc">>

FrameOf(src, len, mark) ==
  [i \in 1..len |-> IF i > AddrLen /\ i <= 2 * AddrLen THEN src ELSE <<mark, i>>]

Frames == {FrameOf(src, len, mark) : src \in {Mac, Peer}, len \in Lengths, mark \in {1, 2}}

Least(a, b) == IF a <= b THEN a ELSE b

\* usize::saturating_sub
SaturatingSub(a, b) == IF a >= b THEN a - b ELSE 0

\* frame.data.get(i).unwrap_or(&0), with i from 1
ByteAt(s, i) == IF i <= Len(s) THEN s[i] ELSE Pad

\* The words of four bytes that hold s from position first on.
WordsFrom(s, first) ==
  LET count == IF first > Len(s) THEN 0 ELSE (Len(s) - first) \div 4 + 1
  IN [w \in 1..count |-> [k \in 1..4 |-> ByteAt(s, first + 4 * (w - 1) + k - 1)]]

\* The bytes of words, as the data register gives or takes them.
Bytes(words) == [i \in 1..4 * Len(words) |-> words[(i - 1) \div 4 + 1][((i - 1) % 4) + 1]]

----------------------------------------------------------------------------
(***************************************************************************)
(* Receiving.                                                              *)
(***************************************************************************)

\* What the controller queues for frame f.
Queued(f) == WordsFrom(<<Len(f) + 6, "len">> \o f \o Crc, 1)

\* A frame arrives; sent frames may loop back (net.rs 206).
Arrive(f) ==
  /\ Len(wire) < Backlog
  /\ rx' = rx \o Queued(f)
  /\ wire' = Append(wire, f)
  /\ UNCHANGED <<handed, sent>>

\* Seeded fault: the loop ends with the frame, before the CRC.
WordsOfFrameOnly(totalLen) == 1 + (IF totalLen - 4 > 4 THEN (totalLen - 8 + 3) \div 4 ELSE 0)

\* The words Lm3sRxToken::consume reads: the first, then while consumed < total_len.
WordsRead(totalLen) == 1 + (IF totalLen > 4 THEN (totalLen - 4 + 3) \div 4 ELSE 0)

\* The bytes it copies: not the two length bytes, not the CRC, what buf can hold.
Copied(bytes, totalLen) ==
  LET frameLen == SaturatingSub(totalLen, 6)
  IN SubSeq(bytes, 3, 2 + Least(frameLen, MaxFrameSize))

\* Seeded fault: the destination is compared, not the source.
IsOwnByDestination(buf) == Len(buf) >= 2 * AddrLen /\ \A i \in 1..AddrLen : buf[i] = Mac

\* frame_idx >= 12 && buf[6..12] == self.mac
IsOwn(buf) == Len(buf) >= 2 * AddrLen /\ \A i \in AddrLen+1..2*AddrLen : buf[i] = Mac

\* Device::receive when NP is not 0, and the token's consume.
Receive ==
  /\ rx # <<>>
  /\ LET totalLen == rx[1][1]
         n == WordsRead(totalLen)
         buf == Copied(Bytes(SubSeq(rx, 1, n)), totalLen)
     IN /\ rx' = SubSeq(rx, n + 1, Len(rx))
        /\ handed' = [frame |-> Head(wire), got |-> IF IsOwn(buf) THEN <<>> ELSE buf]
  /\ wire' = Tail(wire)
  /\ UNCHANGED sent

----------------------------------------------------------------------------
(***************************************************************************)
(* Sending.                                                                *)
(***************************************************************************)

\* Seeded fault: the length given is that of the frame.
FirstWordWholeLength(f) == <<Len(f), "len", ByteAt(f, 1), ByteAt(f, 2)>>

\* The first word of Lm3sTxToken::consume.
FirstWord(f) == <<SaturatingSub(Len(f), HeaderLen), "len", ByteAt(f, 1), ByteAt(f, 2)>>

\* What the controller sends once TR is written: the payload length it was given
\* and the header, from the bytes that follow the length.
Transmitted(words) ==
  SubSeq(Bytes(words), 3, 2 + Least(words[1][1] + HeaderLen, 4 * Len(words) - 2))

\* Lm3sTxToken::consume; the stack sends no frame longer than the capabilities say.
Transmit(f) ==
  /\ Len(f) <= MaxFrameSize
  /\ sent' = [frame |-> f, out |-> Transmitted(<<FirstWord(f)>> \o WordsFrom(f, 3))]
  /\ UNCHANGED <<rx, wire, handed>>

----------------------------------------------------------------------------

\* Lm3sEth::init resets the receive queue.
Init ==
  /\ rx = <<>>
  /\ wire = <<>>
  /\ handed = None
  /\ sent = None

Next == Receive \/ \E f \in Frames : Arrive(f) \/ Transmit(f)

Spec == Init /\ [][Next]_vars

----------------------------------------------------------------------------
(***************************************************************************)
(* Properties.                                                             *)
(***************************************************************************)

\* The queue always starts where a frame starts: Lm3sRxToken::consume has read the
\* CRC and the padding of the frames before, whatever their lengths, and nothing
\* of the frames that arrived meanwhile.
QueueAligned ==
  \E start \in [1..Len(wire) + 1 -> 0..Len(rx)] :
    /\ start[1] = 0 /\ start[Len(wire) + 1] = Len(rx)
    /\ \A i \in 1..Len(wire) : SubSeq(rx, start[i] + 1, start[i + 1]) = Queued(wire[i])

\* The stack gets every frame of another device as it was on the wire (as much of
\* it as MaxFrameSize allows) without length or CRC, and nothing of the frames
\* this device sent itself.
HandedIntact ==
  handed # None =>
    LET f == handed.frame IN
      handed.got = IF f[AddrLen + 1] = Mac THEN <<>>
                   ELSE SubSeq(f, 1, Least(Len(f), MaxFrameSize))

\* The frame that goes out is the one the stack gave, with no byte of padding.
SentIntact == sent # None => sent.out = sent.frame
=============================================================================
