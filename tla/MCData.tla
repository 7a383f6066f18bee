------------------------------- MODULE MCData -------------------------------
(***************************************************************************)
(* The two modules about data for TLC: TimeArithmetic, Wire on boundary    *)
(* values of every field of every message, and Wire on every clock class   *)
(* and accuracy with bytes of 256 values.  They are modelled apart, with   *)
(* no variable in common: part says which one takes steps.                 *)
(***************************************************************************)
EXTENDS TimeArithmetic

CONSTANTS MessageByte,   \* Byte where whole messages are encoded
          None           \* Option::None

VARIABLES part, sent, datagram, socket, changed, received

MCThreshold == [seconds |-> 1, nanos |-> 1]

U16Max(byte) == byte * byte - 1

Identity(b) == [i \in 1..8 |-> IF i = 1 THEN 0 ELSE b + i]

PortsOf(byte) == {[clock |-> Identity(1), port |-> 1],
                  [clock |-> Identity(7), port |-> U16Max(byte)]}

\* The last second of the lower 32 bits, the first beyond it, the last of 48.
StampsOf(byte) == [seconds : {0, byte^4 - 1, byte^4, byte^6 - 1}, nanos : {0, 999}]

DataSet(byte, class, accuracy, n) ==
  [identity |-> Identity(2), priority1 |-> n, priority2 |-> byte - 1 - n,
   class |-> class, accuracy |-> accuracy,
   variance |-> byte + n, steps |-> U16Max(byte) - byte - n]

Messages == INSTANCE Wire
  WITH Byte <- MessageByte, NanosPerSecond <- 1000,
       Kinds <- {"OneStepSync", "TwoStepSync", "DelayReq", "FollowUp", "DelayResp", "Announce"},
       Seqs <- {0, MessageByte, U16Max(MessageByte)},
       Intervals <- {-(MessageByte \div 2), -1, 0, MessageByte \div 2 - 1},
       Stamps <- StampsOf(MessageByte), Ports <- PortsOf(MessageByte),
       Sets <- {DataSet(MessageByte, 6, 15, 1), DataSet(MessageByte, 14, 31, 9)},
       Domains <- {0, 3}, LocalDomain <- 0

Codes == INSTANCE Wire
  WITH Byte <- 256, NanosPerSecond <- 1000, Kinds <- {"Announce"},
       Seqs <- {258}, Intervals <- {1}, Stamps <- {}, Ports <- PortsOf(256),
       Sets <- {DataSet(256, c, 255 - c, 3) : c \in 0..255},
       Domains <- {0}, LocalDomain <- 0

ASSUME DataAssumption == Messages!WireAssumption /\ Codes!WireAssumption

wireVars == <<sent, datagram, socket, changed, received>>

MCInit == part \in {"time", "messages", "codes"} /\ TimeInit /\ Messages!Init

TimeStep == part = "time" /\ TimeNext /\ UNCHANGED <<part, wireVars>>
MessagesStep == part = "messages" /\ Messages!Next /\ UNCHANGED <<part, timeVars>>
CodesStep == part = "codes" /\ Codes!Next /\ UNCHANGED <<part, timeVars>>

MCNext == TimeStep \/ MessagesStep \/ CodesStep

MCSpec == MCInit /\ [][MCNext]_<<part, timeVars, wireVars>>

\* A message sent in the receiver's domain reaches its port as it was sent, every
\* clock class and accuracy included, and with minor versions, SDO ids and TLVs
\* behind it that this code ignores (message.rs, wire.rs).
RoundTrip ==
  /\ part = "messages" => Messages!RoundTrip
  /\ part = "codes" => Codes!RoundTrip

\* What reaches the port was sent in its domain, with its version and to its socket,
\* and reads as it was sent; everything else, a payload cut short or a nanosecond
\* field beyond the second included, is refused, and sound messages of another version,
\* domain or kind are never taken for damage (wire.rs, message.rs, result.rs).
OwnOrRefused ==
  part = "messages" =>
    Messages!OnlyOwnTraffic /\ Messages!NeverMisread /\ Messages!RefusedForCause
=============================================================================
