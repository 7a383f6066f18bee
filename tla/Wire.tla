-------------------------------- MODULE Wire --------------------------------
(***************************************************************************)
(* A message from the sending port to the receiving port: its encoding     *)
(* (message.rs to_wire, wire.rs MessageBuffer), the datagram, and the      *)
(* ingress that checks, parses and dispatches it (wire.rs, message.rs      *)
(* MessageIngress, port.rs SingleDomainPortMap).                           *)
(*                                                                         *)
(* A datagram is a sequence of bytes at the offsets of wire.rs.  Byte is   *)
(* the number of values of a byte, 256 in the code: a smaller base keeps   *)
(* the 48-bit seconds within TLC's integers, and every width follows from  *)
(* it (u16 is Byte^2, u32 is Byte^4).  A nibble is 16 values.              *)
(***************************************************************************)
EXTENDS Integers, Sequences, SequencesExt, FiniteSets

CONSTANTS
  Byte,             \* the values of a byte
  NanosPerSecond,   \* 1_000_000_000 in the code
  Kinds,            \* the messages the sender sends
  Seqs, Intervals,  \* the u16 sequence ids, i8 log intervals
  Stamps, Sets,     \* the timestamps and clock data sets (class and accuracy as
                    \* numbers) they carry
  Ports,            \* the port identities
  Domains,          \* the domains in use on the network
  LocalDomain,      \* the domain of the receiving port
  None

WireAssumption ==
  /\ Byte \in Nat /\ Byte >= 16 /\ Byte % 16 = 0
  /\ NanosPerSecond \in 1..(Byte^3)
  /\ LocalDomain \in Domains /\ Domains \subseteq 0..(Byte - 1)
  /\ Seqs \subseteq 0..(Byte * Byte - 1)
  /\ Intervals \subseteq (-(Byte \div 2))..(Byte \div 2 - 1)

VARIABLES
  sent,        \* what was sent: the message, its source and its domain
  datagram,    \* the datagram in flight
  socket,      \* the socket it was sent to
  changed,     \* how the sender's datagram differs from this code's
  received     \* what the ingress made of it

vars == <<sent, datagram, socket, changed, received>>

----------------------------------------------------------------------------
(* Integers in network byte order. *)

ToBeBytes(n, width) == [i \in 1..width |-> (n \div Byte^(width - i)) % Byte]

FromBeBytes(bytes) == FoldLeft(LAMBDA n, b : n * Byte + b, 0, bytes)

\* The bytes of an offset range first..last of the code, last excluded.
Slice(buf, first, last) == SubSeq(buf, first + 1, last)

Put(buf, offset, bytes) ==
  [i \in 1..Len(buf) |->
     IF i \in (offset + 1)..(offset + Len(bytes)) THEN bytes[i - offset] ELSE buf[i]]

At(buf, offset) == buf[offset + 1]

\* LogMessageInterval: `as u8' on the way out, `as i8' on the way in.
IntervalAsU8(i) == i % Byte
IntervalNew(b) == IF b < Byte \div 2 THEN b ELSE b - Byte
Unspecified == Byte \div 2 - 1

\* PortIdentity::to_wire and from_wire.
PortToWire(p) == p.clock \o ToBeBytes(p.port, 2)
PortFromWire(b) == [clock |-> Slice(b, 0, 8), port |-> FromBeBytes(Slice(b, 8, 10))]

\* TimeStamp::to_wire: the upper 16 and the lower 32 bits of the seconds.
TimeStampToWire(t) ==
  ToBeBytes(t.seconds \div Byte^4, 2) \o ToBeBytes(t.seconds % Byte^4, 4)
    \o ToBeBytes(t.nanos, 4)

ClockClassName(v) ==
  CASE v = 6 -> "PrimaryReference"
    [] v = 7 -> "PrimaryHoldover"
    [] v = 13 -> "ApplicationSpecific"
    [] v = 14 -> "ApplicationHoldover"
    [] v = 52 -> "PrimaryHoldoverDegradedA"
    [] v = 58 -> "ApplicationHoldoverDegradedA"
    [] v \in (68..122) \cup (133..170) \cup (216..232) -> "AlternateProfile"
    [] v = 187 -> "PrimaryHoldoverDegradedB"
    [] v = 193 -> "ApplicationHoldoverDegradedB"
    [] v = 248 -> "Default"
    [] v = 251 -> "V1Compatibility"
    [] v = 255 -> "SlaveOnly"
    [] OTHER -> "Reserved"

ClockAccuracyName(v) ==
  CASE v \in 32..49 -> <<"Within25ns", "Within100ns", "Within250ns", "Within1us",
         "Within2_5us", "Within10us", "Within25us", "Within100us", "Within250us",
         "Within1ms", "Within2_5ms", "Within10ms", "Within25ms", "Within100ms",
         "Within250ms", "Within1s", "Within10s", "GreaterThan10s">>[v - 31]
    [] v \in 128..253 -> "AlternateProfile"
    [] v = 254 -> "Unknown"
    [] OTHER -> "Reserved"

\* Only the reserved and the alternate-profile variants keep their value.
WithName(name, v) ==
  [name |-> name, value |-> IF name \in {"Reserved", "AlternateProfile"} THEN v ELSE None]

ClockClassNew(v) == WithName(ClockClassName(v), v)
ClockAccuracyNew(v) == WithName(ClockAccuracyName(v), v)

ClockClassCode ==
  [PrimaryReference |-> 6, PrimaryHoldover |-> 7, ApplicationSpecific |-> 13,
   ApplicationHoldover |-> 14, PrimaryHoldoverDegradedA |-> 52,
   ApplicationHoldoverDegradedA |-> 58, PrimaryHoldoverDegradedB |-> 187,
   ApplicationHoldoverDegradedB |-> 193, Default |-> 248, V1Compatibility |-> 251,
   SlaveOnly |-> 255]

ClockAccuracyCode ==
  [Within25ns |-> 32, Within100ns |-> 33, Within250ns |-> 34, Within1us |-> 35,
   Within2_5us |-> 36, Within10us |-> 37, Within25us |-> 38, Within100us |-> 39,
   Within250us |-> 40, Within1ms |-> 41, Within2_5ms |-> 42, Within10ms |-> 43,
   Within25ms |-> 44, Within100ms |-> 45, Within250ms |-> 46, Within1s |-> 47,
   Within10s |-> 48, GreaterThan10s |-> 49, Unknown |-> 254]

\* Seeded fault: an alternate-profile class goes out as the default class.
ClockClassAsDefault(c) ==
  IF c.name = "AlternateProfile" THEN 248
  ELSE IF c.value # None THEN c.value ELSE ClockClassCode[c.name]

ClockClassAsU8(c) == IF c.value # None THEN c.value ELSE ClockClassCode[c.name]
ClockAccuracyAsU8(a) == IF a.value # None THEN a.value ELSE ClockAccuracyCode[a.name]

\* ClockDS::to_wire and from_wire with ClockQuality's: 16 bytes.
ClockDSToWire(ds) ==
  <<ds.priority1, ClockClassAsU8(ds.class), ClockAccuracyAsU8(ds.accuracy)>>
    \o ToBeBytes(ds.variance, 2) \o <<ds.priority2>> \o ds.identity
    \o ToBeBytes(ds.steps, 2)

ClockDSFromWire(b) ==
  [identity |-> Slice(b, 6, 14), priority1 |-> At(b, 0), priority2 |-> At(b, 5),
   class |-> ClockClassNew(At(b, 1)), accuracy |-> ClockAccuracyNew(At(b, 2)),
   variance |-> FromBeBytes(Slice(b, 3, 5)), steps |-> FromBeBytes(Slice(b, 14, 16))]

----------------------------------------------------------------------------
(* Sending: DomainPort::send_event and send_general. *)

\* MessageType::to_nibble
TypeNibble ==
  [Sync |-> 0, DelayRequest |-> 1, FollowUp |-> 8, DelayResponse |-> 9, Announce |-> 11]

ControlField ==
  [Sync |-> 0, DelayRequest |-> 1, FollowUp |-> 2, DelayResponse |-> 3, Other |-> 5]

\* MessageFlags: TWO_STEP is 0x0200 and PTP_TIMESCALE 0x0008 of the 16 bits.
TwoStep == 2
PtpTimescale == 8
NoFlags == <<0, 0>>

BufferLen == 64    \* 2048 in the code, the longest message has 64 bytes

\* MessageBuffer::new.
MessageBuffer(domain, source) ==
  LET zero == [i \in 1..BufferLen |-> 0]
  IN  Put(Put(Put(zero, 1, <<2>>), 4, <<domain>>), 20, PortToWire(source))

\* The builder chain: type and control, flags, sequence id, interval.
WithHeader(buf, type, control, flags, seq, interval) ==
  LET typed == Put(Put(buf, 0, <<(At(buf, 0) \div 16) * 16 + TypeNibble[type]>>),
                   32, <<ControlField[control]>>)
      sequenced == Put(Put(typed, 6, flags), 30, ToBeBytes(seq, 2))
  IN  Put(sequenced, 33, <<IntervalAsU8(interval)>>)

\* Seeded fault: the declared length leaves out the header.
FinalizePayloadOnly(buf, len) == SubSeq(Put(buf, 2, ToBeBytes(len, 2)), 1, 34 + len)

Finalize(buf, len) == SubSeq(Put(buf, 2, ToBeBytes(34 + len, 2)), 1, 34 + len)

WithPayload(buf, payload) == Finalize(Put(buf, 34, payload), Len(payload))

\* to_wire of each message.
AnnounceToWire(m, buf) ==
  WithPayload(WithHeader(buf, "Announce", "Other", IF m.ptp THEN <<0, PtpTimescale>> ELSE NoFlags,
                         m.seq, m.interval),
              [i \in 1..13 |-> 0] \o ClockDSToWire(m.ds) \o <<0>>)

OneStepSyncToWire(m, buf) ==
  WithPayload(WithHeader(buf, "Sync", "Sync", NoFlags, m.seq, m.interval),
              TimeStampToWire(m.stamp))

TwoStepSyncToWire(m, buf) ==
  WithPayload(WithHeader(buf, "Sync", "Sync", <<TwoStep, 0>>, m.seq, m.interval),
              [i \in 1..10 |-> 0])

FollowUpToWire(m, buf) ==
  WithPayload(WithHeader(buf, "FollowUp", "FollowUp", NoFlags, m.seq, m.interval),
              TimeStampToWire(m.stamp))

DelayRequestToWire(m, buf) ==
  WithPayload(WithHeader(buf, "DelayRequest", "DelayRequest", NoFlags, m.seq, Unspecified),
              [i \in 1..10 |-> 0])

DelayResponseToWire(m, buf) ==
  WithPayload(WithHeader(buf, "DelayResponse", "DelayResponse", NoFlags, m.seq, m.interval),
              TimeStampToWire(m.stamp) \o PortToWire(m.requester))

\* EventMessage::to_wire and GeneralMessage::to_wire.
EventToWire(m, buf) ==
  CASE m.kind = "OneStepSync" -> OneStepSyncToWire(m, buf)
    [] m.kind = "TwoStepSync" -> TwoStepSyncToWire(m, buf)
    [] m.kind = "DelayReq" -> DelayRequestToWire(m, buf)

GeneralToWire(m, buf) ==
  CASE m.kind = "Announce" -> AnnounceToWire(m, buf)
    [] m.kind = "FollowUp" -> FollowUpToWire(m, buf)
    [] m.kind = "DelayResp" -> DelayResponseToWire(m, buf)

----------------------------------------------------------------------------
(* Receiving.  A result is a message with its source, or an error. *)

\* result.rs: the bytes are broken; the bytes are sound and not for this port.
ParseErrors == {"HeaderTooShort", "LengthMismatch", "PayloadTooShort"}
ProtocolErrors ==
  {"UnsupportedPtpVersion", "DomainNotFound", "InvalidTimestamp", "UnknownMessageType"}

Err(e) == [error |-> e, source |-> None, msg |-> None]
Ok(source, m) == [error |-> None, source |-> source, msg |-> m]

\* Seeded fault: the length is checked before the version.
LengthBeforeVersion(buf) ==
  CASE Len(buf) < 34 -> "HeaderTooShort"
    [] Len(buf) >= 34 /\ FromBeBytes(Slice(buf, 2, 4)) # Len(buf) -> "LengthMismatch"
    [] Len(buf) >= 34 /\ FromBeBytes(Slice(buf, 2, 4)) = Len(buf)
       /\ At(buf, 1) % 16 # 2 -> "UnsupportedPtpVersion"
    [] OTHER -> None

\* UnvalidatedMessage::length_checked_v2.
LengthChecked(buf) ==
  CASE Len(buf) < 34 -> "HeaderTooShort"
    [] Len(buf) >= 34 /\ At(buf, 1) % 16 # 2 -> "UnsupportedPtpVersion"
    [] Len(buf) >= 34 /\ At(buf, 1) % 16 = 2
       /\ FromBeBytes(Slice(buf, 2, 4)) # Len(buf) -> "LengthMismatch"
    [] OTHER -> None

Port(domain) == IF domain = LocalDomain THEN None ELSE "DomainNotFound"

MessageTypes == {0, 1, 8, 9, 11}

\* WireTimeStamp::timestamp of a payload of which the first ten bytes are
\* there: a nanosecond field beyond the second is no timestamp.
WireSeconds(p) ==
  FromBeBytes(Slice(p, 0, 2)) * Byte^4 + FromBeBytes(Slice(p, 2, 6))

\* Seeded fault: the nanoseconds are taken as they come.
WireTimeStampUnchecked(p) ==
  IF Len(p) < 10 THEN [error |-> "PayloadTooShort"]
  ELSE [error |-> None,
        stamp |-> [seconds |-> WireSeconds(p), nanos |-> FromBeBytes(Slice(p, 6, 10))]]

WireTimeStamp(p) ==
  IF Len(p) < 10 THEN [error |-> "PayloadTooShort"]
  ELSE LET nanos == FromBeBytes(Slice(p, 6, 10))
       IN  IF nanos < NanosPerSecond
           THEN [error |-> None, stamp |-> [seconds |-> WireSeconds(p), nanos |-> nanos]]
           ELSE [error |-> "InvalidTimestamp"]

Stamped(source, p, m) ==
  LET t == WireTimeStamp(p)
  IN  IF t.error # None THEN Err(t.error)
      ELSE Ok(source, [x \in DOMAIN m \cup {"stamp"} |->
                         IF x = "stamp" THEN t.stamp ELSE m[x]])

\* The header fields every constructor takes.
Header(buf) ==
  [type |-> At(buf, 0) % 16, source |-> PortFromWire(Slice(buf, 20, 30)),
   twoStep |-> (At(buf, 6) \div TwoStep) % 2 = 1,
   ptp |-> (At(buf, 7) \div PtpTimescale) % 2 = 1,
   seq |-> FromBeBytes(Slice(buf, 30, 32)),
   interval |-> IntervalNew(At(buf, 33)),
   payload |-> Slice(buf, 34, Len(buf))]

\* EventMessage::new.
EventMessage(h) ==
  CASE h.type = 0 /\ h.twoStep ->
         Ok(h.source, [kind |-> "TwoStepSync", seq |-> h.seq, interval |-> h.interval])
    [] h.type = 0 /\ ~h.twoStep ->
         Stamped(h.source, h.payload,
                 [kind |-> "OneStepSync", seq |-> h.seq, interval |-> h.interval])
    [] h.type = 1 -> Ok(h.source, [kind |-> "DelayReq", seq |-> h.seq])
    [] OTHER -> Err("UnknownMessageType")

\* AnnouncePayload::foreign_clock_ds and AnnounceMessage::new.
AnnounceMessage(h) ==
  IF Len(h.payload) < 29 THEN Err("PayloadTooShort")
  ELSE Ok(h.source, [kind |-> "Announce", seq |-> h.seq, interval |-> h.interval,
                     ds |-> ClockDSFromWire(Slice(h.payload, 13, 29)), ptp |-> h.ptp])

\* DelayResponsePayload: the timestamp is read before the requesting port.
DelayResponseMessage(h) ==
  LET stamped == Stamped(h.source, h.payload,
                         [kind |-> "DelayResp", seq |-> h.seq, interval |-> h.interval,
                          requester |-> PortFromWire(Slice(h.payload, 10, 20))])
  IN  IF Len(h.payload) \in 10..19 /\ WireTimeStamp(h.payload).error = None
      THEN Err("PayloadTooShort") ELSE stamped

\* GeneralMessage::new.
GeneralMessage(h) ==
  CASE h.type = 11 -> AnnounceMessage(h)
    [] h.type = 8 ->
         Stamped(h.source, h.payload,
                 [kind |-> "FollowUp", seq |-> h.seq, interval |-> h.interval])
    [] h.type = 9 -> DelayResponseMessage(h)
    [] OTHER -> Err("UnknownMessageType")

\* Seeded fault: a message of any domain goes to the port.
IngressAnyDomain(buf, sock) ==
  IF LengthChecked(buf) # None THEN Err(LengthChecked(buf))
  ELSE IF Header(buf).type \notin MessageTypes THEN Err("UnknownMessageType")
  ELSE IF sock = "event" THEN EventMessage(Header(buf)) ELSE GeneralMessage(Header(buf))

\* MessageIngress::receive_event and receive_general, DomainMessage's
\* dispatch: length and version, domain, message type, then the payload.
Ingress(buf, sock) ==
  IF LengthChecked(buf) # None THEN Err(LengthChecked(buf))
  ELSE IF Port(At(buf, 4)) # None THEN Err(Port(At(buf, 4)))
  ELSE IF Header(buf).type \notin MessageTypes THEN Err("UnknownMessageType")
  ELSE IF sock = "event" THEN EventMessage(Header(buf)) ELSE GeneralMessage(Header(buf))

----------------------------------------------------------------------------
(* The messages, and the datagrams of other PTP implementations. *)

\* ClockDS of a quality given in numbers: ClockClass::new, ClockAccuracy::new.
WithQuality(ds) ==
  [ds EXCEPT !.class = ClockClassNew(@), !.accuracy = ClockAccuracyNew(@)]

AnnounceMessages == [kind : {"Announce"}, seq : Seqs, interval : Intervals,
                     ds : {WithQuality(ds) : ds \in Sets}, ptp : BOOLEAN]
OneStepSyncMessages ==
  [kind : {"OneStepSync"}, seq : Seqs, interval : Intervals, stamp : Stamps]
TwoStepSyncMessages == [kind : {"TwoStepSync"}, seq : Seqs, interval : Intervals]
FollowUpMessages == [kind : {"FollowUp"}, seq : Seqs, interval : Intervals, stamp : Stamps]
DelayRequestMessages == [kind : {"DelayReq"}, seq : Seqs]
DelayResponseMessages == [kind : {"DelayResp"}, seq : Seqs, interval : Intervals,
                          stamp : Stamps, requester : Ports]

EventMessages ==
  {m \in OneStepSyncMessages \cup TwoStepSyncMessages \cup DelayRequestMessages :
     m.kind \in Kinds}
GeneralMessages ==
  {m \in AnnounceMessages \cup FollowUpMessages \cup DelayResponseMessages : m.kind \in Kinds}

Init ==
  /\ sent = None
  /\ datagram = <<>>
  /\ socket = None
  /\ changed = None
  /\ received = None

Send(m, source, domain, bytes, sock) ==
  /\ sent' = [msg |-> m, source |-> source, domain |-> domain]
  /\ datagram' = bytes
  /\ socket' = sock
  /\ UNCHANGED <<changed, received>>

\* DomainPort::send_event and send_general: encoded, and to the socket of
\* the message's class.
SendEvent(m, source, domain) ==
  Send(m, source, domain, EventToWire(m, MessageBuffer(domain, source)), "event")

SendGeneral(m, source, domain) ==
  Send(m, source, domain, GeneralToWire(m, MessageBuffer(domain, source)), "general")

\* What the datagrams of other PTP implementations on the network carry:
\* another version, a minor version or an SDO id in the upper nibbles, TLVs
\* behind the message, a message this code does not know, a shortened
\* payload, a timestamp that is none.
Alter(how, buf) ==
  /\ sent # None /\ received = None /\ changed = None
  /\ changed' = how
  /\ datagram' = buf
  /\ UNCHANGED <<sent, socket, received>>

WithLength(buf) == Put(buf, 2, ToBeBytes(Len(buf), 2))

\* The header of version 1 has two version numbers of two bytes at its start.
OldVersion == Alter("version", Put(datagram, 0, <<0, 1, 0, 1>>))
MinorVersion == Byte > 16 /\ Alter("extended", Put(datagram, 1, <<16 + 2>>))
SdoId == Byte > 16 /\ Alter("extended", Put(datagram, 0, <<16 + At(datagram, 0)>>))
Suffix(n) == Alter("extended", WithLength(datagram \o [i \in 1..n |-> 1]))
Padded == Alter("length", datagram \o <<0>>)
Truncated(n) == n < Len(datagram) /\ Alter("length", SubSeq(datagram, 1, n))
Shortened(n) == 34 + n < Len(datagram) /\ Alter("short", WithLength(SubSeq(datagram, 1, 34 + n)))
OtherType(t) == Alter("type", Put(datagram, 0, <<t>>))
BadNanos == Len(datagram) >= 44 /\ Alter("nanos", Put(datagram, 40, ToBeBytes(NanosPerSecond, 4)))
OtherSocket ==
  /\ sent # None /\ received = None /\ changed = None
  /\ changed' = "socket"
  /\ socket' = IF socket = "event" THEN "general" ELSE "event"
  /\ UNCHANGED <<sent, datagram, received>>

\* process_datagram of the daemon and of the embedded main loop.
Receive ==
  /\ sent # None /\ received = None
  /\ received' = Ingress(datagram, socket)
  /\ UNCHANGED <<sent, datagram, socket, changed>>

\* The next datagram: nothing of the last one stays behind.
Forget ==
  /\ received # None
  /\ sent' = None /\ datagram' = <<>> /\ socket' = None
  /\ changed' = None /\ received' = None

Next ==
  \/ /\ sent = None
     /\ \E p \in Ports, d \in Domains :
          \/ \E m \in EventMessages : SendEvent(m, p, d)
          \/ \E m \in GeneralMessages : SendGeneral(m, p, d)
  \/ OldVersion \/ MinorVersion \/ SdoId \/ Padded \/ BadNanos \/ OtherSocket
  \/ \E n \in {1, 14} : Suffix(n)
  \/ \E n \in {0, 33, 43} : Truncated(n)
  \/ \E n \in {0, 9, 10, 19, 28, 29} : Shortened(n)
  \/ \E t \in {2, 3, 10, 12, 13} : OtherType(t)
  \/ Receive
  \/ Forget

Spec == Init /\ [][Next]_vars

----------------------------------------------------------------------------
(* Properties. *)

Delivered == received # None /\ received.error = None

\* A message sent in the receiver's domain reaches its port as it was sent:
\* the same kind, fields and source.  Minor versions, SDO ids and TLVs behind
\* the message (wire.rs masks the nibbles and reads fixed offsets) change
\* nothing about it.
RoundTrip ==
  received # None /\ changed \in {None, "extended"} /\ sent.domain = LocalDomain =>
    received = Ok(sent.source, sent.msg)

\* A datagram of another domain or another version, one whose declared length
\* is not its length, one of an unknown type or on the other socket never
\* reaches the port, whatever else it carries.
OnlyOwnTraffic ==
  Delivered =>
    /\ sent.domain = LocalDomain
    /\ changed \notin {"version", "length", "type", "socket"}

\* Whatever reaches the port reads as it was sent: a payload cut short, a
\* nanosecond field beyond the second or bytes behind the message are refused
\* or make no difference, and never become another timestamp or data set.
NeverMisread == Delivered => received = Ok(sent.source, sent.msg)

\* A refusal names its cause: an error says that the bytes are broken only of a
\* datagram cut short or with the wrong length, so that sound messages of another
\* version, domain or kind are never taken for damage (result.rs, the order of the
\* checks in wire.rs and message.rs).
RefusedForCause ==
  received # None /\ received.error # None =>
    /\ received.error \in ParseErrors \cup ProtocolErrors
    /\ received.error \in ParseErrors => changed \in {"length", "short"}
    /\ changed = "length" => received.error \in ParseErrors
=============================================================================
