--------------------------- MODULE SyncPathProofs ---------------------------
(***************************************************************************)
(* A port in Master never falls silent, and each FollowUp on the wire      *)
(* follows up one Sync before it, for any number of Syncs, Announces and   *)
(* returns to Master, whether its DelayReqs are free (MasterPort) or come  *)
(* from the slave (SyncPath); and what the slave pairs belongs together.   *)
(***************************************************************************)
EXTENDS SyncPath, TLAPS

Messages == [type : {"Announce", "Sync", "FollowUp", "DelayResp"}, seq : Nat, ex : Nat]

Stamps == [type : {"Timestamp"}, seq : Nat, ex : Nat]
Timers == [type : {"AnnounceSendTimeout", "SyncTimeout", "QualificationTimeout"}]
Decisions == [type : {"Recommend"}, next : {"PreMaster", "Other"}]

SystemMessages == Stamps \cup Timers \cup Decisions

Cycles == [seq : Nat, armed : BOOLEAN]

Types ==
  /\ role \in {"Master", "PreMaster", "Faulty", "Other"}
  /\ announce \in Cycles /\ sync \in Cycles
  /\ channel \in Seq(SystemMessages)
  /\ wire \in Seq(Messages)
  /\ syncs \in Nat

SyncOf(m) == [type |-> "Sync", seq |-> m.seq, ex |-> m.ex]

\* The stamps in channel c are those of Syncs on wire w that are not followed up yet,
\* each once, and all numbers are below n.
Stamped(c, w, n) ==
  /\ \A i \in DOMAIN c : c[i].type = "Timestamp" =>
       /\ c[i].ex < n
       /\ \E j \in DOMAIN w : w[j] = SyncOf(c[i])
       /\ \A k \in DOMAIN c : c[k].type = "Timestamp" /\ k # i => c[k].ex # c[i].ex
       /\ \A j \in DOMAIN w : w[j].type = "FollowUp" => w[j].ex # c[i].ex
  /\ \A j \in DOMAIN w : w[j].type = "FollowUp" => w[j].ex < n

\* FollowsItsSync of wire w
Follows(w) ==
  \A i \in DOMAIN w :
    w[i].type = "FollowUp" =>
      /\ \E j \in 1..(i - 1) : w[j] = SyncOf(w[i])
      /\ \A j \in 1..(i - 1) : w[j] # w[i]

Awaits(c, type) == \E i \in DOMAIN c : c[i].type = type

\* CyclesContinue of cycles a and s with channel c
Continues(a, s, c) ==
  /\ a.armed \/ Awaits(c, "AnnounceSendTimeout")
  /\ s.armed \/ Awaits(c, "SyncTimeout")

IInv ==
  /\ Types
  /\ Stamped(channel, wire, syncs)
  /\ Follows(wire)
  /\ role = "Master" => Continues(announce, sync, channel)

\* An id wraps to an id (SequenceId::next) and, before the last, counts up.
LEMMA NextTyped ==
  ASSUME NEW c \in Cycles
  PROVE  /\ NextOf(c) \in Cycles
         /\ c.seq + 1 < SeqIds => NextOf(c).seq = c.seq + 1
<1>1. c.seq + 1 \in Nat /\ SeqIds \in Nat \ {0}
  BY MasterPortAssumption DEF Cycles
<1>2. ASSUME NEW n \in Nat
      PROVE  n % SeqIds \in Nat /\ (n < SeqIds => n % SeqIds = n)
  BY <1>1
<1> QED  BY <1>1, <1>2 DEF NextOf, Cycles

----------------------------------------------------------------------------
(* Sequences *)

LEMMA TailOf ==
  ASSUME NEW E, NEW c \in Seq(E), c # <<>>
  PROVE  /\ Tail(c) \in Seq(E) /\ Head(c) \in E /\ 1 \in DOMAIN c /\ c[1] = Head(c)
         /\ \A i \in DOMAIN Tail(c) : i + 1 \in DOMAIN c /\ Tail(c)[i] = c[i + 1] /\ i \in Nat \ {0}
         /\ \A i \in DOMAIN c : i # 1 => i - 1 \in DOMAIN Tail(c) /\ Tail(c)[i - 1] = c[i]
OBVIOUS

LEMMA AppendOf ==
  ASSUME NEW E, NEW c \in Seq(E), NEW e \in E
  PROVE  /\ Append(c, e) \in Seq(E)
         /\ Len(c) \in Nat /\ Len(c) + 1 \notin DOMAIN c
         /\ DOMAIN c = 1..Len(c)
         /\ DOMAIN Append(c, e) = DOMAIN c \cup {Len(c) + 1}
         /\ \A i \in DOMAIN c : Append(c, e)[i] = c[i]
         /\ Append(c, e)[Len(c) + 1] = e
OBVIOUS

LEMMA AwaitsTail ==
  ASSUME NEW c \in Seq(SystemMessages), c # <<>>, NEW t, Head(c).type # t, Awaits(c, t)
  PROVE  Awaits(Tail(c), t)
<1>1. PICK i \in DOMAIN c : c[i].type = t
  BY DEF Awaits
<1>2. i # 1
  BY <1>1, TailOf
<1> QED  BY <1>1, <1>2, TailOf DEF Awaits

LEMMA AwaitsAppend ==
  ASSUME NEW c \in Seq(SystemMessages), NEW e \in SystemMessages, NEW t
  PROVE  /\ Awaits(c, t) => Awaits(Append(c, e), t)
         /\ e.type = t => Awaits(Append(c, e), t)
BY AppendOf DEF Awaits

----------------------------------------------------------------------------
(* The stamps and the wire *)

\* A system message is taken.
LEMMA TakeKeeps ==
  ASSUME NEW c \in Seq(SystemMessages), NEW w, NEW n, c # <<>>, Stamped(c, w, n)
  PROVE  Stamped(Tail(c), w, n)
<1>1. ASSUME NEW i \in DOMAIN Tail(c), Tail(c)[i].type = "Timestamp"
      PROVE  /\ Tail(c)[i].ex < n
             /\ \E j \in DOMAIN w : w[j] = SyncOf(Tail(c)[i])
             /\ \A k \in DOMAIN Tail(c) : Tail(c)[k].type = "Timestamp" /\ k # i =>
                  Tail(c)[k].ex # Tail(c)[i].ex
             /\ \A j \in DOMAIN w : w[j].type = "FollowUp" => w[j].ex # Tail(c)[i].ex
  BY <1>1, TailOf DEF Stamped
<1> QED  BY <1>1 DEF Stamped

\* A message that is no stamp is put into the channel.
LEMMA PutKeeps ==
  ASSUME NEW c \in Seq(SystemMessages), NEW w, NEW n, Stamped(c, w, n),
         NEW e \in SystemMessages, e.type # "Timestamp"
  PROVE  Stamped(Append(c, e), w, n)
BY AppendOf DEF Stamped

\* A message that is no FollowUp is sent.
LEMMA SendKeeps ==
  ASSUME NEW c, NEW w \in Seq(Messages), NEW n, Stamped(c, w, n), Follows(w),
         NEW m \in Messages, m.type # "FollowUp"
  PROVE  Stamped(c, Append(w, m), n) /\ Follows(Append(w, m))
<1>1. Stamped(c, Append(w, m), n)
  BY AppendOf DEF Stamped
<1>2. Follows(Append(w, m))
  BY AppendOf DEF Follows
<1> QED  BY <1>1, <1>2

\* A Sync is sent, and stamped.
LEMMA SyncKeeps ==
  ASSUME NEW c \in Seq(SystemMessages), NEW w \in Seq(Messages), NEW n \in Nat,
         Stamped(c, w, n), NEW id \in Nat,
         NEW s, s = [type |-> "Sync", seq |-> id, ex |-> n]
  PROVE  Stamped(StampEgress(s, c), Append(w, s), n + 1)
<1> DEFINE t == [type |-> "Timestamp", seq |-> id, ex |-> n]
           d == Append(c, t)
           v == Append(w, s)
<1>1. StampEgress(s, c) = d /\ t \in SystemMessages /\ s \in Messages /\ SyncOf(t) = s
  BY DEF StampEgress, SyncOf, SystemMessages, Stamps, Messages
<1>2. /\ s.type # "FollowUp" /\ t.type = "Timestamp" /\ t.ex = n
      /\ \A m \in Messages : m.ex \in Nat
  BY DEF Messages
<1>3. \A x \in SystemMessages : x.type = "Timestamp" => x.ex \in Nat
  BY DEF SystemMessages, Stamps, Timers, Decisions
<1> HIDE DEF t
<1>4. /\ DOMAIN d = DOMAIN c \cup {Len(c) + 1} /\ d[Len(c) + 1] = t /\ Len(c) + 1 \notin DOMAIN c
      /\ \A i \in DOMAIN c : d[i] = c[i] /\ c[i] \in SystemMessages
  BY <1>1, AppendOf
<1>5. /\ DOMAIN v = DOMAIN w \cup {Len(w) + 1} /\ v[Len(w) + 1] = s
      /\ \A j \in DOMAIN w : v[j] = w[j] /\ w[j] \in Messages
  BY <1>1, AppendOf
<1> HIDE DEF d, v
<1>6. \A j \in DOMAIN v : v[j].type = "FollowUp" => v[j].ex < n /\ v[j].ex \in Nat
  BY <1>1, <1>2, <1>5 DEF Stamped
<1>7. \A i \in DOMAIN c : c[i].type = "Timestamp" => c[i].ex < n /\ c[i].ex \in Nat
  BY <1>3, <1>4 DEF Stamped
<1>8. ASSUME NEW i \in DOMAIN d, d[i].type = "Timestamp"
      PROVE  /\ d[i].ex < n + 1
             /\ \E j \in DOMAIN v : v[j] = SyncOf(d[i])
             /\ \A k \in DOMAIN d : d[k].type = "Timestamp" /\ k # i => d[k].ex # d[i].ex
             /\ \A j \in DOMAIN v : v[j].type = "FollowUp" => v[j].ex # d[i].ex
  <2>1. CASE i = Len(c) + 1
    BY <2>1, <1>1, <1>2, <1>4, <1>5, <1>6, <1>7
  <2>2. CASE i \in DOMAIN c
    <3>1. d[i] = c[i] /\ d[i].ex < n /\ d[i].ex \in Nat
      BY <2>2, <1>4, <1>7, <1>8
    <3>2. \E j \in DOMAIN v : v[j] = SyncOf(d[i])
      BY <2>2, <3>1, <1>5, <1>8 DEF Stamped
    <3>3. \A k \in DOMAIN d : d[k].type = "Timestamp" /\ k # i => d[k].ex # d[i].ex
      BY <2>2, <3>1, <1>2, <1>4, <1>8 DEF Stamped
    <3>4. \A j \in DOMAIN v : v[j].type = "FollowUp" => v[j].ex # d[i].ex
      BY <2>2, <3>1, <1>2, <1>5, <1>8 DEF Stamped
    <3> QED  BY <3>1, <3>2, <3>3, <3>4
  <2> QED  BY <2>1, <2>2, <1>4
<1>9. \A j \in DOMAIN v : v[j].type = "FollowUp" => v[j].ex < n + 1
  BY <1>6
<1> QED  BY <1>1, <1>8, <1>9 DEF Stamped, d, v

\* The Sync whose stamp is the next message is followed up.
LEMMA FollowUpKeeps ==
  ASSUME NEW c \in Seq(SystemMessages), NEW w \in Seq(Messages), NEW n,
         c # <<>>, Head(c).type = "Timestamp", Stamped(c, w, n), Follows(w)
  PROVE  /\ Stamped(Tail(c), Append(w, FollowUp(Head(c))), n)
         /\ Follows(Append(w, FollowUp(Head(c))))
         /\ FollowUp(Head(c)) \in Messages
<1> DEFINE h == Head(c)
           f == FollowUp(h)
           d == Tail(c)
           v == Append(w, f)
<1>1. h \in Stamps /\ 1 \in DOMAIN c /\ c[1] = h
  BY TailOf DEF SystemMessages, Timers, Decisions, Stamps
<1>2. f \in Messages /\ f.type = "FollowUp" /\ f.ex = h.ex /\ SyncOf(f) = SyncOf(h)
  BY <1>1 DEF FollowUp, Messages, Stamps, SyncOf
<1>3. /\ h.ex < n
      /\ \E j \in DOMAIN w : w[j] = SyncOf(h)
      /\ \A k \in DOMAIN c : c[k].type = "Timestamp" /\ k # 1 => c[k].ex # h.ex
      /\ \A j \in DOMAIN w : w[j].type = "FollowUp" => w[j].ex # h.ex
  BY <1>1, c[1].type = "Timestamp" DEF Stamped
<1>4. \A i \in DOMAIN d : i + 1 \in DOMAIN c /\ d[i] = c[i + 1] /\ i + 1 # 1
  BY TailOf
<1>5. /\ DOMAIN v = DOMAIN w \cup {Len(w) + 1} /\ v[Len(w) + 1] = f
      /\ \A j \in DOMAIN w : v[j] = w[j]
      /\ DOMAIN w = 1..Len(w) /\ Len(w) \in Nat
  BY <1>2, AppendOf
<1>6. Stamped(d, w, n)
  BY TakeKeeps
<1> HIDE DEF h, f, d, v
<1>7. Stamped(d, v, n)
  <2>1. ASSUME NEW i \in DOMAIN d, d[i].type = "Timestamp"
        PROVE  /\ d[i].ex < n
               /\ \E j \in DOMAIN v : v[j] = SyncOf(d[i])
               /\ \A k \in DOMAIN d : d[k].type = "Timestamp" /\ k # i => d[k].ex # d[i].ex
               /\ \A j \in DOMAIN v : v[j].type = "FollowUp" => v[j].ex # d[i].ex
    <3>1. d[i].ex # f.ex
      BY <2>1, <1>2, <1>3, <1>4
    <3> QED  BY <2>1, <3>1, <1>5, <1>6 DEF Stamped
  <2>2. \A j \in DOMAIN v : v[j].type = "FollowUp" => v[j].ex < n
    BY <1>2, <1>3, <1>5, <1>6 DEF Stamped
  <2> QED  BY <2>1, <2>2 DEF Stamped
<1>8. Follows(v)
  <2>1. \A j \in DOMAIN w : w[j] # f
    BY <1>2, <1>3
  <2>2. ASSUME NEW i \in DOMAIN v, v[i].type = "FollowUp"
        PROVE  /\ \E j \in 1..(i - 1) : v[j] = SyncOf(v[i])
               /\ \A j \in 1..(i - 1) : v[j] # v[i]
    <3>1. CASE i = Len(w) + 1
      BY <3>1, <2>1, <1>2, <1>3, <1>5
    <3>2. CASE i \in DOMAIN w
      <4>1. \A j \in 1..(i - 1) : j \in DOMAIN w
        BY <3>2, <1>5
      <4> QED  BY <4>1, <3>2, <2>2, <1>5 DEF Follows
    <3> QED  BY <3>1, <3>2, <1>5
  <2> QED  BY <2>2 DEF Follows
<1> QED  BY <1>2, <1>7, <1>8 DEF h, f, d, v

----------------------------------------------------------------------------
(* The steps *)

LEMMA Initially == Init => IInv
BY DEF Init, IInv, Types, Stamped, Follows, Idle, Cycles

\* A message of another type than the cycles' is taken, and nothing else happens.
LEMMA IgnoreKeeps ==
  ASSUME IInv, channel # <<>>, channel' = Tail(channel), Ignore,
         \/ role # "Master"
         \/ Head(channel).type \notin {"AnnounceSendTimeout", "SyncTimeout"}
  PROVE  IInv'
<1>1. channel \in Seq(SystemMessages) /\ channel' \in Seq(SystemMessages)
  BY TailOf DEF IInv, Types
<1>2. Types'
  BY <1>1 DEF IInv, Types, Ignore
<1>3. Stamped(channel, wire, syncs)' /\ Follows(wire)'
  BY <1>1, TakeKeeps DEF IInv, Ignore
<1>4. (role = "Master" => Continues(announce, sync, channel))'
  BY <1>1, AwaitsTail DEF IInv, Continues, Ignore
<1> QED  BY <1>2, <1>3, <1>4 DEF IInv

\* The port leaves, on a message or a failed send.
LEMMA LeaveKeeps ==
  ASSUME IInv, NEW next \in {"PreMaster", "Faulty", "Other"}, Leave(next), UNCHANGED wire,
         channel' = channel \/ (channel # <<>> /\ channel' = Tail(channel))
  PROVE  IInv'
<1>1. channel \in Seq(SystemMessages) /\ channel' \in Seq(SystemMessages)
  BY TailOf DEF IInv, Types
<1>2. Types'
  BY <1>1 DEF IInv, Types, Leave, Idle, Cycles
<1>3. Stamped(channel, wire, syncs)' /\ Follows(wire)'
  BY <1>1, TakeKeeps DEF IInv, Leave
<1> QED  BY <1>2, <1>3 DEF IInv, Leave

LEMMA EnterKeeps ==
  ASSUME IInv, EnterMaster, UNCHANGED wire,
         channel' = channel \/ (channel # <<>> /\ channel' = Tail(channel))
  PROVE  IInv'
<1>1. channel \in Seq(SystemMessages) /\ channel' \in Seq(SystemMessages)
  BY TailOf DEF IInv, Types
<1>2. Types'
  BY <1>1 DEF IInv, Types, EnterMaster, NewCycle, Cycles
<1>3. Stamped(channel, wire, syncs)' /\ Follows(wire)'
  BY <1>1, TakeKeeps DEF IInv, EnterMaster
<1>4. Continues(announce, sync, channel)'
  BY DEF Continues, EnterMaster, NewCycle
<1> QED  BY <1>2, <1>3, <1>4 DEF IInv

LEMMA SendAnnounceKeeps == ASSUME IInv, SendAnnounce PROVE IInv'
<1>1. channel \in Seq(SystemMessages) /\ Tail(channel) \in Seq(SystemMessages)
  BY TailOf DEF IInv, Types, SendAnnounce, Takes
<1>2. CASE role # "Master"
  BY <1>2, IgnoreKeeps DEF SendAnnounce, Takes
<1>3. CASE FaultDetected
  BY <1>3, LeaveKeeps DEF SendAnnounce, Takes, FaultDetected
<1>4. CASE /\ role = "Master" /\ wire' = Append(wire, AnnounceMsg)
           /\ announce' = NextOf(announce) /\ UNCHANGED <<role, sync, qualify, syncs, session>>
  <2>1. AnnounceMsg \in Messages /\ AnnounceMsg.type # "FollowUp" /\ announce' \in Cycles
    BY <1>4, NextTyped DEF AnnounceMsg, Messages, IInv, Types, Cycles
  <2>2. channel' = Tail(channel) /\ channel # <<>> /\ Head(channel).type = "AnnounceSendTimeout"
    BY DEF SendAnnounce, Takes
  <2>3. Types'
    BY <1>1, <1>4, <2>1, <2>2, AppendOf DEF IInv, Types
  <2>4. Stamped(channel, wire, syncs)' /\ Follows(wire)'
    BY <1>1, <1>4, <2>1, <2>2, TakeKeeps, SendKeeps DEF IInv, Types
  <2>5. Continues(announce, sync, channel)'
    BY <1>1, <1>4, <2>2, AwaitsTail DEF IInv, Continues, NextOf
  <2> QED  BY <2>3, <2>4, <2>5 DEF IInv
<1> QED  BY <1>2, <1>3, <1>4 DEF SendAnnounce

LEMMA SendSyncKeeps == ASSUME IInv, SendSync PROVE IInv'
<1>1. /\ channel # <<>> /\ Head(channel).type = "SyncTimeout"
      /\ channel \in Seq(SystemMessages) /\ Tail(channel) \in Seq(SystemMessages)
  BY TailOf DEF IInv, Types, SendSync, Takes
<1>2. CASE role # "Master"
  BY <1>1, <1>2, IgnoreKeeps DEF SendSync
<1>3. CASE FaultDetected /\ channel' = Tail(channel)
  BY <1>1, <1>3, LeaveKeeps DEF FaultDetected
<1>4. CASE /\ role = "Master" /\ wire' = Append(wire, TwoStepSync)
           /\ channel' = StampEgress(TwoStepSync, Tail(channel))
           /\ sync' = NextOf(sync) /\ syncs' = syncs + 1
           /\ UNCHANGED <<role, announce, qualify, session>>
  <2> DEFINE stamp == [type |-> "Timestamp", seq |-> sync.seq, ex |-> syncs]
  <2>1. /\ sync.seq \in Nat /\ syncs \in Nat /\ sync' \in Cycles
        /\ TwoStepSync = [type |-> "Sync", seq |-> sync.seq, ex |-> syncs]
        /\ TwoStepSync \in Messages /\ TwoStepSync.type # "FollowUp"
    BY <1>4, NextTyped DEF TwoStepSync, Messages, IInv, Types, Cycles
  <2>2. channel' = Append(Tail(channel), stamp) /\ stamp \in SystemMessages
    BY <1>4, <2>1 DEF StampEgress, SystemMessages, Stamps
  <2> HIDE DEF stamp
  <2>3. Types'
    <3>1. channel' \in Seq(SystemMessages)
      BY <1>1, <2>2, AppendOf
    <3>2. wire' \in Seq(Messages)
      BY <1>4, <2>1, AppendOf DEF IInv, Types
    <3> QED  BY <1>4, <2>1, <3>1, <3>2 DEF IInv, Types
  <2>4. Stamped(Tail(channel), wire, syncs)
    BY <1>1, TakeKeeps DEF IInv
  <2>5. Stamped(channel, wire, syncs)'
    BY <1>1, <1>4, <2>1, <2>4, SyncKeeps DEF IInv, Types
  <2>6. Follows(wire)'
    BY <1>4, <2>1, SendKeeps DEF IInv, Types
  <2>7. announce.armed \/ Awaits(channel', "AnnounceSendTimeout")
    <3>1. Awaits(channel, "AnnounceSendTimeout") => Awaits(Tail(channel), "AnnounceSendTimeout")
      BY <1>1, AwaitsTail
    <3> QED  BY <1>1, <1>4, <2>2, <3>1, AwaitsAppend DEF IInv, Continues
  <2>8. Continues(announce, sync, channel)'
    BY <1>4, <2>7 DEF Continues, NextOf
  <2> QED  BY <2>3, <2>5, <2>6, <2>8 DEF IInv
<1> QED  BY <1>2, <1>3, <1>4 DEF SendSync

LEMMA SendFollowUpKeeps == ASSUME IInv, SendFollowUp PROVE IInv'
<1>1. /\ channel # <<>> /\ Head(channel).type = "Timestamp" /\ channel' = Tail(channel)
      /\ channel \in Seq(SystemMessages) /\ Tail(channel) \in Seq(SystemMessages)
  BY TailOf DEF IInv, Types, SendFollowUp, Takes
<1>2. CASE role # "Master"
  BY <1>1, <1>2, IgnoreKeeps DEF SendFollowUp
<1>3. CASE FaultDetected
  BY <1>1, <1>3, LeaveKeeps DEF FaultDetected
<1>4. CASE /\ role = "Master" /\ wire' = Append(wire, FollowUp(Head(channel)))
           /\ UNCHANGED <<role, announce, sync, qualify, syncs, session>>
  <2>1. /\ Stamped(channel, wire, syncs)' /\ Follows(wire)' /\ FollowUp(Head(channel)) \in Messages
    BY <1>1, <1>4, FollowUpKeeps DEF IInv, Types
  <2>2. Types'
    BY <1>1, <1>4, <2>1, AppendOf DEF IInv, Types
  <2>3. Continues(announce, sync, channel)'
    BY <1>1, <1>4, AwaitsTail DEF IInv, Continues
  <2> QED  BY <2>1, <2>2, <2>3 DEF IInv
<1> QED  BY <1>2, <1>3, <1>4 DEF SendFollowUp

LEMMA ProcessDelayRequestKeeps ==
  ASSUME IInv, NEW q, q.seq \in Nat, q.ex \in Nat, ProcessDelayRequest(q)
  PROVE  IInv'
<1>1. CASE FaultDetected
  BY <1>1, LeaveKeeps DEF ProcessDelayRequest, FaultDetected
<1>2. CASE /\ wire' = Append(wire, Response(q))
           /\ UNCHANGED <<role, announce, sync, qualify, syncs, session>>
  <2>1. Response(q) \in Messages /\ Response(q).type # "FollowUp"
    BY DEF Response, Messages
  <2>2. channel' = channel
    BY DEF ProcessDelayRequest
  <2>3. Types'
    BY <1>2, <2>1, <2>2, AppendOf DEF IInv, Types
  <2>4. Stamped(channel, wire, syncs)' /\ Follows(wire)'
    BY <1>2, <2>1, <2>2, SendKeeps DEF IInv, Types
  <2> QED  BY <1>2, <2>2, <2>3, <2>4 DEF IInv
<1> QED  BY <1>1, <1>2 DEF ProcessDelayRequest

\* The host puts a decision or a timeout into the channel; a cycle is only
\* disarmed with its timeout.
LEMMA HostKeeps ==
  ASSUME IInv, NEW e \in Timers \cup Decisions, channel' = Append(channel, e),
         UNCHANGED <<role, wire, syncs>>, announce' \in Cycles, sync' \in Cycles,
         announce' = announce \/ e.type = "AnnounceSendTimeout",
         sync' = sync \/ e.type = "SyncTimeout"
  PROVE  IInv'
<1>1. channel \in Seq(SystemMessages) /\ e \in SystemMessages /\ e.type # "Timestamp"
  BY DEF IInv, Types, SystemMessages, Timers, Decisions
<1>2. Types'
  BY <1>1, AppendOf DEF IInv, Types
<1>3. Stamped(channel, wire, syncs)' /\ Follows(wire)'
  BY <1>1, PutKeeps DEF IInv
<1>4. (role = "Master" => Continues(announce, sync, channel))'
  BY <1>1, AwaitsAppend DEF IInv, Continues
<1> QED  BY <1>2, <1>3, <1>4 DEF IInv

\* The steps of the master, with the DelayReqs of a set.
StepsWith(requests) ==
  \/ Handle
  \/ Expire
  \/ ReceiptTimeout
  \/ \E next \in {"PreMaster", "Other"} : Decide(next)
  \/ \E q \in requests : ProcessDelayRequest(q)

LEMMA StepsKeep ==
  ASSUME IInv, NEW requests, \A q \in requests : q.seq \in Nat /\ q.ex \in Nat,
         StepsWith(requests) \/ UNCHANGED vars
  PROVE  IInv'
<1>1. CASE UNCHANGED vars
  BY <1>1 DEF vars, IInv, Types
<1>2. CASE SendAnnounce
  BY <1>2, SendAnnounceKeeps
<1>3. CASE SendSync
  BY <1>3, SendSyncKeeps
<1>4. CASE SendFollowUp
  BY <1>4, SendFollowUpKeeps
<1>5. CASE Qualified
  BY <1>5, IgnoreKeeps, EnterKeeps DEF Qualified, Takes
<1>6. CASE ApplyDecision
  <2>1. channel # <<>> /\ Head(channel).type = "Recommend" /\ channel' = Tail(channel)
    BY <1>6 DEF ApplyDecision, Takes
  <2>2. Head(channel) \in SystemMessages
    BY <2>1, TailOf DEF IInv, Types
  <2>3. Head(channel).next \in {"PreMaster", "Other"}
    BY <2>1, <2>2 DEF SystemMessages, Stamps, Timers, Decisions
  <2> QED  BY <1>6, <2>1, <2>3, IgnoreKeeps, LeaveKeeps DEF ApplyDecision
<1>7. CASE ExpireAnnounce
  <2>1. announce' \in Cycles /\ [type |-> "AnnounceSendTimeout"] \in Timers
    BY <1>7 DEF ExpireAnnounce, IInv, Types, Cycles, Timers
  <2> QED  BY <1>7, <2>1, HostKeeps DEF ExpireAnnounce, IInv, Types
<1>8. CASE ExpireSync
  <2>1. sync' \in Cycles /\ [type |-> "SyncTimeout"] \in Timers
    BY <1>8 DEF ExpireSync, IInv, Types, Cycles, Timers
  <2> QED  BY <1>8, <2>1, HostKeeps DEF ExpireSync, IInv, Types
<1>9. CASE ExpireQualification
  <2>1. [type |-> "QualificationTimeout"] \in Timers
    BY DEF Timers
  <2> QED  BY <1>9, <2>1, HostKeeps DEF ExpireQualification, IInv, Types
<1>10. CASE ReceiptTimeout
  BY <1>10, EnterKeeps DEF ReceiptTimeout
<1>11. ASSUME NEW next \in {"PreMaster", "Other"}, Decide(next)
       PROVE  IInv'
  <2>1. [type |-> "Recommend", next |-> next] \in Decisions
    BY DEF Decisions
  <2> QED  BY <1>11, <2>1, HostKeeps DEF Decide, Ignore, IInv, Types
<1>12. ASSUME NEW q \in requests, ProcessDelayRequest(q)
       PROVE  IInv'
  BY <1>12, ProcessDelayRequestKeeps
<1> QED
  BY <1>1, <1>2, <1>3, <1>4, <1>5, <1>6, <1>7, <1>8, <1>9, <1>10, <1>11, <1>12
     DEF StepsWith, Handle, Expire

LEMMA Preserved ==
  ASSUME IInv, [Next]_vars
  PROVE  IInv'
<1>1. \A q \in Requests : q.seq \in Nat /\ q.ex \in Nat
  BY MasterPortAssumption
<1>2. StepsWith(Requests) \/ UNCHANGED vars
  BY DEF Next, StepsWith
<1> QED  BY <1>1, <1>2, StepsKeep

----------------------------------------------------------------------------
(* The path: the sequence ids count *)

Telegrams ==
  [type : {"Announce", "TwoStepSync", "FollowUp", "DelayResp"}, from : {Master},
   seq : Nat, ex : Nat]
  \cup [type : {"DelayReq"}, seq : Nat, ex : Nat]

SlaveMessages ==
  [type : {"Timestamp"}, seq : Nat, ex : Nat, base : Nat] \cup [type : {"DelayRequestTimeout"}]

Mechanisms ==
  [seq : Nat, one_step : {None},
   two_step : {None} \cup [seq : Nat, ex : Nat, from : {Master}, base : Nat],
   follow_up : {None} \cup [seq : Nat, ex : Nat, from : {Master}],
   request : {None} \cup [seq : Nat, ex : Nat, base : Nat],
   response : {None} \cup [seq : Nat, ex : Nat, from : {Master}],
   ingress : {None} \cup [ex : Nat, base : Nat]]

PathTypes ==
  /\ session \in Nat /\ session <= syncs
  /\ net \in SUBSET Telegrams
  /\ sChannel \in Seq(SlaveMessages)
  /\ sMech \in Mechanisms
  /\ sBase \in Nat /\ sReqs \in Nat

\* The messages of these types in sequence s have the number of their exchange as id.
Counts(s, types) == \A i \in DOMAIN s : s[i].type \in types => s[i].seq = s[i].ex
CountsIn(set, types) == \A m \in set : m.type \in types => m.seq = m.ex
CountsIf(m) == m # None => m.seq = m.ex

\* In the first term of the master, while no id was used twice
FewSyncs == session = 0 /\ syncs <= SeqIds

SyncsCount ==
  /\ role = "Master" /\ syncs < SeqIds => sync.seq = syncs
  /\ Counts(wire, {"Sync", "FollowUp"})
  /\ Counts(channel, {"Timestamp"})

SyncsCountAtSlave ==
  /\ CountsIn(net, {"TwoStepSync", "FollowUp"})
  /\ CountsIf(sMech.two_step) /\ CountsIf(sMech.follow_up)
  /\ S!SameSyncExchange

\* In the one session of the slave, while no id was used twice
FewRequests == sReqs <= SeqIds

DelaysCount ==
  /\ sReqs < SeqIds => sMech.seq = sReqs
  /\ Counts(wire, {"DelayResp"})
  /\ Counts(sChannel, {"Timestamp"})
  /\ CountsIn(net, {"DelayReq", "DelayResp"})
  /\ CountsIf(sMech.request) /\ CountsIf(sMech.response)
  /\ S!SameDelayExchange

PathInv ==
  /\ IInv
  /\ PathTypes
  /\ FewSyncs => SyncsCount /\ SyncsCountAtSlave
  /\ FewRequests => DelaysCount

LEMMA CountsTail ==
  ASSUME NEW E, NEW c \in Seq(E), c # <<>>, NEW types, Counts(c, types)
  PROVE  Counts(Tail(c), types)
BY TailOf DEF Counts

LEMMA CountsAppend ==
  ASSUME NEW E, NEW c \in Seq(E), NEW e \in E, NEW types, Counts(c, types),
         e.type \in types => e.seq = e.ex
  PROVE  Counts(Append(c, e), types)
BY AppendOf DEF Counts

\* What a step of the master keeps of the counts.
MasterKeepsCounts ==
  /\ session' \in Nat /\ session' <= syncs'
  /\ FewSyncs' => FewSyncs /\ SyncsCount'
  /\ FewRequests => Counts(wire, {"DelayResp"})'

\* Steps that send nothing and take a message from the channel, or none
LEMMA QuietCounts ==
  ASSUME PathInv, wire' = wire, syncs' = syncs,
         channel' = channel \/ (channel # <<>> /\ channel' = Tail(channel)),
         \/ session' = session /\ (role' = "Master" => role = "Master" /\ sync'.seq = sync.seq)
         \/ session' = syncs /\ sync'.seq = 0
  PROVE  MasterKeepsCounts
<1>1. session' \in Nat /\ session' <= syncs' /\ (FewSyncs' => FewSyncs)
  BY DEF PathInv, PathTypes, IInv, Types, FewSyncs
<1>2. ASSUME FewSyncs'
      PROVE  SyncsCount'
  <2>1. SyncsCount
    BY <1>1, <1>2 DEF PathInv
  <2>2. Counts(channel, {"Timestamp"})'
    BY <2>1, CountsTail DEF SyncsCount, PathInv, IInv, Types
  <2>3. (role = "Master" /\ syncs < SeqIds => sync.seq = syncs)'
    BY <1>2, <2>1 DEF SyncsCount, FewSyncs
  <2> QED  BY <2>1, <2>2, <2>3 DEF SyncsCount
<1>3. FewRequests => Counts(wire, {"DelayResp"})'
  BY DEF PathInv, DelaysCount
<1> QED  BY <1>1, <1>2, <1>3 DEF MasterKeepsCounts

\* The host puts a timeout or a decision into the channel.
LEMMA HostCounts ==
  ASSUME PathInv, NEW e \in Timers \cup Decisions, channel' = Append(channel, e),
         UNCHANGED <<role, wire, syncs, session>>, sync'.seq = sync.seq
  PROVE  MasterKeepsCounts
<1>1. e \in SystemMessages /\ e.type # "Timestamp"
  BY DEF SystemMessages, Timers, Decisions
<1>2. SyncsCount => SyncsCount'
  BY <1>1, CountsAppend DEF SyncsCount, PathInv, IInv, Types
<1> QED  BY <1>2 DEF MasterKeepsCounts, PathInv, PathTypes, FewSyncs, DelaysCount

\* The master sends a message other than a Sync and takes a message, or none.
LEMMA SendCounts ==
  ASSUME PathInv, NEW m \in Messages, wire' = Append(wire, m),
         m.type = "Announce" \/ (m.type = "DelayResp" /\ (FewRequests => m.seq = m.ex))
           \/ (m.type = "FollowUp" /\ (SyncsCount => m.seq = m.ex)),
         UNCHANGED <<role, syncs, session>>, sync'.seq = sync.seq,
         channel' = channel \/ (channel # <<>> /\ channel' = Tail(channel))
  PROVE  MasterKeepsCounts
<1>1. wire \in Seq(Messages) /\ channel \in Seq(SystemMessages)
  BY DEF PathInv, IInv, Types
<1>2. FewRequests => Counts(wire, {"DelayResp"})'
  BY <1>1, CountsAppend DEF PathInv, DelaysCount
<1>3. ASSUME SyncsCount
      PROVE  SyncsCount'
  <2>1. Counts(wire, {"Sync", "FollowUp"})'
    BY <1>1, <1>3, CountsAppend DEF SyncsCount
  <2>2. Counts(channel, {"Timestamp"})'
    BY <1>1, <1>3, CountsTail DEF SyncsCount
  <2> QED  BY <1>3, <2>1, <2>2 DEF SyncsCount
<1> QED  BY <1>2, <1>3 DEF MasterKeepsCounts, PathInv, PathTypes, FewSyncs

LEMMA SendSyncCounts ==
  ASSUME PathInv, SendSync
  PROVE  MasterKeepsCounts
<1>1. CASE wire' = wire
  BY <1>1, QuietCounts DEF SendSync, Takes, Ignore, FaultDetected, Leave
<1>2. CASE /\ role = "Master" /\ role' = role /\ session' = session
           /\ wire' = Append(wire, TwoStepSync)
           /\ channel' = StampEgress(TwoStepSync, Tail(channel))
           /\ sync' = NextOf(sync) /\ syncs' = syncs + 1
  <2>1. /\ wire \in Seq(Messages) /\ channel \in Seq(SystemMessages) /\ channel # <<>>
        /\ syncs \in Nat /\ sync.seq \in Nat /\ sync \in Cycles /\ SeqIds \in Nat
    BY MasterPortAssumption DEF SendSync, Takes, PathInv, IInv, Types, Cycles
  <2>2. TwoStepSync \in Messages /\ TwoStepSync.type = "Sync"
    BY <2>1 DEF TwoStepSync, Messages
  <2>3. FewRequests => Counts(wire, {"DelayResp"})'
    BY <1>2, <2>1, <2>2, CountsAppend DEF PathInv, DelaysCount
  <2>4. ASSUME FewSyncs, syncs < SeqIds
        PROVE  SyncsCount'
    <3>1. SyncsCount /\ sync.seq = syncs
      BY <1>2, <2>4 DEF PathInv, SyncsCount
    <3>2. Counts(wire, {"Sync", "FollowUp"})'
      BY <1>2, <2>1, <2>2, <3>1, CountsAppend DEF SyncsCount, TwoStepSync
    <3> DEFINE e == [TwoStepSync EXCEPT !.type = "Timestamp"]
    <3>3. e \in SystemMessages /\ e.seq = e.ex
      BY <2>1, <3>1 DEF TwoStepSync, SystemMessages, Stamps
    <3>4. Tail(channel) \in Seq(SystemMessages) /\ Counts(Tail(channel), {"Timestamp"})
      BY <2>1, <3>1, TailOf, CountsTail DEF SyncsCount
    <3>5. channel' = Append(Tail(channel), e)
      BY <1>2 DEF StampEgress
    <3> HIDE DEF e
    <3>6. Counts(channel, {"Timestamp"})'
      BY <3>3, <3>4, <3>5, CountsAppend
    <3>7. (role = "Master" /\ syncs < SeqIds => sync.seq = syncs)'
      BY <1>2, <2>1, <3>1, NextTyped
    <3> QED  BY <3>2, <3>6, <3>7 DEF SyncsCount
  <2>5. FewSyncs' => FewSyncs /\ syncs < SeqIds
    BY <1>2, <2>1 DEF FewSyncs
  <2> QED  BY <1>2, <2>1, <2>3, <2>4, <2>5 DEF MasterKeepsCounts, PathInv, PathTypes
<1> QED  BY <1>1, <1>2 DEF SendSync, Ignore, FaultDetected

LEMMA SendFollowUpCounts ==
  ASSUME PathInv, SendFollowUp
  PROVE  MasterKeepsCounts
<1>1. CASE wire' = wire
  BY <1>1, QuietCounts DEF SendFollowUp, Takes, Ignore, FaultDetected, Leave
<1>2. CASE /\ wire' = Append(wire, FollowUp(Head(channel)))
           /\ UNCHANGED <<role, sync, syncs, session>>
  <2> DEFINE m == FollowUp(Head(channel))
  <2>1. /\ channel \in Seq(SystemMessages) /\ channel # <<>>
        /\ Head(channel).type = "Timestamp" /\ channel' = Tail(channel)
    BY DEF SendFollowUp, Takes, PathInv, IInv, Types
  <2>2. Head(channel) \in Stamps
    BY <2>1, TailOf DEF SystemMessages, Timers, Decisions
  <2>3. m \in Messages /\ m.type = "FollowUp"
    BY <2>2 DEF FollowUp, Stamps, Messages
  <2>4. SyncsCount => m.seq = m.ex
    BY <2>1, TailOf DEF SyncsCount, Counts, FollowUp
  <2>5. wire' = Append(wire, m)
    BY <1>2
  <2> HIDE DEF m
  <2> QED  BY <1>2, <2>1, <2>3, <2>4, <2>5, SendCounts
<1> QED  BY <1>1, <1>2 DEF SendFollowUp, Ignore, FaultDetected

LEMMA SendAnnounceCounts ==
  ASSUME PathInv, SendAnnounce
  PROVE  MasterKeepsCounts
<1>1. CASE wire' = wire
  BY <1>1, QuietCounts DEF SendAnnounce, Takes, Ignore, FaultDetected, Leave
<1>2. CASE wire' = Append(wire, AnnounceMsg) /\ UNCHANGED <<role, sync, syncs, session>>
  <2>1. AnnounceMsg \in Messages /\ AnnounceMsg.type = "Announce"
    BY DEF AnnounceMsg, Messages, PathInv, IInv, Types, Cycles
  <2> QED  BY <1>2, <2>1, SendCounts DEF SendAnnounce, Takes
<1> QED  BY <1>1, <1>2 DEF SendAnnounce, Ignore, FaultDetected

LEMMA AnswerCounts ==
  ASSUME PathInv, NEW q, q.seq \in Nat, q.ex \in Nat, FewRequests => q.seq = q.ex,
         ProcessDelayRequest(q)
  PROVE  MasterKeepsCounts
<1>1. CASE wire' = wire
  BY <1>1, QuietCounts DEF ProcessDelayRequest, FaultDetected, Leave
<1>2. CASE wire' = Append(wire, Response(q)) /\ UNCHANGED <<role, sync, syncs, session>>
  <2>1. /\ Response(q) \in Messages /\ Response(q).type = "DelayResp"
        /\ FewRequests => Response(q).seq = Response(q).ex
    BY DEF Response, Messages
  <2> QED  BY <1>2, <2>1, SendCounts DEF ProcessDelayRequest
<1> QED  BY <1>1, <1>2 DEF ProcessDelayRequest, FaultDetected

LEMMA MasterCounts ==
  ASSUME PathInv, NEW requests,
         \A q \in requests : q.seq \in Nat /\ q.ex \in Nat /\ (FewRequests => q.seq = q.ex),
         StepsWith(requests)
  PROVE  MasterKeepsCounts
<1>1. CASE SendAnnounce
  BY <1>1, SendAnnounceCounts
<1>2. CASE SendSync
  BY <1>2, SendSyncCounts
<1>3. CASE SendFollowUp
  BY <1>3, SendFollowUpCounts
<1>4. CASE Qualified
  BY <1>4, QuietCounts DEF Qualified, Takes, EnterMaster, NewCycle, Ignore
<1>5. CASE ApplyDecision
  <2>1. channel # <<>> /\ Head(channel).type = "Recommend" /\ channel' = Tail(channel)
    BY <1>5 DEF ApplyDecision, Takes
  <2>2. Head(channel).next # "Master"
    BY <2>1, TailOf DEF PathInv, IInv, Types, SystemMessages, Stamps, Timers, Decisions
  <2> QED  BY <1>5, <2>1, <2>2, QuietCounts DEF ApplyDecision, Leave, Ignore
<1>6. CASE ReceiptTimeout
  BY <1>6, QuietCounts DEF ReceiptTimeout, EnterMaster, NewCycle
<1>7. CASE ExpireAnnounce
  <2>1. [type |-> "AnnounceSendTimeout"] \in Timers
    BY DEF Timers
  <2> QED  BY <1>7, <2>1, HostCounts DEF ExpireAnnounce
<1>8. CASE ExpireSync
  <2>1. [type |-> "SyncTimeout"] \in Timers /\ sync'.seq = sync.seq
    BY <1>8 DEF ExpireSync, Timers, PathInv, IInv, Types, Cycles
  <2> QED  BY <1>8, <2>1, HostCounts DEF ExpireSync
<1>9. CASE ExpireQualification
  <2>1. [type |-> "QualificationTimeout"] \in Timers
    BY DEF Timers
  <2> QED  BY <1>9, <2>1, HostCounts DEF ExpireQualification
<1>10. ASSUME NEW next \in {"PreMaster", "Other"}, Decide(next)
       PROVE  MasterKeepsCounts
  <2>1. [type |-> "Recommend", next |-> next] \in Decisions
    BY DEF Decisions
  <2> QED  BY <1>10, <2>1, HostCounts DEF Decide, Ignore
<1>11. ASSUME NEW q \in requests, ProcessDelayRequest(q)
       PROVE  MasterKeepsCounts
  BY <1>11, AnswerCounts
<1> QED
  BY <1>1, <1>2, <1>3, <1>4, <1>5, <1>6, <1>7, <1>8, <1>9, <1>10, <1>11
     DEF StepsWith, Handle, Expire

LEMMA DatagramsTyped ==
  ASSUME wire' \in Seq(Messages)
  PROVE  /\ Datagrams(wire') \subseteq Telegrams
         /\ \A m \in Datagrams(wire') : \E i \in DOMAIN wire' :
              /\ m.seq = wire'[i].seq /\ m.ex = wire'[i].ex
              /\ m.type = IF wire'[i].type = "Sync" THEN "TwoStepSync" ELSE wire'[i].type
              /\ wire'[i] \in Messages
<1>1. ASSUME NEW m \in Datagrams(wire')
      PROVE  /\ m \in Telegrams
             /\ \E i \in DOMAIN wire' :
                  /\ m.seq = wire'[i].seq /\ m.ex = wire'[i].ex
                  /\ m.type = IF wire'[i].type = "Sync" THEN "TwoStepSync" ELSE wire'[i].type
                  /\ wire'[i] \in Messages
  <2>1. PICK i \in DOMAIN wire' :
          m = [type |-> IF wire'[i].type = "Sync" THEN "TwoStepSync" ELSE wire'[i].type,
               from |-> Master, seq |-> wire'[i].seq, ex |-> wire'[i].ex]
    BY DEF Datagrams
  <2>2. wire'[i] \in Messages
    OBVIOUS
  <2>3. m \in Telegrams
    BY <2>1, <2>2 DEF Messages, Telegrams
  <2> QED  BY <2>1, <2>2, <2>3
<1> QED  BY <1>1

\* The master's port takes a step, and what it sent is on the network.
LEMMA MasterStepKeeps ==
  ASSUME PathInv, MasterStep
  PROVE  PathInv'
<1> DEFINE requests == {q \in net : q.type = "DelayReq"}
<1>1. \A q \in requests : q.seq \in Nat /\ q.ex \in Nat /\ (FewRequests => q.seq = q.ex)
  BY DEF PathInv, PathTypes, Telegrams, DelaysCount, CountsIn
<1>2. StepsWith(requests) /\ net' = net \cup Datagrams(wire') /\ UNCHANGED sVars
  BY DEF MasterStep, StepsWith
<1> HIDE DEF requests
<1>3. IInv'
  BY <1>1, <1>2, StepsKeep DEF PathInv
<1>4. MasterKeepsCounts
  BY <1>1, <1>2, MasterCounts
<1>5. wire' \in Seq(Messages)
  BY <1>3 DEF IInv, Types
<1>6. PathTypes'
  BY <1>2, <1>4, <1>5, DatagramsTyped DEF PathInv, PathTypes, MasterKeepsCounts, sVars
<1>7. ASSUME FewRequests
      PROVE  CountsIn(net, {"DelayReq", "DelayResp"})'
  <2>1. ASSUME NEW m \in Datagrams(wire'), m.type \in {"DelayReq", "DelayResp"}
        PROVE  m.seq = m.ex
    BY <1>4, <1>5, <1>7, <2>1, DatagramsTyped DEF MasterKeepsCounts, Counts, Messages
  <2> QED  BY <1>2, <1>7, <2>1 DEF PathInv, DelaysCount, CountsIn
<1>8. FewRequests' => DelaysCount'
  BY <1>2, <1>4, <1>7
     DEF PathInv, DelaysCount, FewRequests, MasterKeepsCounts, sVars, S!SameDelayExchange
<1>9. ASSUME FewSyncs'
      PROVE  SyncsCount' /\ SyncsCountAtSlave'
  <2>1. SyncsCount' /\ SyncsCountAtSlave
    BY <1>4, <1>9 DEF MasterKeepsCounts, PathInv
  <2>2. ASSUME NEW m \in Datagrams(wire'), m.type \in {"TwoStepSync", "FollowUp"}
        PROVE  m.seq = m.ex
    BY <1>5, <2>1, <2>2, DatagramsTyped DEF SyncsCount, Counts, Messages
  <2>3. CountsIn(net, {"TwoStepSync", "FollowUp"})'
    BY <1>2, <2>1, <2>2 DEF SyncsCountAtSlave, CountsIn
  <2> QED  BY <1>2, <2>1, <2>3 DEF SyncsCountAtSlave, sVars, S!SameSyncExchange
<1> QED  BY <1>3, <1>4, <1>6, <1>8, <1>9 DEF PathInv, MasterKeepsCounts

\* A sample of a mechanism whose windows hold counting messages is of one exchange.
LEMMA SamplePairs ==
  ASSUME NEW k \in Mechanisms, S!Sample(k) # None
  PROVE  /\ CountsIf(k.two_step) /\ CountsIf(k.follow_up) =>
              S!Sample(k).origin.ex = S!Sample(k).sync.ex
         /\ CountsIf(k.request) /\ CountsIf(k.response) =>
              S!Sample(k).receipt.ex = S!Sample(k).request.ex
<1> DEFINE ms == S!MasterSlaveOffset(k)
           sm == S!SlaveMasterOffset(k)
<1>1. /\ ms # None /\ sm # None
      /\ S!Sample(k) = [time |-> k.ingress, sync |-> ms.sync, origin |-> ms.origin,
                        request |-> sm.request, receipt |-> sm.receipt, parent |-> sParent]
  BY DEF S!Sample
<1>2. k.one_step = None
  BY DEF Mechanisms
<1>3. /\ k.follow_up # None /\ k.two_step # None /\ k.follow_up.seq = k.two_step.seq
      /\ ms = [sync |-> k.two_step, origin |-> k.follow_up]
  BY <1>1, <1>2 DEF S!MasterSlaveOffset, S!CombineLatest, S!FollowUpOffset
<1>4. /\ k.response # None /\ k.request # None /\ k.response.seq = k.request.seq
      /\ sm = [request |-> k.request, receipt |-> k.response]
  BY <1>1 DEF S!SlaveMasterOffset, S!CombineLatest, S!ResponseOffset
<1> HIDE DEF ms, sm
<1> QED  BY <1>1, <1>3, <1>4 DEF CountsIf

\* A message of the master, or an egress timestamp, enters its window, and a sample
\* may follow.
LEMMA RecordKeeps ==
  ASSUME PathInv, UNCHANGED <<vars, net, sReqs>>,
         sChannel' = sChannel \/ (sChannel # <<>> /\ sChannel' = Tail(sChannel)),
         NEW k \in Mechanisms, sMech' = k, k.seq = sMech.seq, sBase' \in Nat,
         SyncsCountAtSlave => CountsIf(k.two_step) /\ CountsIf(k.follow_up),
         FewRequests => CountsIf(k.request) /\ CountsIf(k.response),
         sSample' = sSample \/ (S!Sample(k) # None /\ sSample' = S!Sample(k))
  PROVE  PathInv'
<1>1. IInv'
  BY DEF PathInv, vars, IInv, Types
<1>2. /\ sChannel' \in Seq(SlaveMessages)
      /\ FewRequests => Counts(sChannel, {"Timestamp"})'
  <2>1. sChannel \in Seq(SlaveMessages) /\ (FewRequests => Counts(sChannel, {"Timestamp"}))
    BY DEF PathInv, PathTypes, DelaysCount
  <2>2. sChannel # <<>> => /\ Tail(sChannel) \in Seq(SlaveMessages)
                           /\ FewRequests => Counts(Tail(sChannel), {"Timestamp"})
    BY <2>1, TailOf, CountsTail
  <2> QED  BY <2>1, <2>2
<1>3. PathTypes'
  BY <1>2 DEF PathInv, PathTypes, vars
<1>4. FewRequests' => DelaysCount'
  BY <1>2, SamplePairs DEF PathInv, DelaysCount, FewRequests, vars, S!SameDelayExchange
<1>5. SyncsCount => SyncsCount'
  BY DEF SyncsCount, vars
<1>6. SyncsCountAtSlave => SyncsCountAtSlave'
  BY SamplePairs DEF SyncsCountAtSlave, S!SameSyncExchange
<1> QED  BY <1>1, <1>3, <1>4, <1>5, <1>6 DEF PathInv, FewSyncs, vars

LEMMA ReceivesKeeps ==
  ASSUME PathInv, S!Receives, UNCHANGED vars
  PROVE  PathInv'
<1>1. PICK m \in net :
        \/ S!ProcessOneStepSync(m)
        \/ S!ProcessTwoStepSync(m)
        \/ S!ProcessFollowUp(m)
        \/ S!ProcessDelayResponse(m)
  BY DEF S!Receives
<1>2. m \in Telegrams /\ sMech \in Mechanisms /\ sBase \in Nat
  BY DEF PathInv, PathTypes
<1>3. FewRequests => CountsIf(sMech.request) /\ CountsIf(sMech.response)
  BY DEF PathInv, DelaysCount
<1>4. ~S!ProcessOneStepSync(m)
  BY <1>2 DEF S!ProcessOneStepSync, S!Arrives, Telegrams
<1>5. CASE S!ProcessTwoStepSync(m)
  <2> DEFINE k == S!RecordTwoStepSync(m)
  <2>1. m.type = "TwoStepSync" /\ sMech' = k /\ UNCHANGED <<sChannel, net, sSample, sBase, sReqs>>
    BY <1>5 DEF S!ProcessTwoStepSync, S!Arrives, S!Record
  <2>2. m.seq \in Nat /\ m.ex \in Nat /\ m.from = Master
    BY <1>2, <2>1 DEF Telegrams
  <2>3. /\ k \in Mechanisms /\ k.seq = sMech.seq
        /\ k.two_step.seq = m.seq /\ k.two_step.ex = m.ex /\ k.follow_up = sMech.follow_up
        /\ k.request = sMech.request /\ k.response = sMech.response
    BY <1>2, <2>2 DEF S!RecordTwoStepSync, Mechanisms
  <2>4. SyncsCountAtSlave => CountsIf(k.two_step) /\ CountsIf(k.follow_up)
    BY <2>1, <2>3 DEF SyncsCountAtSlave, CountsIn, CountsIf
  <2> HIDE DEF k
  <2> QED  BY <1>2, <1>3, <2>1, <2>3, <2>4, RecordKeeps
<1>6. CASE S!ProcessFollowUp(m)
  <2> DEFINE k == S!RecordFollowUp(m)
  <2>1. /\ m.type = "FollowUp" /\ sMech' = k /\ UNCHANGED <<sChannel, net, sReqs>>
        /\ sSample' = sSample \/ (S!Sample(k) # None /\ sSample' = S!Sample(k))
    BY <1>6 DEF S!ProcessFollowUp, S!Arrives, S!Feed
  <2>2. sBase' \in Nat
    BY <1>2, <1>6 DEF S!ProcessFollowUp, S!Feed
  <2>3. m.seq \in Nat /\ m.ex \in Nat /\ m.from = Master
    BY <1>2, <2>1 DEF Telegrams
  <2>4. /\ k \in Mechanisms /\ k.seq = sMech.seq
        /\ k.follow_up.seq = m.seq /\ k.follow_up.ex = m.ex /\ k.two_step = sMech.two_step
        /\ k.request = sMech.request /\ k.response = sMech.response
    BY <1>2, <2>3 DEF S!RecordFollowUp, Mechanisms
  <2>5. SyncsCountAtSlave => CountsIf(k.two_step) /\ CountsIf(k.follow_up)
    BY <2>1, <2>4 DEF SyncsCountAtSlave, CountsIn, CountsIf
  <2> HIDE DEF k
  <2> QED  BY <1>2, <1>3, <2>1, <2>2, <2>4, <2>5, RecordKeeps
<1>7. CASE S!ProcessDelayResponse(m)
  <2> DEFINE k == S!RecordDelayResponse(m)
  <2>1. m.type = "DelayResp" /\ sMech' = k /\ UNCHANGED <<sChannel, net, sSample, sBase, sReqs>>
    BY <1>7 DEF S!ProcessDelayResponse, S!Arrives, S!Record
  <2>2. m.seq \in Nat /\ m.ex \in Nat /\ m.from = Master /\ (FewRequests => m.seq = m.ex)
    BY <1>2, <2>1 DEF Telegrams, PathInv, DelaysCount, CountsIn
  <2>3. /\ k \in Mechanisms /\ k.seq = sMech.seq
        /\ k.response.seq = m.seq /\ k.response.ex = m.ex /\ k.request = sMech.request
        /\ k.two_step = sMech.two_step /\ k.follow_up = sMech.follow_up
    BY <1>2, <2>2 DEF S!RecordDelayResponse, Mechanisms
  <2>4. FewRequests => CountsIf(k.request) /\ CountsIf(k.response)
    BY <1>3, <2>2, <2>3 DEF CountsIf
  <2>5. SyncsCountAtSlave => CountsIf(k.two_step) /\ CountsIf(k.follow_up)
    BY <2>3 DEF SyncsCountAtSlave
  <2> HIDE DEF k
  <2> QED  BY <1>2, <2>1, <2>3, <2>4, <2>5, RecordKeeps
<1> QED  BY <1>1, <1>4, <1>5, <1>6, <1>7

\* A DelayReq leaves with the next id and is stamped.
LEMMA SendDelayRequestKeeps ==
  ASSUME PathInv, S!SendDelayRequest, UNCHANGED vars
  PROVE  PathInv'
<1> DEFINE q == S!DelayRequest
           e == [type |-> "Timestamp", seq |-> q.seq, ex |-> q.ex, base |-> sBase]
<1>1. /\ sMech \in Mechanisms /\ sMech.seq \in Nat /\ sBase \in Nat /\ sReqs \in Nat
      /\ sChannel \in Seq(SlaveMessages) /\ sChannel # <<>> /\ SeqIds \in Nat \ {0}
  BY MasterPortAssumption
     DEF PathInv, PathTypes, DelaysCount, Mechanisms, S!SendDelayRequest, S!Takes
<1>2. /\ sMech' = S!NextDelayRequest /\ net' = net \cup {q} /\ sReqs' = sReqs + 1
      /\ sChannel' = Append(Tail(sChannel), e) /\ UNCHANGED <<sSample, sBase>>
  BY DEF S!SendDelayRequest, S!StampEgress
<1>3. /\ q \in Telegrams /\ q.type = "DelayReq"
      /\ q.seq = sMech.seq /\ q.ex = sReqs /\ q.seq \in Nat /\ q.ex \in Nat
  BY <1>1 DEF S!DelayRequest, Telegrams
<1>4. e \in SlaveMessages /\ e.seq = q.seq /\ e.ex = q.ex
  BY <1>1, <1>3 DEF SlaveMessages
<1> HIDE DEF q, e
<1>5. /\ sMech' \in Mechanisms /\ (sMech.seq + 1 < SeqIds => sMech'.seq = sMech.seq + 1)
      /\ sMech'.two_step = sMech.two_step /\ sMech'.follow_up = sMech.follow_up
      /\ sMech'.request = sMech.request /\ sMech'.response = sMech.response
  <2>1. ASSUME NEW n \in Nat
        PROVE  n % SeqIds \in Nat /\ (n < SeqIds => n % SeqIds = n)
    BY <1>1
  <2>2. /\ (sMech.seq + 1) % SeqIds \in Nat
        /\ sMech.seq + 1 < SeqIds => (sMech.seq + 1) % SeqIds = sMech.seq + 1
    BY <1>1, <2>1
  <2> QED  BY <1>1, <1>2, <2>2 DEF S!NextDelayRequest, Mechanisms
<1>6. FewRequests' => FewRequests /\ sReqs < SeqIds /\ sMech.seq = sReqs
  BY <1>1, <1>2 DEF FewRequests, PathInv, DelaysCount
<1>7. /\ sChannel' \in Seq(SlaveMessages)
      /\ FewRequests' => Counts(sChannel, {"Timestamp"})'
  <2>1. /\ Tail(sChannel) \in Seq(SlaveMessages)
        /\ FewRequests => Counts(Tail(sChannel), {"Timestamp"})
    BY <1>1, TailOf, CountsTail DEF PathInv, DelaysCount
  <2>2. Append(Tail(sChannel), e) \in Seq(SlaveMessages)
    BY <1>4, <2>1
  <2>3. ASSUME FewRequests'
        PROVE  Counts(Append(Tail(sChannel), e), {"Timestamp"})
    BY <1>3, <1>4, <1>6, <2>1, <2>3, CountsAppend
  <2> QED  BY <1>2, <2>2, <2>3
<1>8. PathTypes'
  BY <1>1, <1>2, <1>3, <1>5, <1>7 DEF PathInv, PathTypes, vars
<1>9. ASSUME FewRequests'
      PROVE  DelaysCount'
  <2>1. DelaysCount /\ sReqs < SeqIds /\ sMech.seq = sReqs
    BY <1>6, <1>9 DEF PathInv
  <2>2. (sReqs < SeqIds => sMech.seq = sReqs)'
    BY <1>1, <1>2, <1>5, <2>1
  <2> QED  BY <1>2, <1>3, <1>5, <1>7, <1>9, <2>1, <2>2
           DEF DelaysCount, CountsIn, vars, S!SameDelayExchange
<1>10. SyncsCountAtSlave => SyncsCountAtSlave'
  BY <1>2, <1>3, <1>5 DEF SyncsCountAtSlave, CountsIn, S!SameSyncExchange
<1>11. IInv' /\ (SyncsCount => SyncsCount')
  BY DEF PathInv, vars, IInv, Types, SyncsCount
<1> QED  BY <1>8, <1>9, <1>10, <1>11 DEF PathInv, FewSyncs, vars

LEMMA SlaveStepKeeps ==
  ASSUME PathInv, SlaveStep
  PROVE  PathInv'
<1>1. /\ UNCHANGED vars
      /\ sMech \in Mechanisms /\ sBase \in Nat /\ sChannel \in Seq(SlaveMessages)
      /\ FewRequests => CountsIf(sMech.request) /\ CountsIf(sMech.response)
  BY DEF SlaveStep, PathInv, PathTypes, DelaysCount
<1>2. SyncsCountAtSlave => CountsIf(sMech.two_step) /\ CountsIf(sMech.follow_up)
  BY DEF SyncsCountAtSlave
<1>3. CASE S!Receives
  BY <1>1, <1>3, ReceivesKeeps
<1>4. CASE S!ProcessDelayRequest
  <2>1. /\ sChannel # <<>> /\ sChannel' = Tail(sChannel) /\ Head(sChannel).type = "Timestamp"
        /\ UNCHANGED <<net, sReqs, sSample, sBase>>
    BY <1>4 DEF S!ProcessDelayRequest, S!Takes
  <2>2. CASE sMech' = sMech
    BY <1>1, <1>2, <2>1, <2>2, RecordKeeps
  <2>3. CASE sMech' = S!RecordDelayRequest(Head(sChannel))
    <3> DEFINE t == Head(sChannel)
               k == S!RecordDelayRequest(t)
    <3>1. t \in SlaveMessages /\ 1 \in DOMAIN sChannel /\ sChannel[1] = t
      BY <1>1, <2>1, TailOf
    <3>2. t.seq \in Nat /\ t.ex \in Nat /\ t.base \in Nat /\ (FewRequests => t.seq = t.ex)
      BY <2>1, <3>1 DEF SlaveMessages, PathInv, DelaysCount, Counts
    <3> HIDE DEF t
    <3>3. /\ k \in Mechanisms /\ k.seq = sMech.seq
          /\ k.request.seq = t.seq /\ k.request.ex = t.ex /\ k.response = sMech.response
          /\ k.two_step = sMech.two_step /\ k.follow_up = sMech.follow_up
      BY <1>1, <3>2 DEF S!RecordDelayRequest, Mechanisms
    <3>4. FewRequests => CountsIf(k.request) /\ CountsIf(k.response)
      BY <1>1, <3>2, <3>3 DEF CountsIf
    <3>5. sMech' = k
      BY <2>3 DEF t
    <3> HIDE DEF k
    <3> QED  BY <1>1, <1>2, <2>1, <3>3, <3>4, <3>5, RecordKeeps
  <2> QED  BY <1>4, <2>2, <2>3 DEF S!ProcessDelayRequest
<1>5. CASE S!SendDelayRequest
  BY <1>1, <1>5, SendDelayRequestKeeps
<1>6. CASE S!SendDelayRequestFails \/ S!IgnoreDelayRequestTimeout
  <2>1. /\ sChannel # <<>> /\ sChannel' = Tail(sChannel)
        /\ UNCHANGED <<sMech, net, sReqs, sSample, sBase>>
    BY <1>6 DEF S!SendDelayRequestFails, S!IgnoreDelayRequestTimeout, S!Takes
  <2> QED  BY <1>1, <1>2, <2>1, RecordKeeps
<1>7. ~S!ApplyDecision
  <2>1. sChannel # <<>> => Head(sChannel) \in SlaveMessages
    BY <1>1, TailOf
  <2> QED  BY <2>1 DEF S!ApplyDecision, S!Takes, SlaveMessages
<1>8. CASE S!Expire
  <2> DEFINE e == [type |-> "DelayRequestTimeout"]
  <2>1. sChannel' = Append(sChannel, e) /\ UNCHANGED <<sMech, net, sReqs, sSample, sBase>>
    BY <1>8 DEF S!Expire
  <2>2. e \in SlaveMessages /\ e.type # "Timestamp"
    BY DEF SlaveMessages
  <2> HIDE DEF e
  <2>3. sChannel' \in Seq(SlaveMessages) /\ (FewRequests => Counts(sChannel, {"Timestamp"})')
    BY <1>1, <2>1, <2>2, AppendOf, CountsAppend DEF PathInv, DelaysCount
  <2>4. IInv' /\ (SyncsCount => SyncsCount')
    BY <1>1 DEF PathInv, vars, IInv, Types, SyncsCount
  <2>5. PathTypes' /\ (FewRequests' => DelaysCount') /\ (SyncsCountAtSlave => SyncsCountAtSlave')
    BY <1>1, <2>1, <2>3
       DEF PathInv, PathTypes, DelaysCount, FewRequests, SyncsCountAtSlave, vars,
           S!SameDelayExchange, S!SameSyncExchange
  <2> QED  BY <1>1, <2>4, <2>5 DEF PathInv, FewSyncs, vars
<1> QED
  BY <1>3, <1>4, <1>5, <1>6, <1>7, <1>8 DEF SlaveStep, S!Handles

LEMMA PathInitially == PathInit => PathInv
<1> SUFFICES ASSUME PathInit PROVE PathInv
  OBVIOUS
<1>1. IInv
  BY Initially DEF PathInit
<1>2. PathTypes
  BY DEF PathInit, Init, S!Init, S!NewMechanism, PathTypes, Mechanisms
<1>3. wire = <<>> /\ channel = <<>> /\ sChannel = <<>> /\ net = {} /\ sSample = None
  BY DEF PathInit, Init, S!Init
<1>4. SyncsCount
  BY <1>3 DEF PathInit, Init, SyncsCount, Counts
<1>5. SyncsCountAtSlave /\ DelaysCount
  BY <1>3 DEF PathInit, S!Init, S!NewMechanism, SyncsCountAtSlave, DelaysCount, Counts,
              CountsIn, CountsIf, S!SameSyncExchange, S!SameDelayExchange
<1> QED  BY <1>1, <1>2, <1>4, <1>5 DEF PathInv

LEMMA PathPreserved ==
  ASSUME PathInv, [PathNext]_pathVars
  PROVE  PathInv'
<1>1. CASE UNCHANGED pathVars
  BY <1>1 DEF pathVars, sVars, vars, PathInv, IInv, Types, PathTypes, SyncsCount,
              SyncsCountAtSlave, DelaysCount, FewSyncs, FewRequests, S!SameSyncExchange,
              S!SameDelayExchange
<1> QED  BY <1>1, MasterStepKeeps, SlaveStepKeeps DEF PathNext

----------------------------------------------------------------------------
(* The theorems *)

LEMMA IInvSuffices == IInv => CyclesContinue /\ FollowsItsSync
<1>1. ASSUME NEW m \in Messages
      PROVE  [m EXCEPT !.type = "Sync"] = SyncOf(m)
  BY DEF Messages, SyncOf
<1>2. ASSUME IInv, NEW i \in DOMAIN wire
      PROVE  wire[i] \in Messages
  BY <1>2 DEF IInv, Types
<1>3. IInv => FollowsItsSync
  BY <1>1, <1>2 DEF IInv, Follows, FollowsItsSync
<1>4. IInv => CyclesContinue
  BY DEF IInv, Continues, Awaits, CyclesContinue, Waiting
<1> QED  BY <1>3, <1>4

\* A port in Master has each cycle's timeout running or on its way, whatever it
\* left in its channel when it was last in Master (AnnounceCycle::next,
\* SyncCycle::next, profile.master).
THEOREM CyclesNeverStop == Spec => []CyclesContinue
BY IInvSuffices, Initially, Preserved, PTL DEF Spec

\* A FollowUp carries the egress time and the id of one Sync sent before it, and
\* no Sync is followed up twice (send_follow_up on SystemMessage::Timestamp).
THEOREM FollowUpsFollow == Spec => []FollowsItsSync
BY IInvSuffices, Initially, Preserved, PTL DEF Spec

\* The same two for a master whose DelayReqs are those of the slave
\* (process_delay_request).
THEOREM PathKeepsMaster == PathSpec => [](CyclesContinue /\ FollowsItsSync)
<1>1. PathInv => IInv
  BY DEF PathInv
<1> QED  BY <1>1, IInvSuffices, PathInitially, PathPreserved, PTL DEF PathSpec

\* Until the master leaves Master and comes back, or has used all sequence ids, a sample
\* of the slave is made of a Sync and the FollowUp of that Sync; and until the slave has
\* used all, of a DelayReq and its own answer, however the network loses, repeats and
\* reorders them and whatever the number of ids (SequenceId::next, send_sync,
\* send_follow_up, process_delay_request, and the offsets of FollowUpMessage and
\* DelayResponseMessage).
THEOREM PathPairsExchanges == PathSpec => []PathPairs
<1>1. PathInv => PathPairs
  BY DEF PathInv, PathPairs, FewSyncs, FewRequests, SyncsCountAtSlave, DelaysCount
<1> QED  BY <1>1, PathInitially, PathPreserved, PTL DEF PathSpec
=============================================================================
