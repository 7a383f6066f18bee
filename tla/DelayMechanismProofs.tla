------------------------ MODULE DelayMechanismProofs ------------------------
(***************************************************************************)
(* What every sample of the delay mechanism is made of, for any number of  *)
(* masters, messages and parents, whatever the network loses, duplicates   *)
(* and reorders: the fragments in the mechanism come from the parent it    *)
(* was made for, its ingress time is that of the Sync it will use, and     *)
(* its FollowUp and Sync with the same sequence id are of one exchange.    *)
(***************************************************************************)
EXTENDS DelayMechanism, TLAPS

SyncTypes == {"OneStepSync", "TwoStepSync", "FollowUp"}

SystemMessages ==
  [type : {"DelayRequestTimeout"}]
    \cup [type : {"Timestamp"}, seq : Nat, ex : Nat, base : Nat]
    \cup [type : {"Recommend"}, parent : Masters \cup {None}]

Datagrams ==
  [type : SyncTypes, from : Masters, seq : Nat, ex : Nat]
    \cup [type : {"DelayReq"}, seq : Nat, ex : Nat]
    \cup [type : {"DelayResp"}, from : Masters, seq : Nat, ex : Nat \cup {None}]

Option(S) == S \cup {None}

Mechanisms ==
  [seq : Nat,
   one_step : Option([ex : Nat, from : Masters, base : Nat]),
   two_step : Option([seq : Nat, ex : Nat, from : Masters, base : Nat]),
   follow_up : Option([seq : Nat, ex : Nat, from : Masters]),
   request : Option([seq : Nat, ex : Nat, base : Nat]),
   response : Option([seq : Nat, ex : Nat \cup {None}, from : Masters]),
   ingress : Option([ex : Nat, base : Nat])]

Types ==
  /\ role \in {"Uncalibrated", "Slave", "Away", "Faulty"}
  /\ parent \in Masters
  /\ mech \in Mechanisms
  /\ armed \in BOOLEAN
  /\ channel \in Seq(SystemMessages)
  /\ net \subseteq Datagrams
  /\ nextSync \in [Masters -> Nat]
  /\ base \in Nat /\ syncs \in Nat /\ reqs \in Nat /\ sessions \in Nat

\* A master numbers its Syncs: an id it has used stands for one exchange.
Numbered(n, next) ==
  /\ \A m \in n : m.type \in SyncTypes => m.seq < next[m.from]
  /\ \A m1, m2 \in n :
       /\ m1.type \in SyncTypes /\ m2.type \in SyncTypes
       /\ m1.from = m2.from /\ m1.seq = m2.seq
       => m1.ex = m2.ex

\* The fragments come from the parent.
Tracked(k, p) ==
  /\ k.one_step # None => k.one_step.from = p
  /\ k.two_step # None => k.two_step.from = p
  /\ k.follow_up # None => k.follow_up.from = p
  /\ k.response # None => k.response.from = p

\* The two halves of a two-step Sync were sent.
Sent(f, n) ==
  f # None => \E m \in n : /\ m.type \in SyncTypes
                           /\ m.from = f.from /\ m.seq = f.seq /\ m.ex = f.ex

\* The ingress time is that of the Sync the next sample uses.
Timed(k) ==
  /\ k.one_step # None => k.ingress = [ex |-> k.one_step.ex, base |-> k.one_step.base]
  /\ k.one_step = None /\ k.two_step # None =>
       k.ingress = [ex |-> k.two_step.ex, base |-> k.two_step.base]

Sound(k, p, n) ==
  k \in Mechanisms /\ Tracked(k, p) /\ Sent(k.two_step, n) /\ Sent(k.follow_up, n) /\ Timed(k)

GoodSample(s) ==
  s # None =>
    /\ s.time = [ex |-> s.sync.ex, base |-> s.sync.base]
    /\ s.sync.from = s.parent /\ s.origin.from = s.parent /\ s.receipt.from = s.parent
    /\ s.origin.ex = s.sync.ex

IInv ==
  /\ Types
  /\ Numbered(net, nextSync)
  /\ Sound(mech, parent, net)
  /\ GoodSample(sample)
  /\ RequestsContinue

USE DelayMechanismAssumption

----------------------------------------------------------------------------
(* The mechanism *)

\* A sound mechanism yields good samples.
LEMMA SampleIsGood ==
  ASSUME NEW k, NEW n, NEW next, Numbered(n, next), Sound(k, parent, n)
  PROVE  GoodSample(Sample(k))
<1> SUFFICES ASSUME Sample(k) # None
             PROVE  GoodSample(Sample(k))
  BY DEF GoodSample
<1> DEFINE ms == MasterSlaveOffset(k)
           sm == SlaveMasterOffset(k)
<1>1. /\ ms # None /\ sm # None /\ k.ingress # None
      /\ Sample(k) = [time |-> k.ingress, sync |-> ms.sync, origin |-> ms.origin,
                      request |-> sm.request, receipt |-> sm.receipt, parent |-> parent]
  BY DEF Sample
<1>2. sm.receipt = k.response /\ k.response # None
  BY <1>1 DEF SlaveMasterOffset, CombineLatest, ResponseOffset
<1>3. CASE k.one_step # None
  <2>1. ms.sync = k.one_step /\ ms.origin = k.one_step
    BY <1>3 DEF MasterSlaveOffset, OneStepOffset
  <2> QED  BY <1>1, <1>2, <1>3, <2>1 DEF Sound, Tracked, Timed, GoodSample
<1>4. CASE k.one_step = None
  <2>1. /\ k.two_step # None /\ k.follow_up # None
        /\ k.follow_up.seq = k.two_step.seq
        /\ ms.sync = k.two_step /\ ms.origin = k.follow_up
    BY <1>1, <1>4 DEF MasterSlaveOffset, CombineLatest, FollowUpOffset
  <2>2. k.follow_up.from = k.two_step.from
    BY <2>1 DEF Sound, Tracked
  <2>3. k.follow_up.ex = k.two_step.ex
    <3>1. PICK m \in n : /\ m.type \in SyncTypes /\ m.from = k.two_step.from
                         /\ m.seq = k.two_step.seq /\ m.ex = k.two_step.ex
      BY <2>1 DEF Sound, Sent
    <3>2. PICK f \in n : /\ f.type \in SyncTypes /\ f.from = k.follow_up.from
                         /\ f.seq = k.follow_up.seq /\ f.ex = k.follow_up.ex
      BY <2>1 DEF Sound, Sent
    <3> QED  BY <2>1, <2>2, <3>1, <3>2 DEF Numbered
  <2> QED  BY <1>1, <1>2, <1>4, <2>1, <2>3 DEF Sound, Tracked, Timed, GoodSample
<1> QED  BY <1>3, <1>4

\* A new mechanism is sound for any parent.
LEMMA NewIsSound ==
  ASSUME NEW p, NEW n
  PROVE  Sound(NewMechanism, p, n)
BY DEF NewMechanism, Sound, Mechanisms, Option, Tracked, Sent, Timed

\* Recording a message of the parent keeps it sound.
LEMMA RecordIsSound ==
  ASSUME Types, Sound(mech, parent, net), NEW m \in net, FromParent(m)
  PROVE  /\ m.type = "OneStepSync" => Sound(RecordOneStepSync(m), parent, net)
         /\ m.type = "TwoStepSync" => Sound(RecordTwoStepSync(m), parent, net)
         /\ m.type = "FollowUp" => Sound(RecordFollowUp(m), parent, net)
         /\ m.type = "DelayResp" => Sound(RecordDelayResponse(m), parent, net)
<1> USE DEF Types
<1>1. mech \in Mechanisms /\ m \in Datagrams
  BY DEF Types
<1>2. m.type \in SyncTypes => m.from \in Masters /\ m.seq \in Nat /\ m.ex \in Nat
  BY <1>1 DEF Datagrams, SyncTypes
<1>3. m.type = "DelayResp" => m.from \in Masters /\ m.seq \in Nat /\ m.ex \in Nat \cup {None}
  BY <1>1 DEF Datagrams, SyncTypes
<1>4. ASSUME m.type = "OneStepSync"
      PROVE  Sound(RecordOneStepSync(m), parent, net)
  <2> DEFINE k == RecordOneStepSync(m)
             f == [ex |-> m.ex, from |-> m.from, base |-> base]
  <2>1. f \in [ex : Nat, from : Masters, base : Nat] /\ f # None
    BY <1>2, <1>4 DEF SyncTypes
  <2>2. /\ k \in Mechanisms
        /\ k.one_step = f /\ k.two_step = mech.two_step
        /\ k.follow_up = mech.follow_up /\ k.response = mech.response
        /\ k.ingress = [ex |-> m.ex, base |-> base]
    BY <1>1, <1>2, <1>4, <2>1 DEF RecordOneStepSync, Mechanisms, Option, SyncTypes
  <2> HIDE DEF k
  <2>3. Tracked(k, parent)
    BY <2>2 DEF Tracked, Sound, FromParent
  <2>4. Timed(k)
    BY <2>1, <2>2 DEF Timed
  <2> QED  BY <2>2, <2>3, <2>4 DEF Sound, k
<1>5. ASSUME m.type = "TwoStepSync"
      PROVE  Sound(RecordTwoStepSync(m), parent, net)
  <2> DEFINE k == RecordTwoStepSync(m)
             f == [seq |-> m.seq, ex |-> m.ex, from |-> m.from, base |-> base]
  <2>1. /\ k \in Mechanisms
        /\ k.one_step = None /\ k.two_step = f
        /\ k.follow_up = mech.follow_up /\ k.response = mech.response
        /\ k.ingress = [ex |-> m.ex, base |-> base]
    BY <1>1, <1>2, <1>5 DEF RecordTwoStepSync, Mechanisms, Option, SyncTypes
  <2> HIDE DEF k
  <2>2. Tracked(k, parent)
    BY <2>1 DEF Tracked, Sound, FromParent
  <2>3. Timed(k)
    BY <2>1 DEF Timed
  <2>4. Sent(k.two_step, net)
    BY <1>5, <2>1 DEF Sent, SyncTypes
  <2> QED  BY <2>1, <2>2, <2>3, <2>4 DEF Sound, k
<1>6. ASSUME m.type = "FollowUp"
      PROVE  Sound(RecordFollowUp(m), parent, net)
  <2> DEFINE k == RecordFollowUp(m)
             f == [seq |-> m.seq, ex |-> m.ex, from |-> m.from]
  <2>1. /\ k \in Mechanisms
        /\ k.one_step = mech.one_step /\ k.two_step = mech.two_step
        /\ k.follow_up = f /\ k.response = mech.response
        /\ k.ingress = mech.ingress
    BY <1>1, <1>2, <1>6 DEF RecordFollowUp, Mechanisms, Option, SyncTypes
  <2> HIDE DEF k
  <2>2. Tracked(k, parent) /\ Timed(k)
    BY <2>1 DEF Tracked, Timed, Sound, FromParent
  <2>3. Sent(k.follow_up, net)
    BY <1>6, <2>1 DEF Sent, SyncTypes
  <2> QED  BY <2>1, <2>2, <2>3 DEF Sound, k
<1>7. ASSUME m.type = "DelayResp"
      PROVE  Sound(RecordDelayResponse(m), parent, net)
  <2> DEFINE k == RecordDelayResponse(m)
             f == [seq |-> m.seq, ex |-> m.ex, from |-> m.from]
  <2>1. /\ k \in Mechanisms
        /\ k.one_step = mech.one_step /\ k.two_step = mech.two_step
        /\ k.follow_up = mech.follow_up /\ k.response = f
        /\ k.ingress = mech.ingress
    BY <1>1, <1>3, <1>7 DEF RecordDelayResponse, Mechanisms, Option
  <2> HIDE DEF k
  <2>2. Tracked(k, parent) /\ Timed(k)
    BY <2>1 DEF Tracked, Timed, Sound, FromParent
  <2> QED  BY <2>1, <2>2 DEF Sound, k
<1> QED  BY <1>4, <1>5, <1>6, <1>7
LEMMA SoundLater ==
  ASSUME NEW k, NEW p, NEW n, NEW n2, n \subseteq n2, Sound(k, p, n)
  PROVE  Sound(k, p, n2)
BY DEF Sound, Sent

----------------------------------------------------------------------------
(* The channel *)

Waiting(c) == \E i \in DOMAIN c : c[i].type = "DelayRequestTimeout"

LEMMA TailKeeps ==
  ASSUME NEW c \in Seq(SystemMessages), c # <<>>,
         Head(c).type # "DelayRequestTimeout", Waiting(c)
  PROVE  Waiting(Tail(c))
<1>1. PICK i \in DOMAIN c : c[i].type = "DelayRequestTimeout"
  BY DEF Waiting
<1>2. i \in 1..Len(c) /\ i # 1 /\ Len(c) \in Nat
  BY <1>1
<1>3. i - 1 \in DOMAIN Tail(c) /\ Tail(c)[i - 1] = c[i]
  BY <1>2
<1> QED  BY <1>1, <1>3 DEF Waiting

LEMMA AppendKeeps ==
  ASSUME NEW c \in Seq(SystemMessages), NEW s \in SystemMessages
  PROVE  /\ Append(c, s) \in Seq(SystemMessages)
         /\ Waiting(c) => Waiting(Append(c, s))
         /\ s.type = "DelayRequestTimeout" => Waiting(Append(c, s))
<1>1. Append(c, s) \in Seq(SystemMessages)
  OBVIOUS
<1>2. ASSUME Waiting(c)
      PROVE  Waiting(Append(c, s))
  <2>1. PICK i \in DOMAIN c : c[i].type = "DelayRequestTimeout"
    BY <1>2 DEF Waiting
  <2>2. i \in DOMAIN Append(c, s) /\ Append(c, s)[i] = c[i]
    BY <2>1
  <2> QED  BY <2>1, <2>2 DEF Waiting
<1>3. ASSUME s.type = "DelayRequestTimeout"
      PROVE  Waiting(Append(c, s))
  <2>1. /\ Len(c) + 1 \in DOMAIN Append(c, s)
        /\ Append(c, s)[Len(c) + 1] = s
    OBVIOUS
  <2> QED  BY <1>3, <2>1 DEF Waiting
<1> QED  BY <1>1, <1>2, <1>3

LEMMA RequestsAreWaiting == RequestsContinue <=> (Syncing => armed \/ Waiting(channel))
BY DEF RequestsContinue, Waiting

----------------------------------------------------------------------------
(* The steps *)

LEMMA Initially == Init => IInv
<1> SUFFICES ASSUME Init
             PROVE  IInv
  OBVIOUS
<1>1. Sound(mech, parent, net)
  BY NewIsSound DEF Init
<1>2. Types
  BY <1>1 DEF Init, Types, Sound
<1>3. Numbered(net, nextSync) /\ GoodSample(sample) /\ RequestsContinue
  BY DEF Init, Numbered, GoodSample, RequestsContinue
<1> QED  BY <1>1, <1>2, <1>3 DEF IInv

\* Feeding a sound mechanism leaves a good sample.
LEMMA FeedKeeps ==
  ASSUME IInv, NEW k, Sound(k, parent, net), Syncing, Feed(k)
  PROVE  IInv'
<1>1. /\ mech' = k /\ parent' = parent /\ armed' = armed /\ channel' = channel
      /\ net' = net /\ nextSync' = nextSync /\ syncs' = syncs /\ reqs' = reqs
      /\ sessions' = sessions
  BY DEF Feed
<1>2. /\ Sample(k) = None => sample' = sample /\ role' = role /\ base' = base
      /\ Sample(k) # None => /\ sample' = Sample(k)
                             /\ role' \in {"Slave", "Uncalibrated"}
                             /\ base' \in base..(base + 1)
  BY DEF Feed, AfterFeed, IInv, Types
<1>3. role' \in {"Uncalibrated", "Slave"} /\ base' \in Nat
  BY <1>2 DEF Syncing, IInv, Types
<1>4. Types'
  BY <1>1, <1>3 DEF Types, IInv, Sound
<1>5. GoodSample(sample')
  BY <1>2, SampleIsGood DEF IInv, GoodSample
<1>6. RequestsContinue'
  BY <1>1 DEF RequestsContinue, IInv
<1> QED  BY <1>1, <1>4, <1>5, <1>6 DEF IInv, Sound, Mechanisms

LEMMA RecordKeeps ==
  ASSUME IInv, NEW k, Sound(k, parent, net), Record(k)
  PROVE  IInv'
<1>1. /\ mech' = k /\ parent' = parent /\ armed' = armed /\ channel' = channel
      /\ net' = net /\ nextSync' = nextSync /\ syncs' = syncs /\ reqs' = reqs
      /\ sessions' = sessions /\ sample' = sample /\ role' = role /\ base' = base
  BY DEF Record
<1>2. Types'
  BY <1>1 DEF Types, IInv, Sound
<1>3. RequestsContinue'
  BY <1>1 DEF RequestsContinue, Syncing, IInv
<1> QED  BY <1>1, <1>2, <1>3 DEF IInv

LEMMA ReceiptKeeps ==
  ASSUME IInv, Receives
  PROVE  IInv'
<1>1. PICK m \in net : \/ ProcessOneStepSync(m) \/ ProcessTwoStepSync(m)
                       \/ ProcessFollowUp(m) \/ ProcessDelayResponse(m)
  BY DEF Receives
<1>2. Types /\ Sound(mech, parent, net)
  BY DEF IInv
<1>3. CASE ProcessOneStepSync(m)
  BY <1>2, <1>3, RecordIsSound, FeedKeeps DEF ProcessOneStepSync, Arrives
<1>4. CASE ProcessTwoStepSync(m)
  BY <1>2, <1>4, RecordIsSound, RecordKeeps DEF ProcessTwoStepSync, Arrives
<1>5. CASE ProcessFollowUp(m)
  BY <1>2, <1>5, RecordIsSound, FeedKeeps DEF ProcessFollowUp, Arrives
<1>6. CASE ProcessDelayResponse(m)
  BY <1>2, <1>6, RecordIsSound, RecordKeeps DEF ProcessDelayResponse, Arrives
<1> QED  BY <1>1, <1>3, <1>4, <1>5, <1>6
\* What is left of the invariant when the net, the sample and the history of
\* the masters stay.
LEMMA HandlerKeeps ==
  ASSUME IInv, UNCHANGED <<nextSync, sample, base, syncs, sessions>>,
         net \subseteq net', net' \subseteq Datagrams,
         \A m \in net' : m \in net \/ m.type \notin SyncTypes,
         role' \in {"Uncalibrated", "Slave", "Away", "Faulty"},
         parent' \in Masters, armed' \in BOOLEAN, reqs' \in Nat,
         channel' \in Seq(SystemMessages), Sound(mech', parent', net),
         RequestsContinue'
  PROVE  IInv'
<1>1. Types'
  BY DEF Types, IInv, Sound
<1>2. Numbered(net', nextSync')
  BY DEF Numbered, IInv
<1>3. Sound(mech', parent', net')
  BY SoundLater
<1>4. GoodSample(sample')
  BY DEF IInv
<1> QED  BY <1>1, <1>2, <1>3, <1>4 DEF IInv

LEMMA HandlingKeeps ==
  ASSUME IInv, Handles
  PROVE  IInv'
<1> DEFINE head == Head(channel)
<1>1. /\ channel \in Seq(SystemMessages) /\ Types /\ Sound(mech, parent, net)
      /\ net \subseteq Datagrams /\ mech \in Mechanisms
      /\ armed \in BOOLEAN /\ reqs \in Nat /\ parent \in Masters /\ base \in Nat
      /\ mech.seq \in Nat
      /\ role \in {"Uncalibrated", "Slave", "Away", "Faulty"}
      /\ Syncing => armed \/ Waiting(channel)
  BY RequestsAreWaiting DEF IInv, Types, Mechanisms
<1>2. channel # <<>> => head \in SystemMessages /\ Tail(channel) \in Seq(SystemMessages)
  BY <1>1
<1>3. RequestsContinue' <=> (Syncing' => armed' \/ Waiting(channel'))
  BY DEF RequestsContinue, Waiting
<1>4. CASE ProcessDelayRequest
  <2>1. /\ channel # <<>> /\ head.type = "Timestamp"
        /\ mech' = IF Syncing THEN RecordDelayRequest(head) ELSE mech
        /\ channel' = Tail(channel)
        /\ UNCHANGED <<role, parent, armed, net, nextSync, sample, base, syncs, reqs, sessions>>
    BY <1>4 DEF ProcessDelayRequest, Takes
  <2>2. head.seq \in Nat /\ head.ex \in Nat /\ head.base \in Nat
    BY <1>2, <2>1 DEF SystemMessages
  <2>3. Sound(RecordDelayRequest(head), parent, net)
    <3> DEFINE k == RecordDelayRequest(head)
    <3>1. /\ k \in Mechanisms
          /\ k.one_step = mech.one_step /\ k.two_step = mech.two_step
          /\ k.follow_up = mech.follow_up /\ k.response = mech.response
          /\ k.ingress = mech.ingress
      BY <1>1, <2>2 DEF RecordDelayRequest, Mechanisms, Option
    <3> HIDE DEF k
    <3> QED  BY <1>1, <3>1 DEF Sound, Tracked, Timed, k
  <2>4. RequestsContinue'
    BY <1>1, <1>3, <2>1, TailKeeps DEF Syncing
  <2> QED  BY <1>1, <1>2, <2>1, <2>3, <2>4, HandlerKeeps
<1>5. CASE SendDelayRequest
  <2> DEFINE q == [type |-> "DelayReq", seq |-> mech.seq, ex |-> reqs]
             t == [type |-> "Timestamp", seq |-> mech.seq, ex |-> reqs, base |-> base]
             k == [mech EXCEPT !.seq = (@ + 1) % SeqIds]
  <2>1. /\ channel # <<>>
        /\ mech' = k /\ armed' = TRUE /\ net' = net \cup {q}
        /\ channel' = Append(Tail(channel), t) /\ reqs' = reqs + 1
        /\ UNCHANGED <<role, parent, nextSync, sample, base, syncs, sessions>>
    BY <1>5 DEF SendDelayRequest, DelayRequest, NextDelayRequest, StampEgress, Takes
  <2>2. q \in Datagrams /\ t \in SystemMessages /\ q.type \notin SyncTypes
    BY <1>1 DEF Datagrams, SystemMessages, SyncTypes
  <2>3. Sound(k, parent, net)
    <3>1. (mech.seq + 1) % SeqIds \in Nat
      BY <1>1
    <3>2. /\ k \in Mechanisms
          /\ k.one_step = mech.one_step /\ k.two_step = mech.two_step
          /\ k.follow_up = mech.follow_up /\ k.response = mech.response
          /\ k.ingress = mech.ingress
      BY <1>1, <3>1 DEF Mechanisms
    <3> HIDE DEF k
    <3> QED  BY <1>1, <3>2 DEF Sound, Tracked, Timed
  <2>4. channel' \in Seq(SystemMessages)
    BY <1>2, <2>1, <2>2, AppendKeeps
  <2>5. RequestsContinue'
    BY <1>3, <2>1
  <2>6. /\ net' \subseteq Datagrams /\ net \subseteq net'
        /\ \A m \in net' : m \in net \/ m.type \notin SyncTypes
    BY <1>1, <2>1, <2>2
  <2> HIDE DEF k
  <2> QED  BY <1>1, <2>1, <2>3, <2>4, <2>5, <2>6, HandlerKeeps
<1>6. CASE SendDelayRequestFails
  <2>1. /\ channel # <<>> /\ role' = "Faulty" /\ armed' = FALSE /\ channel' = Tail(channel)
        /\ UNCHANGED <<parent, mech, net, nextSync, sample, base, syncs, reqs, sessions>>
    BY <1>6 DEF SendDelayRequestFails, Takes
  <2>2. RequestsContinue'
    BY <1>3, <2>1 DEF Syncing
  <2> QED  BY <1>1, <1>2, <2>1, <2>2, HandlerKeeps
<1>7. CASE IgnoreDelayRequestTimeout
  <2>1. /\ channel # <<>> /\ ~Syncing /\ channel' = Tail(channel)
        /\ UNCHANGED <<role, parent, mech, armed, net, nextSync, sample, base, syncs, reqs, sessions>>
    BY <1>7 DEF IgnoreDelayRequestTimeout, Takes
  <2>2. RequestsContinue'
    BY <1>3, <2>1 DEF Syncing
  <2> QED  BY <1>1, <1>2, <2>1, <2>2, HandlerKeeps
<1>8. CASE ApplyDecision
  <2>1. /\ channel # <<>> /\ head.type = "Recommend" /\ channel' = Tail(channel)
        /\ UNCHANGED <<net, nextSync, sample, base, syncs, reqs, sessions>>
    BY <1>8 DEF ApplyDecision, Takes
  <2>2. CASE /\ head.parent \in Masters
             /\ role' = "Uncalibrated" /\ parent' = head.parent
             /\ mech' = NewMechanism /\ armed' = TRUE
    <3>1. Sound(mech', parent', net)
      BY <2>2, NewIsSound
    <3>2. RequestsContinue'
      BY <1>3, <2>2
    <3> QED  BY <1>1, <1>2, <2>1, <2>2, <3>1, <3>2, HandlerKeeps
  <2>3. CASE role' = "Away" /\ armed' = FALSE /\ UNCHANGED <<parent, mech>>
    <3>1. RequestsContinue'
      BY <1>3, <2>3 DEF Syncing
    <3> QED  BY <1>1, <1>2, <2>1, <2>3, <3>1, HandlerKeeps
  <2>4. CASE UNCHANGED <<role, parent, mech, armed>>
    <3>1. RequestsContinue'
      BY <1>1, <1>3, <2>1, <2>4, TailKeeps DEF Syncing
    <3> QED  BY <1>1, <1>2, <2>1, <2>4, <3>1, HandlerKeeps
  <2> QED  BY <1>8, <2>2, <2>3, <2>4 DEF ApplyDecision
<1> QED  BY <1>4, <1>5, <1>6, <1>7, <1>8 DEF Handles

\* The masters add datagrams; a Sync has the next id of its master.
LEMMA MasterKeeps ==
  ASSUME IInv, MasterSteps
  PROVE  IInv'
<1>1. /\ UNCHANGED <<role, parent, mech, armed, channel, sample, base, reqs, sessions>>
      /\ net \subseteq net'
  BY DEF MasterSteps, MasterSyncs, MasterSyncsOneStep, MasterAnswers, MasterAnswersOther
<1>2. Sound(mech', parent', net')
  BY <1>1, SoundLater DEF IInv
<1>3. GoodSample(sample') /\ RequestsContinue'
  BY <1>1 DEF IInv, RequestsContinue, Syncing
<1>4. Numbered(net, nextSync) /\ Types
  BY DEF IInv
<1>5. SUFFICES Types' /\ Numbered(net', nextSync')
  BY <1>2, <1>3 DEF IInv
<1>6. PICK m \in Masters : \/ MasterSyncs(m) \/ MasterSyncsOneStep(m)
                           \/ \E q \in net : MasterAnswers(m, q)
                           \/ \E s \in 0..(MaxReq - 1) : MasterAnswersOther(m, s)
  BY DEF MasterSteps
<1> DEFINE Msg(type) == [type |-> type, from |-> m, seq |-> nextSync[m], ex |-> syncs]
<1>7. CASE MasterSyncs(m) \/ MasterSyncsOneStep(m)
  <2>1. /\ nextSync' = [nextSync EXCEPT ![m] = @ + 1] /\ syncs' = syncs + 1
        /\ \/ net' = net \cup {Msg("TwoStepSync"), Msg("FollowUp")}
           \/ net' = net \cup {Msg("OneStepSync")}
    BY <1>7 DEF MasterSyncs, MasterSyncsOneStep
  <2>2. \A x \in net' : \/ x \in net
                        \/ /\ x.from = m /\ x.seq = nextSync[m] /\ x.ex = syncs
                           /\ x \in Datagrams
    BY <1>4, <1>6, <2>1 DEF Types, Datagrams, SyncTypes
  <2>3. Types'
    <3>1. nextSync' \in [Masters -> Nat] /\ syncs' \in Nat
      <4>1. nextSync \in [Masters -> Nat] /\ syncs \in Nat /\ nextSync[m] + 1 \in Nat
        BY <1>4, <1>6 DEF Types
      <4>2. [nextSync EXCEPT ![m] = @ + 1] \in [Masters -> Nat]
        BY <4>1
      <4> QED  BY <2>1, <4>1, <4>2
    <3>2. net' \subseteq Datagrams
      BY <1>4, <2>2 DEF Types
    <3> QED  BY <1>1, <1>4, <3>1, <3>2 DEF Types
  <2>4. \A x \in net : x.type \in SyncTypes => x.from \in Masters /\ x.seq \in Nat
    BY <1>4 DEF Types, Datagrams, SyncTypes
  <2>5. /\ nextSync[m] \in Nat /\ nextSync'[m] = nextSync[m] + 1
        /\ \A p \in Masters : p # m => nextSync'[p] = nextSync[p]
    BY <1>4, <1>6, <2>1 DEF Types
  <2>6. \A x \in net : x.type \in SyncTypes =>
          /\ x.seq < nextSync'[x.from]
          /\ x.from = m => x.seq # nextSync[m]
    BY <1>4, <2>4, <2>5 DEF Numbered, Types
  <2> QED  BY <1>4, <2>2, <2>3, <2>5, <2>6 DEF Numbered
<1>8. CASE (\E q \in net : MasterAnswers(m, q))
           \/ \E s \in 0..(MaxReq - 1) : MasterAnswersOther(m, s)
  <2>1. /\ UNCHANGED <<nextSync, syncs>>
        /\ \E a \in Datagrams : a.type = "DelayResp" /\ net' = net \cup {a}
    <3>1. ASSUME NEW q \in net, MasterAnswers(m, q)
          PROVE  /\ UNCHANGED <<nextSync, syncs>>
                 /\ \E a \in Datagrams : a.type = "DelayResp" /\ net' = net \cup {a}
      <4> DEFINE a == [type |-> "DelayResp", from |-> m, seq |-> q.seq, ex |-> q.ex]
      <4>1. q.seq \in Nat /\ q.ex \in Nat
        BY <1>4, <3>1 DEF MasterAnswers, Types, Datagrams, SyncTypes
      <4>2. a \in Datagrams /\ a.type = "DelayResp"
        BY <1>6, <4>1 DEF Datagrams
      <4> QED  BY <3>1, <4>2 DEF MasterAnswers
    <3>2. ASSUME NEW s \in 0..(MaxReq - 1), MasterAnswersOther(m, s)
          PROVE  /\ UNCHANGED <<nextSync, syncs>>
                 /\ \E a \in Datagrams : a.type = "DelayResp" /\ net' = net \cup {a}
      <4> DEFINE a == [type |-> "DelayResp", from |-> m, seq |-> s, ex |-> None]
      <4>1. a \in Datagrams /\ a.type = "DelayResp"
        BY <1>6 DEF Datagrams
      <4> QED  BY <3>2, <4>1 DEF MasterAnswersOther
    <3> QED  BY <1>8, <3>1, <3>2
  <2> QED  BY <1>1, <1>4, <2>1 DEF Types, Numbered, SyncTypes
<1> QED  BY <1>6, <1>7, <1>8

LEMMA Preserved ==
  ASSUME IInv, [Next]_vars
  PROVE  IInv'
<1>1. CASE UNCHANGED vars
  BY <1>1 DEF vars, IInv, Types, RequestsContinue, Syncing
<1>2. CASE Receives
  BY <1>2, ReceiptKeeps
<1>3. CASE Handles
  BY <1>3, HandlingKeeps
<1>4. CASE MasterSteps
  BY <1>4, MasterKeeps
<1>5. CASE Expire
  <2> DEFINE s == [type |-> "DelayRequestTimeout"]
  <2>1. /\ armed' = FALSE /\ channel' = Append(channel, s) /\ channel \in Seq(SystemMessages)
        /\ s \in SystemMessages
        /\ UNCHANGED <<role, parent, mech, net, nextSync, sample, base, syncs, reqs, sessions>>
    BY <1>5 DEF Expire, SystemMessages, IInv, Types
  <2>2. channel' \in Seq(SystemMessages) /\ Waiting(channel')
    BY <2>1, AppendKeeps
  <2>3. RequestsContinue'
    BY <2>2 DEF RequestsContinue, Waiting
  <2>4. Types'
    BY <2>1, <2>2 DEF IInv, Types
  <2> QED  BY <2>1, <2>3, <2>4 DEF IInv
<1>6. ASSUME NEW p \in Masters \cup {None}, Decide(p)
      PROVE  IInv'
  <2> DEFINE s == [type |-> "Recommend", parent |-> p]
  <2>1. /\ sessions' = sessions + 1 /\ channel' = Append(channel, s)
        /\ channel \in Seq(SystemMessages) /\ s \in SystemMessages
        /\ UNCHANGED <<role, parent, mech, armed, net, nextSync, sample, base, syncs, reqs>>
    BY <1>6 DEF Decide, SystemMessages, IInv, Types
  <2>2. channel' \in Seq(SystemMessages) /\ (Waiting(channel) => Waiting(channel'))
    BY <2>1, AppendKeeps
  <2>3. RequestsContinue'
    BY <2>1, <2>2 DEF RequestsContinue, Waiting, Syncing, IInv
  <2>4. Types'
    BY <2>1, <2>2 DEF IInv, Types
  <2> QED  BY <2>1, <2>3, <2>4 DEF IInv
<1> QED  BY <1>1, <1>2, <1>3, <1>4, <1>5, <1>6 DEF Next

----------------------------------------------------------------------------
(* The theorems *)

\* Every remote timestamp of a sample was taken by the parent of the time,
\* through every change of parent (matches_parent, profile.uncalibrated).
THEOREM SamplesFromParent == Spec => []SampleFromParent
<1>1. IInv => SampleFromParent
  BY DEF IInv, GoodSample, SampleFromParent
<1> QED  BY <1>1, Initially, Preserved, PTL DEF Spec

\* The time of a sample is the ingress time of the Sync it is made from,
\* whatever the order of one-step and two-step Syncs and FollowUps.
THEOREM SampleTimeOfSync == Spec => []SampleTimeIsSync
<1>1. IInv => SampleTimeIsSync
  BY DEF IInv, GoodSample, SampleTimeIsSync
<1> QED  BY <1>1, Initially, Preserved, PTL DEF Spec

\* A FollowUp is combined with its own Sync only, as long as a master does not
\* use a sequence id twice (FollowUpMessage::master_slave_offset).
THEOREM SyncExchangesAreOne == Spec => []SameSyncExchange
<1>1. IInv => SameSyncExchange
  BY DEF IInv, GoodSample, SameSyncExchange
<1> QED  BY <1>1, Initially, Preserved, PTL DEF Spec

\* A port that measures has a DelayReq timeout running or on its way
\* (DelayCycle::next, profile.uncalibrated).
THEOREM RequestsNeverStop == Spec => []RequestsContinue
<1>1. IInv => RequestsContinue
  BY DEF IInv
<1> QED  BY <1>1, Initially, Preserved, PTL DEF Spec
=============================================================================
