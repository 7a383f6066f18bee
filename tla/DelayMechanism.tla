--------------------------- MODULE DelayMechanism ---------------------------
(***************************************************************************)
(* What a port in Uncalibrated or Slave measures: the end-to-end delay     *)
(* mechanism (e2e.rs) as the handlers of the two states drive it           *)
(* (uncalibrated.rs, slave.rs), against a network that loses, duplicates   *)
(* and reorders datagrams and a host that reports egress timestamps and    *)
(* timeouts through the channel of the port.                               *)
(*                                                                         *)
(* A timestamp is represented by what it is the timestamp of: the exchange *)
(* (ex) whose message was stamped and, for the local clock, the number of  *)
(* times the clock had been stepped (base).  ex and base are history; the  *)
(* code sees sequence ids only.                                            *)
(***************************************************************************)
EXTENDS Naturals, Sequences

CONSTANTS Masters,        \* ports in Master that the port may hear
          None,           \* Option::None
          SeqIds,         \* number of sequence ids, 2^16 in the code
          Others,         \* TRUE if other ports on the network send DelayReqs
          MaxClockSteps,  \* bound on the steps of the local clock by the servo
          MaxSync,        \* bound on the Syncs all masters send
          MaxReq,         \* bound on the DelayReqs the port sends
          MaxSessions     \* bound on the state decisions for the port

ASSUME DelayMechanismAssumption ==
  /\ None \notin Masters
  /\ None \notin [ex : Nat, from : Masters, base : Nat]
  /\ SeqIds \in Nat \ {0}
  /\ Others \in BOOLEAN
  /\ MaxClockSteps \in Nat /\ MaxSync \in Nat /\ MaxReq \in Nat /\ MaxSessions \in Nat

VARIABLES
  role,       \* "Uncalibrated", "Slave", "Away" (any other state) or "Faulty"
  parent,     \* the parent that the port tracks
  mech,       \* EndToEndDelayMechanism
  armed,      \* the timeout of the DelayCycle is running
  channel,    \* system messages on their way to the port, in order
  net,        \* datagrams sent so far; each may arrive any number of times
  nextSync,   \* sequence id of the next Sync of each master, which uses none twice here
  sample,     \* the last sample fed to the servo
  base,       \* history: how often the local clock was stepped
  syncs,      \* history: number of Syncs sent
  reqs,       \* history: number of DelayReqs sent
  sessions    \* history: number of state decisions

vars == <<role, parent, mech, armed, channel, net, nextSync, sample,
          base, syncs, reqs, sessions>>

Syncing == role \in {"Uncalibrated", "Slave"}

\* bmca.matches_parent
FromParent(m) == m.from = parent

----------------------------------------------------------------------------
(* The mechanism *)

\* EndToEndDelayMechanism::new with a DelayCycle that starts at 0
NewMechanism ==
  [seq |-> 0, one_step |-> None, two_step |-> None, follow_up |-> None,
   request |-> None, response |-> None, ingress |-> None]

RecordOneStepSync(m) ==
  [mech EXCEPT !.one_step = [ex |-> m.ex, from |-> m.from, base |-> base],
               !.ingress = [ex |-> m.ex, base |-> base]]

\* Seeded fault: a two-step Sync leaves the one-step Sync before it in place.
RecordTwoStepKeepsOneStep(m) ==
  [mech EXCEPT !.two_step = [seq |-> m.seq, ex |-> m.ex, from |-> m.from, base |-> base],
               !.ingress = [ex |-> m.ex, base |-> base]]

RecordTwoStepSync(m) ==
  [mech EXCEPT !.one_step = None,
               !.two_step = [seq |-> m.seq, ex |-> m.ex, from |-> m.from, base |-> base],
               !.ingress = [ex |-> m.ex, base |-> base]]

RecordFollowUp(m) == [mech EXCEPT !.follow_up = [seq |-> m.seq, ex |-> m.ex, from |-> m.from]]

RecordDelayRequest(t) == [mech EXCEPT !.request = [seq |-> t.seq, ex |-> t.ex, base |-> t.base]]

RecordDelayResponse(m) == [mech EXCEPT !.response = [seq |-> m.seq, ex |-> m.ex, from |-> m.from]]

\* The offsets of message.rs: the stamps they subtract, None for other exchanges.
OneStepOffset(sync) == [sync |-> sync, origin |-> sync]

FollowUpOffset(followUp, sync) ==
  IF followUp.seq = sync.seq THEN [sync |-> sync, origin |-> followUp] ELSE None

ResponseOffset(response, request) ==
  IF response.seq = request.seq THEN [request |-> request, receipt |-> response] ELSE None

\* MessageWindow::combine_latest: what m and n combine to, if both were received
CombineLatest(m, n, combined) == IF m # None /\ n # None THEN combined ELSE None

\* Seeded fault: the latest Sync and FollowUp are combined whatever their ids.
MasterSlaveAnyFollowUp(k) ==
  IF k.one_step # None THEN [sync |-> k.one_step, origin |-> k.one_step]
  ELSE IF k.follow_up # None /\ k.two_step # None
  THEN [sync |-> k.two_step, origin |-> k.follow_up]
  ELSE None

\* SyncExchange::master_slave_offset
MasterSlaveOffset(k) ==
  IF k.one_step # None THEN OneStepOffset(k.one_step)
  ELSE CombineLatest(k.follow_up, k.two_step, FollowUpOffset(k.follow_up, k.two_step))

\* Seeded fault: the latest DelayReq and DelayResp are combined whatever their ids.
SlaveMasterAnyResponse(k) ==
  IF k.response # None /\ k.request # None
  THEN [request |-> k.request, receipt |-> k.response]
  ELSE None

\* DelayExchange::slave_master_offset
SlaveMasterOffset(k) ==
  CombineLatest(k.response, k.request, ResponseOffset(k.response, k.request))

\* EndToEndDelayMechanism::sample
Sample(k) ==
  LET ms == MasterSlaveOffset(k)
      sm == SlaveMasterOffset(k)
  IN IF ms = None \/ sm = None \/ k.ingress = None THEN None
     ELSE [time |-> k.ingress, sync |-> ms.sync, origin |-> ms.origin,
           request |-> sm.request, receipt |-> sm.receipt, parent |-> parent]

----------------------------------------------------------------------------
(* The port *)

\* Uncalibrated follows Locked to Slave; Slave goes back on anything else.
AfterFeed(locked) == IF locked THEN "Slave" ELSE "Uncalibrated"

\* The servo takes the sample, if there is one; it may step the clock.
Feed(k) ==
  /\ mech' = k
  /\ IF Sample(k) = None
     THEN UNCHANGED <<sample, role, base>>
     ELSE /\ sample' = Sample(k)
          /\ \E locked \in BOOLEAN : role' = AfterFeed(locked)
          /\ base' \in base..(IF base < MaxClockSteps THEN base + 1 ELSE base)
  /\ UNCHANGED <<parent, armed, channel, net, nextSync, syncs, reqs, sessions>>

Record(k) ==
  /\ mech' = k
  /\ UNCHANGED <<role, parent, armed, channel, net, nextSync, sample,
                 base, syncs, reqs, sessions>>

Arrives(m, type) == Syncing /\ m \in net /\ m.type = type

\* Seeded fault: a FollowUp is accepted from any master.
ProcessAnyFollowUp(m) == Arrives(m, "FollowUp") /\ Feed(RecordFollowUp(m))

ProcessOneStepSync(m) ==
  Arrives(m, "OneStepSync") /\ FromParent(m) /\ Feed(RecordOneStepSync(m))

ProcessTwoStepSync(m) ==
  Arrives(m, "TwoStepSync") /\ FromParent(m) /\ Record(RecordTwoStepSync(m))

ProcessFollowUp(m) ==
  Arrives(m, "FollowUp") /\ FromParent(m) /\ Feed(RecordFollowUp(m))

ProcessDelayResponse(m) ==
  Arrives(m, "DelayResp") /\ FromParent(m) /\ Record(RecordDelayResponse(m))

\* The next system message, of the given type.
Takes(type) == channel # <<>> /\ Head(channel).type = type

\* process_delay_request: the egress timestamp of a DelayReq
ProcessDelayRequest ==
  /\ Takes("Timestamp")
  /\ mech' = IF Syncing THEN RecordDelayRequest(Head(channel)) ELSE mech
  /\ channel' = Tail(channel)
  /\ UNCHANGED <<role, parent, armed, net, nextSync, sample, base, syncs, reqs, sessions>>

\* EndToEndDelayMechanism::delay_request: a message with the id of the cycle, which
\* moves on to the next (SequenceId::next)
DelayRequest == [type |-> "DelayReq", seq |-> mech.seq, ex |-> reqs]
NextDelayRequest == [mech EXCEPT !.seq = (@ + 1) % SeqIds]

\* The host stamps what was sent and puts the stamp into the channel at once.
StampEgress(q, c) == Append(c, [type |-> "Timestamp", seq |-> q.seq, ex |-> q.ex, base |-> base])

\* Seeded fault: the timeout is restarted only once a request was answered.
SendDelayRequestOnce ==
  /\ Takes("DelayRequestTimeout") /\ Syncing /\ reqs < MaxReq
  /\ mech' = NextDelayRequest
  /\ net' = net \cup {DelayRequest}
  /\ channel' = StampEgress(DelayRequest, Tail(channel))
  /\ reqs' = reqs + 1
  /\ UNCHANGED <<role, parent, armed, nextSync, sample, base, syncs, sessions>>

\* send_delay_request: the cycle moves on, the datagram leaves and is stamped.
SendDelayRequest ==
  /\ Takes("DelayRequestTimeout") /\ Syncing /\ reqs < MaxReq
  /\ mech' = NextDelayRequest
  /\ armed' = TRUE
  /\ net' = net \cup {DelayRequest}
  /\ channel' = StampEgress(DelayRequest, Tail(channel))
  /\ reqs' = reqs + 1
  /\ UNCHANGED <<role, parent, nextSync, sample, base, syncs, sessions>>

\* send_delay_request when the socket refuses the datagram: FaultDetected
SendDelayRequestFails ==
  /\ Takes("DelayRequestTimeout") /\ Syncing
  /\ role' = "Faulty"
  /\ armed' = FALSE
  /\ channel' = Tail(channel)
  /\ UNCHANGED <<parent, mech, net, nextSync, sample, base, syncs, reqs, sessions>>

\* Outside the two states the timeout is ignored.
IgnoreDelayRequestTimeout ==
  /\ Takes("DelayRequestTimeout") /\ ~Syncing
  /\ channel' = Tail(channel)
  /\ UNCHANGED <<role, parent, mech, armed, net, nextSync, sample, base, syncs, reqs, sessions>>

\* A state decision event is handled.  A new parent starts a new mechanism
\* (profile.uncalibrated); the old one goes with its timeout.
ApplyDecision ==
  /\ Takes("Recommend")
  /\ LET p == Head(channel).parent IN
       \/ /\ p \in Masters /\ role # "Faulty" /\ (Syncing => p # parent)
          /\ role' = "Uncalibrated" /\ parent' = p
          /\ mech' = NewMechanism /\ armed' = TRUE
       \/ /\ p = None /\ Syncing
          /\ role' = "Away"
          /\ armed' = FALSE
          /\ UNCHANGED <<parent, mech>>
       \/ /\ role = "Faulty" \/ (p = None /\ ~Syncing) \/ (p = parent /\ Syncing)
          /\ UNCHANGED <<role, parent, mech, armed>>
  /\ channel' = Tail(channel)
  /\ UNCHANGED <<net, nextSync, sample, base, syncs, reqs, sessions>>

----------------------------------------------------------------------------
(* The environment *)

\* The timeout of the cycle runs out and leaves its message in the channel.
Expire ==
  /\ armed
  /\ armed' = FALSE
  /\ channel' = Append(channel, [type |-> "DelayRequestTimeout"])
  /\ UNCHANGED <<role, parent, mech, net, nextSync, sample, base, syncs, reqs, sessions>>

\* The best master changes, or (None) there is no master to follow.
Decide(p) ==
  /\ sessions < MaxSessions
  /\ sessions' = sessions + 1
  /\ channel' = Append(channel, [type |-> "Recommend", parent |-> p])
  /\ UNCHANGED <<role, parent, mech, armed, net, nextSync, sample, base, syncs, reqs>>

\* A master sends a Sync with its origin time, or a Sync and a FollowUp.
MasterSyncs(m) ==
  /\ syncs < MaxSync
  /\ LET Msg(type) == [type |-> type, from |-> m, seq |-> nextSync[m], ex |-> syncs] IN
       net' = net \cup {Msg("TwoStepSync"), Msg("FollowUp")}
  /\ nextSync' = [nextSync EXCEPT ![m] = @ + 1]
  /\ syncs' = syncs + 1
  /\ UNCHANGED <<role, parent, mech, armed, channel, sample, base, reqs, sessions>>

MasterSyncsOneStep(m) ==
  /\ syncs < MaxSync
  /\ net' = net \cup {[type |-> "OneStepSync", from |-> m, seq |-> nextSync[m], ex |-> syncs]}
  /\ nextSync' = [nextSync EXCEPT ![m] = @ + 1]
  /\ syncs' = syncs + 1
  /\ UNCHANGED <<role, parent, mech, armed, channel, sample, base, reqs, sessions>>

\* A master answers a DelayReq (master.rs process_delay_request).
MasterAnswers(m, q) ==
  /\ q \in net /\ q.type = "DelayReq"
  /\ net' = net \cup {[type |-> "DelayResp", from |-> m, seq |-> q.seq, ex |-> q.ex]}
  /\ UNCHANGED <<role, parent, mech, armed, channel, nextSync, sample,
                 base, syncs, reqs, sessions>>

\* A master answers the DelayReq of another port, which has its own sequence.
MasterAnswersOther(m, s) ==
  /\ Others
  /\ net' = net \cup {[type |-> "DelayResp", from |-> m, seq |-> s, ex |-> None]}
  /\ UNCHANGED <<role, parent, mech, armed, channel, nextSync, sample,
                 base, syncs, reqs, sessions>>

----------------------------------------------------------------------------

\* Just entered Uncalibrated.
Init ==
  /\ role = "Uncalibrated"
  /\ parent \in Masters
  /\ mech = NewMechanism
  /\ armed = TRUE
  /\ channel = <<>>
  /\ net = {}
  /\ nextSync = [m \in Masters |-> 0]
  /\ sample = None
  /\ base = 0 /\ syncs = 0 /\ reqs = 0 /\ sessions = 0

Receives ==
  \E m \in net :
    \/ ProcessOneStepSync(m)
    \/ ProcessTwoStepSync(m)
    \/ ProcessFollowUp(m)
    \/ ProcessDelayResponse(m)

Handles ==
  \/ ProcessDelayRequest
  \/ SendDelayRequest
  \/ SendDelayRequestFails
  \/ IgnoreDelayRequestTimeout
  \/ ApplyDecision

MasterSteps ==
  \E m \in Masters :
    \/ MasterSyncs(m)
    \/ MasterSyncsOneStep(m)
    \/ \E q \in net : MasterAnswers(m, q)
    \/ \E s \in 0..(MaxReq - 1) : MasterAnswersOther(m, s)

Next ==
  \/ Receives
  \/ Handles
  \/ MasterSteps
  \/ Expire
  \/ \E p \in Masters \cup {None} : Decide(p)

Spec == Init /\ [][Next]_vars

----------------------------------------------------------------------------
(* Properties *)

\* The sample time is the ingress time of the very Sync whose offset the sample
\* carries, however one-step and two-step Syncs, FollowUps and their duplicates
\* follow one another (EndToEndDelayMechanism::sample).
SampleTimeIsSync ==
  sample # None => sample.time = [ex |-> sample.sync.ex, base |-> sample.sync.base]

\* Every remote timestamp of a sample was taken by the parent that the port
\* tracked when it fed the sample (matches_parent in slave.rs, uncalibrated.rs).
SampleFromParent ==
  sample # None =>
    /\ sample.sync.from = sample.parent
    /\ sample.origin.from = sample.parent
    /\ sample.receipt.from = sample.parent

\* A FollowUp is combined only with the Sync it follows up, where a master uses no id
\* twice (FollowUpMessage::master_slave_offset).
SameSyncExchange == sample # None => sample.origin.ex = sample.sync.ex

\* A DelayResp is combined only with the DelayReq it answers, in one session and as
\* long as no other port asks (DelayResponseMessage::slave_master_offset).
SameDelayExchange == sample # None => sample.receipt.ex = sample.request.ex

\* A port that measures never stops asking: its DelayReq timeout is running or
\* has left its message in the channel (DelayCycle::next).
RequestsContinue ==
  Syncing => armed \/ \E i \in DOMAIN channel : channel[i].type = "DelayRequestTimeout"

----------------------------------------------------------------------------
(* What the documentation says and the code does not do: this fails. *)

\* The local timestamps of a sample, the Sync's ingress and the DelayReq's egress,
\* were taken from the same clock: the servo did not step it in between
\* (EndToEndDelayMechanism::sample).
SameTimeBase == sample # None => sample.sync.base = sample.request.base
=============================================================================
