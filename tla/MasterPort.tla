----------------------------- MODULE MasterPort -----------------------------
(***************************************************************************)
(* What a port in Master sends: the Announce and Sync cycles, the FollowUp *)
(* that the egress timestamp of a Sync brings about, and the answers to    *)
(* DelayReqs (master.rs), as the port comes and goes from Master with      *)
(* timeouts and timestamps still in its channel.                           *)
(*                                                                         *)
(* ex is history: the number of the Sync, or the DelayReq, that a          *)
(* timestamp belongs to.                                                   *)
(***************************************************************************)
EXTENDS Naturals, Sequences

CONSTANTS Requests,      \* the DelayReqs [seq, ex] that may arrive
          SeqIds,        \* number of sequence ids, 2^16 in the code
          MaxSync,       \* bound on the Syncs sent or due
          MaxAnnounce,   \* bound on the Announces sent or due
          MaxAnswers,    \* bound on the DelayResps sent
          MaxEntries     \* bound on the state decisions and timeouts for the port

ASSUME MasterPortAssumption ==
  /\ Requests \subseteq [seq : Nat, ex : Nat]
  /\ SeqIds \in Nat \ {0}
  /\ MaxSync \in Nat /\ MaxAnnounce \in Nat /\ MaxAnswers \in Nat /\ MaxEntries \in Nat

VARIABLES
  role,       \* "Master", "PreMaster", "Faulty", or "Other" for all other states
  announce,   \* AnnounceCycle: sequence id and whether its timeout is running
  sync,       \* SyncCycle, likewise
  qualify,    \* the qualification timeout of PreMaster is running
  channel,    \* system messages on their way to the port, in order
  wire,       \* the messages sent, in order
  syncs,      \* history: number of Syncs sent
  session,    \* history: number of the first Sync since the port entered Master
  entries     \* history: number of state decisions and receipt timeouts

vars == <<role, announce, sync, qualify, channel, wire, syncs, session, entries>>

\* A cycle that is not there; a new one, whose timeout is due at once
\* (AnnounceCycle::new, SyncCycle::new); and what next() makes of it, with an id that
\* wraps (SequenceId::next).
Idle == [seq |-> 0, armed |-> FALSE]
NewCycle == [seq |-> 0, armed |-> TRUE]
NextOf(cycle) == [seq |-> (cycle.seq + 1) % SeqIds, armed |-> TRUE]

Sent(type) == SelectSeq(wire, LAMBDA m : m.type = type)
Due(type) == Len(SelectSeq(channel, LAMBDA m : m.type = type))

\* AnnounceCycle::announce, SyncCycle::two_step_sync, TwoStepSyncMessage::follow_up,
\* DelayRequestMessage::response
AnnounceMsg == [type |-> "Announce", seq |-> announce.seq, ex |-> 0]
TwoStepSync == [type |-> "Sync", seq |-> sync.seq, ex |-> syncs]
FollowUp(s) == [type |-> "FollowUp", seq |-> s.seq, ex |-> s.ex]
Response(q) == [type |-> "DelayResp", seq |-> q.seq, ex |-> q.ex]

Takes(type) == channel # <<>> /\ Head(channel).type = type

\* The host stamps what was sent and puts the stamp into the channel at once.
StampEgress(m, c) == Append(c, [m EXCEPT !.type = "Timestamp"])

----------------------------------------------------------------------------

\* profile.master: both cycles start at 0, with timeouts that are due at once.
EnterMaster ==
  /\ role' = "Master"
  /\ announce' = NewCycle
  /\ sync' = NewCycle
  /\ qualify' = FALSE
  /\ session' = syncs
  /\ UNCHANGED syncs

\* The state is left with its cycles, and their timeouts are cancelled.
Leave(next) ==
  /\ role' = next
  /\ announce' = Idle /\ sync' = Idle
  /\ qualify' = (next = "PreMaster")
  /\ UNCHANGED <<syncs, session>>

\* FaultDetected, after a send that failed
FaultDetected == Leave("Faulty") /\ UNCHANGED wire

Ignore == UNCHANGED <<role, announce, sync, qualify, wire, syncs, session>>

\* Seeded fault: the timeout is not restarted.
SendAnnounceOnce ==
  /\ Takes("AnnounceSendTimeout")
  /\ channel' = Tail(channel)
  /\ IF role # "Master" THEN Ignore
     ELSE /\ wire' = Append(wire, AnnounceMsg)
          /\ announce' = [NextOf(announce) EXCEPT !.armed = FALSE]
          /\ UNCHANGED <<role, sync, qualify, syncs, session>>
  /\ UNCHANGED entries

\* AnnounceSendTimeout: send_announce, then AnnounceCycle::next
SendAnnounce ==
  /\ Takes("AnnounceSendTimeout")
  /\ channel' = Tail(channel)
  /\ IF role # "Master" THEN Ignore
     ELSE \/ /\ wire' = Append(wire, AnnounceMsg)
             /\ announce' = NextOf(announce)
             /\ UNCHANGED <<role, sync, qualify, syncs, session>>
          \/ FaultDetected
  /\ UNCHANGED entries

\* SyncTimeout: send_sync, which is stamped as it leaves, then SyncCycle::next
SendSync ==
  /\ Takes("SyncTimeout")
  /\ IF role # "Master" THEN Ignore /\ channel' = Tail(channel)
     ELSE \/ /\ wire' = Append(wire, TwoStepSync)
             /\ channel' = StampEgress(TwoStepSync, Tail(channel))
             /\ sync' = NextOf(sync)
             /\ syncs' = syncs + 1
             /\ UNCHANGED <<role, announce, qualify, session>>
          \/ FaultDetected /\ channel' = Tail(channel)
  /\ UNCHANGED entries

\* Seeded fault: the FollowUp takes the sequence id of the cycle, which has moved on.
SendFollowUpNextId ==
  /\ Takes("Timestamp")
  /\ channel' = Tail(channel)
  /\ IF role # "Master" THEN Ignore
     ELSE /\ wire' = Append(wire, [type |-> "FollowUp", seq |-> sync.seq,
                                   ex |-> Head(channel).ex])
          /\ UNCHANGED <<role, announce, sync, qualify, syncs, session>>
  /\ UNCHANGED entries

\* Seeded fault: a timestamp is kept by its id alone, and taken for that of the Sync
\* which has the id in the present term.
SendFollowUpOfTerm ==
  /\ Takes("Timestamp")
  /\ channel' = Tail(channel)
  /\ IF role # "Master" THEN Ignore
     ELSE /\ wire' = Append(wire, [FollowUp(Head(channel)) EXCEPT !.ex = session + Head(channel).seq])
          /\ UNCHANGED <<role, announce, sync, qualify, syncs, session>>
  /\ UNCHANGED entries

\* Seeded fault: the timestamp of a Sync is taken from the channel and ignored.
SendFollowUpIgnored ==
  /\ Takes("Timestamp")
  /\ channel' = Tail(channel)
  /\ Ignore
  /\ UNCHANGED entries

\* Timestamp of a two-step Sync: send_follow_up
SendFollowUp ==
  /\ Takes("Timestamp")
  /\ channel' = Tail(channel)
  /\ IF role # "Master" THEN Ignore
     ELSE \/ /\ wire' = Append(wire, FollowUp(Head(channel)))
             /\ UNCHANGED <<role, announce, sync, qualify, syncs, session>>
          \/ FaultDetected
  /\ UNCHANGED entries

\* A DelayReq arrives: process_delay_request answers it with its own ids.
ProcessDelayRequest(q) ==
  /\ role = "Master" /\ Len(Sent("DelayResp")) < MaxAnswers
  /\ \/ /\ wire' = Append(wire, Response(q))
        /\ UNCHANGED <<role, announce, sync, qualify, syncs, session>>
     \/ FaultDetected
  /\ UNCHANGED <<channel, entries>>

\* QualificationTimeout: PreMaster becomes Master, other states ignore it.
Qualified ==
  /\ Takes("QualificationTimeout")
  /\ channel' = Tail(channel)
  /\ IF role = "PreMaster" THEN EnterMaster /\ UNCHANGED wire ELSE Ignore
  /\ UNCHANGED entries

\* A state decision event: recommended_master, or a recommendation that leaves.
ApplyDecision ==
  /\ Takes("Recommend")
  /\ channel' = Tail(channel)
  /\ IF role = "Faulty" THEN Ignore
     ELSE Leave(Head(channel).next) /\ UNCHANGED wire
  /\ UNCHANGED entries

\* Listening, Uncalibrated, Slave and Passive become Master when the announce
\* receipt timeout runs out: seconds of silence, in which the port handles what
\* was in its channel.
ReceiptTimeout ==
  /\ role = "Other" /\ channel = <<>> /\ entries < MaxEntries
  /\ EnterMaster
  /\ entries' = entries + 1
  /\ UNCHANGED <<channel, wire>>

----------------------------------------------------------------------------
(* The host *)

Decide(next) ==
  /\ entries < MaxEntries
  /\ entries' = entries + 1
  /\ channel' = Append(channel, [type |-> "Recommend", next |-> next])
  /\ Ignore

ExpireAnnounce ==
  /\ announce.armed /\ Len(Sent("Announce")) + Due("AnnounceSendTimeout") < MaxAnnounce
  /\ announce' = [announce EXCEPT !.armed = FALSE]
  /\ channel' = Append(channel, [type |-> "AnnounceSendTimeout"])
  /\ UNCHANGED <<role, sync, qualify, wire, syncs, session, entries>>

ExpireSync ==
  /\ sync.armed /\ syncs + Due("SyncTimeout") < MaxSync
  /\ sync' = [sync EXCEPT !.armed = FALSE]
  /\ channel' = Append(channel, [type |-> "SyncTimeout"])
  /\ UNCHANGED <<role, announce, qualify, wire, syncs, session, entries>>

ExpireQualification ==
  /\ qualify
  /\ qualify' = FALSE
  /\ channel' = Append(channel, [type |-> "QualificationTimeout"])
  /\ UNCHANGED <<role, announce, sync, wire, syncs, session, entries>>

Init ==
  /\ role = "Other"
  /\ announce = Idle /\ sync = Idle /\ qualify = FALSE
  /\ channel = <<>> /\ wire = <<>>
  /\ syncs = 0 /\ session = 0 /\ entries = 0

Handle ==
  \/ SendAnnounce
  \/ SendSync
  \/ SendFollowUp
  \/ Qualified
  \/ ApplyDecision

Expire == ExpireAnnounce \/ ExpireSync \/ ExpireQualification

Next ==
  \/ Handle
  \/ Expire
  \/ ReceiptTimeout
  \/ \E next \in {"PreMaster", "Other"} : Decide(next)
  \/ \E q \in Requests : ProcessDelayRequest(q)

Spec == Init /\ [][Next]_vars

\* The event loop of the port takes every message of its channel.
FairSpec == Spec /\ WF_vars(Handle)

----------------------------------------------------------------------------
(* Properties *)

Waiting(type) == \E i \in DOMAIN channel : channel[i].type = type

\* A port in Master goes on sending: each cycle's timeout is running, or has left
\* its message in the channel (AnnounceCycle::next, SyncCycle::next).
CyclesContinue ==
  role = "Master" => /\ announce.armed \/ Waiting("AnnounceSendTimeout")
                     /\ sync.armed \/ Waiting("SyncTimeout")

\* On the wire, a FollowUp comes after the Sync whose egress time it carries, has
\* its sequence id, and is the only one to do so, even when the port left Master
\* and came back with timestamps still in the channel (send_follow_up).
FollowsItsSync ==
  \A i \in DOMAIN wire :
    wire[i].type = "FollowUp" =>
      /\ \E j \in 1..(i - 1) : wire[j] = [wire[i] EXCEPT !.type = "Sync"]
      /\ \A j \in 1..(i - 1) : wire[j] # wire[i]

Followed(ex) == \E i \in DOMAIN wire : wire[i].type = "FollowUp" /\ wire[i].ex = ex

\* A Sync is followed up, unless the port leaves Master (send_follow_up on
\* SystemMessage::Timestamp).
SyncFollowedUp ==
  \A e \in 0..(MaxSync - 1) :
    (syncs > e /\ session <= e /\ role = "Master") ~> (Followed(e) \/ role # "Master")

----------------------------------------------------------------------------
(* What the documentation says and the code does not do: this fails. *)

\* A FollowUp follows the last Sync that had its sequence id, so that a receiver of
\* all messages in order never pairs it with another one (SyncCycle::new).
FollowsLastSync ==
  \A i, j \in DOMAIN wire :
    /\ wire[i].type = "FollowUp"
    /\ j < i /\ wire[j].type = "Sync" /\ wire[j].seq = wire[i].seq
    => \E k \in j..(i - 1) : wire[k] = [wire[i] EXCEPT !.type = "Sync"]
=============================================================================
