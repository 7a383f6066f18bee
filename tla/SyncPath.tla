------------------------------ MODULE SyncPath ------------------------------
(***************************************************************************)
(* A port in Master and a port that measures its offset from it, joined by *)
(* a network that may lose, duplicate and reorder: MasterPort composed     *)
(* with DelayMechanism, in place of the free master of the latter and of   *)
(* the free requests of the former.                                        *)
(***************************************************************************)
EXTENDS MasterPort

CONSTANTS Master,       \* port identity of the master
          None,         \* Option::None
          MaxReq,       \* bound on the DelayReqs
          MaxHeard      \* bound on entries where the slave takes part

ASSUME PathAssumption == MaxHeard \in Nat

VARIABLES sRole, sParent, sMech, sArmed, sChannel, net, sSample, sBase, sReqs

sVars == <<sRole, sParent, sMech, sArmed, sChannel, sSample, sBase, sReqs>>
pathVars == <<vars, sVars, net>>

S == INSTANCE DelayMechanism
       WITH Masters <- {Master}, Others <- FALSE, MaxClockSteps <- 0, MaxSessions <- 0,
            role <- sRole, parent <- sParent, mech <- sMech, armed <- sArmed,
            channel <- sChannel, sample <- sSample, base <- sBase, reqs <- sReqs,
            nextSync <- [m \in {Master} |-> 0], syncs <- 0, sessions <- 0

\* What the slave's port receives of a message of the master.
Datagrams(messages) ==
  {[type |-> IF m.type = "Sync" THEN "TwoStepSync" ELSE m.type,
    from |-> Master, seq |-> m.seq, ex |-> m.ex] :
     m \in {messages[i] : i \in DOMAIN messages}}

\* The slave has not taken a step yet.
SlaveAtStart == sArmed /\ sReqs = 0 /\ sMech = S!NewMechanism

\* Up to MaxHeard decisions and timeouts the two ports go together, and beyond it,
\* up to MaxEntries, the master goes on alone.
MasterStep ==
  /\ \/ Handle
     \/ Expire
     \/ /\ SlaveAtStart \/ entries < MaxHeard
        /\ ReceiptTimeout \/ \E next \in {"PreMaster", "Other"} : Decide(next)
     \/ \E q \in net : q.type = "DelayReq" /\ ProcessDelayRequest(q)
  /\ net' = net \cup Datagrams(wire')
  /\ UNCHANGED sVars

SlaveStep ==
  /\ entries <= MaxHeard
  /\ S!Receives \/ S!Handles \/ S!Expire
  /\ UNCHANGED vars

PathInit == Init /\ S!Init

PathNext == MasterStep \/ SlaveStep

\* The event loop of the master's port takes every message of its channel.
PathSpec == PathInit /\ [][PathNext]_pathVars /\ WF_vars(Handle)

\* Until the master leaves Master and comes back, or runs out of sequence ids, the slave
\* pairs a FollowUp only with the Sync whose egress time it carries; and until the slave
\* runs out of them it pairs an answer only with the DelayReq whose arrival it reports,
\* however late and however often they arrive (SequenceId::next, send_follow_up,
\* process_delay_request, and the offsets of FollowUpMessage and DelayResponseMessage).
PathPairs ==
  /\ session = 0 /\ syncs <= SeqIds => S!SameSyncExchange
  /\ sReqs <= SeqIds => S!SameDelayExchange

----------------------------------------------------------------------------
(* What the documentation says and the code does not do: this fails. *)

\* The slave pairs a FollowUp only with its own Sync in all terms of the master
\* (FollowUpMessage::master_slave_offset).
PathPairsAlways == S!SameSyncExchange
=============================================================================
