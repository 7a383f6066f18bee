------------------------------ MODULE Timeouts ------------------------------
(***************************************************************************)
(* What the core relies on in the timeouts of its host (port.rs, Timeout   *)
(* and TimerHost): a handle is idle until it is restarted; a restart       *)
(* replaces what was scheduled; what is scheduled is delivered once, and   *)
(* not at all when the handle is dropped first; a message sent with no     *)
(* delay is delivered at once.                                             *)
(***************************************************************************)
EXTENDS Naturals, Sequences

CONSTANTS Handles, Messages, None,
          MaxInbox    \* bound on the messages delivered and not yet taken

VARIABLES
  msg,        \* the message of each handle, None if it does not exist
  scheduled,  \* the message that is to be delivered for each handle, or None
  inbox       \* the messages delivered, in order

vars == <<msg, scheduled, inbox>>

Room == Len(inbox) < MaxInbox

Live(h) == msg[h] # None

\* TimerHost::timeout: "Creating a timeout must not schedule it".
Create(h, m) ==
  /\ ~Live(h)
  /\ msg' = [msg EXCEPT ![h] = m]
  /\ UNCHANGED <<scheduled, inbox>>

\* Timeout::restart
Restart(h) ==
  /\ Live(h)
  /\ scheduled' = [scheduled EXCEPT ![h] = msg[h]]
  /\ UNCHANGED <<msg, inbox>>

\* Timeout::restart_with_message with a delay
RestartWithMessage(h, m) ==
  /\ Live(h)
  /\ msg' = [msg EXCEPT ![h] = m]
  /\ scheduled' = [scheduled EXCEPT ![h] = m]
  /\ UNCHANGED inbox

\* Timeout::restart_with_message with no delay: "For immediate delivery"
Deliver(h, m) ==
  /\ Live(h) /\ Room
  /\ msg' = [msg EXCEPT ![h] = m]
  /\ inbox' = Append(inbox, m)
  /\ UNCHANGED scheduled

Fire(h) ==
  /\ scheduled[h] # None /\ Room
  /\ inbox' = Append(inbox, scheduled[h])
  /\ scheduled' = [scheduled EXCEPT ![h] = None]
  /\ UNCHANGED msg

Drop(h) ==
  /\ Live(h)
  /\ msg' = [msg EXCEPT ![h] = None]
  /\ scheduled' = [scheduled EXCEPT ![h] = None]
  /\ UNCHANGED inbox

\* The port takes the next message.
Take ==
  /\ inbox # <<>>
  /\ inbox' = Tail(inbox)
  /\ UNCHANGED <<msg, scheduled>>

Init ==
  /\ msg = [h \in Handles |-> None]
  /\ scheduled = [h \in Handles |-> None]
  /\ inbox = <<>>

Next ==
  \/ \E h \in Handles :
       \/ Restart(h)
       \/ Fire(h)
       \/ Drop(h)
       \/ \E m \in Messages : Create(h, m) \/ RestartWithMessage(h, m) \/ Deliver(h, m)
  \/ Take

Spec == Init /\ [][Next]_vars

FairSpec == Spec /\ WF_vars(Take) /\ \A h \in Handles : WF_vars(Fire(h))
=============================================================================
