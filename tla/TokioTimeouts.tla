--------------------------- MODULE TokioTimeouts ---------------------------
(***************************************************************************)
(* The timeouts of the daemon (node.rs): each handle keeps its message and *)
(* the join handle of the task that sleeps for it; the task carries the    *)
(* message it was spawned with and sends it to the channel when it wakes.  *)
(* They implement Timeouts.                                                *)
(***************************************************************************)
EXTENDS Naturals, Sequences

CONSTANTS Handles, Messages, None,
          MaxInbox,   \* bound on the messages in the channel
          MaxTasks    \* bound on the tasks ever spawned

ASSUME TokioAssumption ==
  None \notin Messages /\ None \notin Nat /\ MaxInbox \in Nat /\ MaxTasks \in Nat

VARIABLES
  msg,       \* TokioTimeoutInner::msg of each handle, None where there is no handle
  join,      \* TokioTimeoutInner::handle: the id of the task, or None
  tasks,     \* the tasks that sleep: their message, None if there is no such task
  spawned,   \* number of tasks spawned; ids are given out in order
  channel    \* the mpsc channel to the port

tokioVars == <<msg, join, tasks, spawned, channel>>

Room == Len(channel) < MaxInbox

Live(h) == msg[h] # None

Ids == 1..MaxTasks

\* JoinHandle::abort of the task of handle h, if there is one.  A task that has
\* sent its message is no longer there; one that has not will not.
Aborted(h) == [i \in Ids |-> IF i = join[h] THEN None ELSE tasks[i]]

\* TokioTimeout::reset: abort, and spawn a task with the message as it is now.
Reset(h, m) ==
  /\ spawned < MaxTasks
  /\ spawned' = spawned + 1
  /\ tasks' = [Aborted(h) EXCEPT ![spawned + 1] = m]
  /\ join' = [join EXCEPT ![h] = spawned + 1]
  /\ UNCHANGED channel

\* TokioTimerHost::timeout
Create(h, m) ==
  /\ ~Live(h)
  /\ msg' = [msg EXCEPT ![h] = m]
  /\ UNCHANGED <<join, tasks, spawned, channel>>

Restart(h) == Live(h) /\ Reset(h, msg[h]) /\ UNCHANGED msg

\* Seeded fault: the message is replaced after the task was spawned.
RestartThenMessage(h, m) ==
  /\ Live(h)
  /\ msg' = [msg EXCEPT ![h] = m]
  /\ Reset(h, msg[h])

\* restart_with_message: with a delay it resets, without one it sends at once and
\* leaves the task alone.
RestartWithMessage(h, m) ==
  /\ Live(h)
  /\ msg' = [msg EXCEPT ![h] = m]
  /\ Reset(h, m)

SendAtOnce(h, m) ==
  /\ Live(h) /\ Room
  /\ msg' = [msg EXCEPT ![h] = m]
  /\ channel' = Append(channel, m)
  /\ UNCHANGED <<join, tasks, spawned>>

\* Seeded fault: dropping the handle does not cancel its task.
DropDetaches(h) ==
  /\ Live(h)
  /\ msg' = [msg EXCEPT ![h] = None]
  /\ join' = [join EXCEPT ![h] = None]
  /\ UNCHANGED <<tasks, spawned, channel>>

\* Drop: cancel
Drop(h) ==
  /\ Live(h)
  /\ msg' = [msg EXCEPT ![h] = None]
  /\ tasks' = Aborted(h)
  /\ join' = [join EXCEPT ![h] = None]
  /\ UNCHANGED <<spawned, channel>>

\* The sleep of a task is over: it sends its message and ends.
Wake(i) ==
  /\ tasks[i] # None /\ Room
  /\ channel' = Append(channel, tasks[i])
  /\ tasks' = [tasks EXCEPT ![i] = None]
  /\ UNCHANGED <<msg, join, spawned>>

\* The event loop takes the next message.
Take ==
  /\ channel # <<>>
  /\ channel' = Tail(channel)
  /\ UNCHANGED <<msg, join, tasks, spawned>>

TokioInit ==
  /\ msg = [h \in Handles |-> None]
  /\ join = [h \in Handles |-> None]
  /\ tasks = [i \in Ids |-> None]
  /\ spawned = 0
  /\ channel = <<>>

TokioNext ==
  \/ \E h \in Handles :
       \/ Restart(h)
       \/ Drop(h)
       \/ \E m \in Messages : Create(h, m) \/ RestartWithMessage(h, m) \/ SendAtOnce(h, m)
  \/ \E i \in Ids : Wake(i)
  \/ Take

TokioSpec == TokioInit /\ [][TokioNext]_tokioVars

\* The runtime wakes every task whose sleep is over, and runs the event loop.
TokioFairSpec == TokioSpec /\ WF_tokioVars(Take) /\ \A i \in Ids : WF_tokioVars(Wake(i))

----------------------------------------------------------------------------

\* What is scheduled for a handle is the message of the task that it joins.
Scheduled == [h \in Handles |-> IF join[h] = None THEN None ELSE tasks[join[h]]]

Promise == INSTANCE Timeouts WITH scheduled <- Scheduled, inbox <- channel

\* The timeouts of the daemon are what the core expects of a host: every step, and
\* what is bound to happen in the end, is one that Timeouts allows
\* (TokioTimeout, impl Timeout and Drop).
KeepsPromise == Promise!FairSpec

\* Every task that sleeps is joined by exactly one handle, which exists: nothing
\* is left to send a message that nobody can cancel (TokioTimeout::reset).
NoOrphanTask ==
  \A i \in Ids : tasks[i] # None =>
    \E h \in Handles : Live(h) /\ join[h] = i /\ \A g \in Handles \ {h} : join[g] # i
=============================================================================
