----------------------------- MODULE MCPtpClock -----------------------------
(***************************************************************************)
(* Instances of PtpClock for TLC.                                          *)
(***************************************************************************)
EXTENDS PtpClock

MCDS(identity, priority1, class, steps) ==
  [identity |-> identity, priority1 |-> priority1, class |-> class,
   priority2 |-> 0, steps |-> steps]

\* The local clock: class 248 follows a better master, class 6 never does.
MCLocal == MCDS(5, 2, 248, 0)
MCAuthoritative == MCDS(5, 2, 6, 0)

\* A master that beats the local clock.
MCBetter == [ds |-> MCDS(9, 1, 6, 0), source |-> [clock |-> 9, port |-> 1]]
\* The same grandmaster one step away, behind a boundary clock.
MCRelayed == [ds |-> MCDS(9, 1, 6, 1), source |-> [clock |-> 3, port |-> 2]]
\* A master the local clock beats.
MCWorse == [ds |-> MCDS(7, 3, 248, 0), source |-> [clock |-> 7, port |-> 1]]

MCOneMaster == {MCBetter}
MCMasters == {MCBetter, MCRelayed}
MCBetterAndWorse == {MCBetter, MCWorse}
=============================================================================
