-------------------------- MODULE MCForeignRecords --------------------------
(***************************************************************************)
(* Instances of ForeignRecords for TLC: a grandmaster heard directly and   *)
(* through a boundary clock, and a second one that changes its priority.   *)
(***************************************************************************)
EXTENDS ForeignRecords

MCOffer(clock, identity, priority1, class, steps) ==
  [source |-> [clock |-> clock, port |-> 1], interval |-> 0,
   ds |-> [identity |-> identity, priority1 |-> priority1, class |-> class,
           priority2 |-> 0, steps |-> steps]]

MCReceiver == [clock |-> 5, port |-> 1]

MCDirect == MCOffer(9, 9, 2, 6, 0)
MCDegraded == MCOffer(9, 9, 2, 7, 0)
MCRelayed == MCOffer(3, 9, 2, 6, 1)
MCOther == MCOffer(7, 7, 3, 6, 0)
\* It announces twice as often once promoted, so the window shrinks.
MCPromoted == [MCOffer(7, 7, 1, 6, 0) EXCEPT !.interval = -1]
\* The interval that means "not specified", and one just out of range.
MCUnspecified == [MCDirect EXCEPT !.interval = 127]
MCTooShort == [MCRelayed EXCEPT !.interval = -21]

MCOffers ==
  {MCDirect, MCDegraded, MCRelayed, MCOther, MCPromoted, MCUnspecified, MCTooShort}
=============================================================================
