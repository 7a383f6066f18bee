------------------------------ MODULE MCServo ------------------------------
(***************************************************************************)
(* Instances of Servo for TLC: 20 units to a second, on which the local    *)
(* clock gains or loses up to 2.                                           *)
(***************************************************************************)
EXTENDS Servo

MCDriftMin == -4
MCSlow == -2
=============================================================================
