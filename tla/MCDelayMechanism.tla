-------------------------- MODULE MCDelayMechanism --------------------------
(***************************************************************************)
(* Instances of DelayMechanism for TLC.  The masters are model values and  *)
(* interchangeable.                                                        *)
(***************************************************************************)
EXTENDS DelayMechanism, TLC

MCSymmetry == Permutations(Masters)
=============================================================================
