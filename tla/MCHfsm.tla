------------------------------- MODULE MCHfsm -------------------------------
(* Instances of Hfsm for TLC; the .cfg files choose which buttons are      *)
(* pressed and which services fail.                                        *)
EXTENDS Hfsm
=============================================================================
