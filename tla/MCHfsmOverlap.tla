---------------------------- MODULE MCHfsmOverlap ----------------------------
(* Instance of HfsmOverlap for TLC: all buttons, failing services.         *)
EXTENDS HfsmOverlap
=============================================================================
