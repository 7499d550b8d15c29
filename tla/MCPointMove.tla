---------------------------- MODULE MCPointMove ----------------------------
(* Instances of PointMove for TLC: two callers that send whatever they     *)
(* like (MCPointMove.cfg), and one (MCPointMoveLost.cfg).                  *)
EXTENDS PointMove
=============================================================================
