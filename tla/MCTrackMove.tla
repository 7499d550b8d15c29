----------------------------- MODULE MCTrackMove -----------------------------
(* Instances of TrackMove for TLC, with one caller: both programs          *)
(* (MCTrackMove.cfg), and a stop of the visual one (MCTrackMoveStop.cfg).  *)
EXTENDS TrackMove
=============================================================================
