----------------------------- MODULE HfsmOverlap -----------------------------
(***************************************************************************)
(* Hfsm with two history variables for what the code has nothing against:  *)
(* that both threads are inside TransForState at once, and that a button   *)
(* leaves Adjust for another state than Idle while run() waits for the     *)
(* point-move server.  What is lost, is lost only then.                    *)
(***************************************************************************)
EXTENDS Hfsm

VARIABLES
  overlapped,   \* two calls of TransForState overlapped
  left          \* the wait for a relative motion saw another state

Overlap == \A t \in Threads : pc[t] \in TransPcs
Leave == pc["main"] \in {"m_wait", "m_end"} /\ name \notin {"Adjust", "Idle"}

OverlapInit == Init /\ overlapped = FALSE /\ left = FALSE
OverlapNext ==
  /\ Next
  /\ overlapped' = (overlapped \/ Overlap')
  /\ left' = (left \/ Leave')
OverlapSpec == OverlapInit /\ [][OverlapNext]_<<vars, overlapped, left>>

\* Unless two calls of TransForState overlapped, the detector works for the
\* current state, so a photo of the search never passes for one of Adjust.
DetectorFollowsUnlessOverlap == overlapped \/ DetectorFollowsState

\* AdjustState.cpp:204 "keep asking until the motion has ended": a relative
\* motion runs unattended only after the state was switched to one that the
\* loop leaves without a stop, or after the server failed to answer.
MoveAttendedUnlessLeft == overlapped \/ left \/ MoveAttended
=============================================================================
