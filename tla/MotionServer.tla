---------------------------- MODULE MotionServer ----------------------------
(***************************************************************************)
(* What every motion server of the robot (visual point move, AR move, the  *)
(* /GP_nav planner) promises the task state machine.  The service comments *)
(* put it in one line: in answer to a query, success = true means "you may *)
(* send me a command", false means "the program is running"                *)
(* (agv_msg/srv/visual_point_move.srv, GP_nav.srv).  The state machine     *)
(* reads more into it: a free server has brought the robot to a halt.      *)
(***************************************************************************)

VARIABLES
  free,      \* the answer a query would get
  moving     \* the last velocity sent to the wheels is not zero

vars == <<free, moving>>

Init == free \in BOOLEAN /\ moving = FALSE

\* A command (or a stop) is taken: the server is busy with it.
Accept == free' = FALSE /\ UNCHANGED moving

\* Only a busy server sends the wheels a velocity.
Drive == ~free /\ moving' = TRUE /\ UNCHANGED free

Halt == moving' = FALSE /\ UNCHANGED free

\* The server becomes free only once the robot stands still.
Release == ~moving /\ free' = TRUE /\ UNCHANGED moving

Next == Accept \/ Drive \/ Halt \/ Release

Spec == Init /\ [][Next]_vars

\* A server that answers "send me a command" has halted the robot.
FreeMeansStill == free => ~moving
=============================================================================
