------------------------------ MODULE MCAgvHw ------------------------------
(***************************************************************************)
(* Instances of AgvHw for TLC.  Two callers with every mode are too much   *)
(* for it: MCSpec bounds who calls what.  The modes that the operator and  *)
(* the adjusting task send at the same time come from both callers at any  *)
(* time, homing and reset from a caller who is the only one so far.  While *)
(* one of these is under way the other caller may stop the robot.          *)
(***************************************************************************)
EXTENDS AgvHw

Zeroing == {"agv_zero", "grab_zero"}

\* Nothing is left of a homing or a reset.
Untouched ==
  /\ \A c \in Clients : call[c].mode \notin Zeroing
  /\ dac \in {{}, Drives} /\ enabled /\ datum = "none"
  /\ \A a \in {"open", "lift"} : axis[a] \notin {"seeking", "limit"}

OnlyCaller(c) == \A d \in Clients \ {c} : call[d] = NoRequest
UnderWay == \E c \in Clients : pc[c] # "idle" /\ call[c].mode \in Zeroing

MCRequest(c) ==
  /\ Request(c)
  /\ \/ OnlyCaller(c)
     \/ UnderWay /\ status' = "stop" /\ call[c] = NoRequest
     \/ Untouched /\ status' \notin Zeroing

MCNext ==
  \/ Loop \/ DatumArrives
  \/ \E a \in {"open", "lift"} : AxisArrives(a)
  \/ \E c \in Clients : MCRequest(c) \/ Serve(c)

MCSpec == Init /\ [][MCNext]_vars /\ WF_vars(Loop) /\ \A c \in Clients : Served(c)
=============================================================================
