------------------------------- MODULE Drive -------------------------------
(***************************************************************************)
(* From /cmd_vel to the wheels: the subscription of the wheel controller   *)
(* (turn_wheels_controller) on a spinner thread, its update() and the      *)
(* hardware node's write(), one after the other on the main thread.        *)
(* Several nodes publish on /cmd_vel; module Teleop is one of them, the    *)
(* motion servers the others.  A velocity is abstracted to the parts of    *)
(* the Twist that are not zero, a wheel speed to whether it is zero.  The  *)
(* kinematics and the filter are in a library outside the repository: zero *)
(* in, zero out.                                                           *)
(***************************************************************************)
EXTENDS Integers, Sequences

CONSTANTS
  Publishers,  \* nodes that publish on /cmd_vel
  QueueSize,   \* words the subscription keeps (10 in the code)
  Window,      \* inputs the filter takes the mean of (100 in the code)
  DriveModes   \* the values of status_ that occur

ASSUME QueueSizeAssumption == QueueSize \in Nat \ {0}
ASSUME WindowAssumption == Window \in Nat \ {0}
ASSUME DriveModesAssumption ==
  DriveModes \subseteq {"stop", "agv_zero", "grab_zero", "both", "agv", "grab"}

VARIABLES
  queue,    \* words received and not yet handled
  moving,   \* publishers whose last word was not zero
  heard,    \* history: some word has been published
  msg,      \* the word the callback stores, at label store
  store,    \* where cb_target_pose is
  xyw_cmd,  \* xyw_cmd_
  lag,      \* updates until the filter has forgotten the last nonzero input
  command,  \* some drive wheel's velocity command is not zero
  dac,      \* some drive wheel's output is not zero
  status,   \* status_ of the hardware node
  cycle     \* where the main loop is: update, write, or in a case of write's switch

driveVars == <<queue, moving, heard, msg, store, xyw_cmd, lag, command, dac, status, cycle>>

TwistParts == {"linear", "angular"}
Homing == {"agv_zero", "grab_zero"}

DriveTypeOK ==
  /\ queue \in Seq(SUBSET TwistParts) /\ Len(queue) <= QueueSize
  /\ moving \subseteq Publishers /\ heard \in BOOLEAN
  /\ msg \subseteq TwistParts
  /\ store \in {"idle", "linear", "angular"}
  /\ xyw_cmd \subseteq TwistParts
  /\ lag \in 0..Window
  /\ command \in BOOLEAN /\ dac \in BOOLEAN
  /\ status \in DriveModes \cup {"stop"}
  /\ cycle \in {"update", "write"} \cup DriveModes \cup {"stop"}

\* Nothing initialises xyw_cmd_.
DriveInit ==
  /\ queue = <<>> /\ moving = {} /\ heard = FALSE
  /\ msg = {} /\ store = "idle" /\ xyw_cmd \in SUBSET TwistParts
  /\ lag = 0 /\ command = FALSE /\ dac = FALSE
  /\ status = "stop" /\ cycle = "update"

-----------------------------------------------------------------------------
\* The publishers and the subscription

\* Mutant of Enqueue: the queue has no bound.
EnqueueUnbounded(q, w) == Append(q, w)

\* Mutant of Enqueue: a full queue refuses the new word.
EnqueueNewestLost(q, w) == IF Len(q) = QueueSize THEN q ELSE Append(q, w)

\* A full queue drops its oldest word.
Enqueue(q, w) == Append(IF Len(q) = QueueSize THEN Tail(q) ELSE q, w)

Publish(p, w) ==
  /\ queue' = Enqueue(queue, w)
  /\ moving' = IF w = {} THEN moving \ {p} ELSE moving \cup {p}
  /\ heard' = TRUE
  /\ UNCHANGED <<msg, store, xyw_cmd, lag, command, dac, status, cycle>>

Take ==
  /\ store = "idle" /\ queue # <<>>
  /\ msg' = Head(queue)
  /\ queue' = Tail(queue)
  /\ store' = "linear"
  /\ UNCHANGED <<moving, heard, xyw_cmd, lag, command, dac, status, cycle>>

\* cb_target_pose assigns the elements of xyw_cmd_ one after the other.
Store(part, to) ==
  /\ store = part
  /\ xyw_cmd' = (xyw_cmd \ {part}) \cup ({part} \cap msg)
  /\ store' = to
  /\ UNCHANGED <<queue, moving, heard, msg, lag, command, dac, status, cycle>>

StoreLinear == Store("linear", "angular")
StoreAngular == Store("angular", "idle")

Subscriber == Take \/ StoreLinear \/ StoreAngular

-----------------------------------------------------------------------------
\* The main loop

\* What update() may read of xyw_cmd_ while the callback stores msg in it.
Readable ==
  IF store = "idle" THEN {xyw_cmd}
  ELSE {w \in SUBSET TwistParts : xyw_cmd \cap msg \subseteq w /\ w \subseteq xyw_cmd \cup msg}

\* Mutant of Update: the filter's output is not written while the input is zero.
UpdateOnlyWhenCommanded ==
  /\ cycle = "update"
  /\ \E w \in Readable :
       /\ lag' = IF w # {} THEN Window ELSE IF lag > 0 THEN lag - 1 ELSE 0
       /\ command' \in IF w # {} THEN BOOLEAN ELSE {command}
  /\ cycle' = "write"
  /\ UNCHANGED <<queue, moving, heard, msg, store, xyw_cmd, dac, status>>

Update ==
  /\ cycle = "update"
  /\ \E w \in Readable :
       lag' = IF w # {} THEN Window ELSE IF lag > 0 THEN lag - 1 ELSE 0
  /\ command' \in IF lag' > 0 THEN BOOLEAN ELSE {FALSE}
  /\ cycle' = "write"
  /\ UNCHANGED <<queue, moving, heard, msg, store, xyw_cmd, dac, status>>

WriteSwitch ==
  /\ cycle = "write"
  /\ cycle' = status
  /\ UNCHANGED <<queue, moving, heard, msg, store, xyw_cmd, lag, command, dac, status>>

\* The drive wheels only; what stop mode cancels besides is in AgvHw.
WriteCase ==
  /\ cycle \notin {"update", "write"}
  /\ dac' = IF cycle \in {"stop", "grab"} THEN FALSE
            ELSE IF cycle \in {"both", "agv"} THEN command ELSE dac
  /\ cycle' = "update"
  /\ UNCHANGED <<queue, moving, heard, msg, store, xyw_cmd, lag, command, status>>

MainLoop == Update \/ WriteSwitch \/ WriteCase

\* A call of /robot_control stores its status.
SetStatus ==
  /\ status' \in DriveModes
  /\ UNCHANGED <<queue, moving, heard, msg, store, xyw_cmd, lag, command, dac, cycle>>

DriveNext ==
  \/ Subscriber \/ MainLoop \/ SetStatus
  \/ \E p \in Publishers, w \in SUBSET TwistParts : Publish(p, w)

DriveSpec == DriveInit /\ [][DriveNext]_driveVars

FairDriveSpec == DriveSpec /\ WF_driveVars(Subscriber) /\ WF_driveVars(MainLoop)

-----------------------------------------------------------------------------
\* The word that xyw_cmd_ will hold when everything received has been handled.
Newest ==
  IF queue # <<>> THEN queue[Len(queue)]
  ELSE IF store = "idle" THEN xyw_cmd
  ELSE IF store = "linear" THEN msg
  ELSE (xyw_cmd \cap {"linear"}) \cup (msg \cap {"angular"})

\* When some word has come and every publisher's last word is zero, so is what the
\* controller will hold in the end, also when the publishers overran the queue.
LastWordCounts == (heard /\ moving = {}) => Newest = {}

\* When every publisher's last word is zero and the status is not one of the
\* homing modes, which leave the outputs as they are, the wheels come to rest for
\* good: no word that is dropped, half stored or still in the filter's window
\* outlives the zeros.
ComesToRest == <>[](heard /\ moving = {} /\ status \notin Homing) => <>[]~dac
=============================================================================
