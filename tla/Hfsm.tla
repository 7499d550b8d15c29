-------------------------------- MODULE Hfsm --------------------------------
(***************************************************************************)
(* The task state machine (hfsm_ros) after its start-up: the main loop of  *)
(* main.cpp and the spinner thread that runs buttonCallback.  Both call    *)
(* TransForState and SendEvent on one Context, without a lock; a step is   *)
(* what happens between two accesses to what the other thread uses.        *)
(* The planner behind /GP_nav, the point-move server and the hardware node *)
(* appear by what their services answer.                                   *)
(***************************************************************************)
EXTENDS Naturals, Sequences

CONSTANTS
  Buttons,     \* the buttons the operator may press
  Faults,      \* the services that may fail: "hw", "nav", "camera",
               \* "detector", "move"
  Rounds       \* look-and-approach rounds of AdjustState::run (3 in the code)

States == {"Idle", "Telecontrol", "Auto", "Adjust", "Gohome"}
Threads == {"main", "button"}

ASSUME ButtonsAssumption ==
  Buttons \subseteq {"next", "goback", "stop", "unlock", "grab_reset", "grip", "task"}
ASSUME FaultsAssumption == Faults \subseteq {"hw", "nav", "camera", "detector", "move"}

ASSUME RoundsAssumption == Rounds \in Nat

\* AdjustState::run as the operations it performs.
Round == <<"grip", "feed", "move">>
Finish == <<"grip", "check", "grip", "feed", "move", "lift", "grip", "move", "agv", "end">>
RunLen == 3 * Rounds + Len(Finish)
RunOps ==
  [i \in 1..RunLen |->
     IF i > 3 * Rounds THEN Finish[i - 3 * Rounds] ELSE Round[((i - 1) % 3) + 1]]

VARIABLES
  cur,         \* _cur_node_state
  name,        \* _cur_name
  dtype,       \* detector_type
  single,      \* single_flag
  objs,        \* object_list is not empty
  found,       \* detector_flag
  wired,       \* the states whose _event_func is set (with Idle's, camera_state_)
  way,         \* way_point of main()
  hw,          \* status of the last /robot_control call
  nav, move,   \* what the planner and the point-move server are doing
  pc,          \* where each thread is
  after,       \* where it goes after TransForState or an AutoState event
  target,      \* the argument of its TransForState
  op           \* where the main thread is in RunOps

flags == <<single, objs, found, wired, way>>
world == <<hw, nav, move>>
vars == <<cur, name, dtype, flags, world, pc, after, target, op>>

TransPcs == {"t_stop", "t_cur", "t_name", "t_start", "i_nav", "i_camera", "i_photo"}
GoPcs == {"go_hw", "go_goal", "go_wait", "n_stop", "n_wait"}
ButtonPcs == {"b_idle", "s_send", "s_hw", "u_hw", "r_hw", "g_hw", "k_go"}
RunPcs == {"op", "f_send", "f_photo", "f_check", "m_cmd", "m_wait", "m_end"}
MainPcs == {"loop", "send_go", "way_done", "send_task", "home_go", "home_idle"} \cup RunPcs

Returns == {"loop", "way_done", "home_go", "home_idle", "b_idle", "s_hw", "k_go"}

Servers == {"free", "busy", "stopping"}

\* TransForState and the AutoState events are for both threads, the other
\* labels belong to one of them.
Own(t) == IF t = "main" THEN MainPcs ELSE ButtonPcs
ControlOK ==
  /\ pc \in [Threads -> TransPcs \cup GoPcs \cup ButtonPcs \cup MainPcs]
  /\ after \in [Threads -> Returns]
  /\ \A t \in Threads : pc[t] \in TransPcs \cup GoPcs \cup Own(t) /\ after[t] \in Own(t)

TypeOK ==
  /\ cur \in States /\ name \in States
  /\ dtype \in {"detecting", "feedback", "sleep"}
  /\ single \in BOOLEAN /\ objs \in BOOLEAN /\ found \in BOOLEAN /\ way \in BOOLEAN
  /\ wired \subseteq {"Idle", "Auto", "Adjust"}
  /\ hw \in {"stop", "grab_zero", "agv", "grab"}
  /\ nav \in Servers /\ move \in Servers
  /\ ControlOK
  /\ target \in [Threads -> States]
  /\ op \in 1..RunLen

\* Start-up has ended in TransState("Idle"); its photo may have found the roll.
Init ==
  /\ cur = "Idle" /\ name = "Idle"
  /\ dtype = "detecting"
  /\ single = FALSE /\ way = TRUE
  /\ wired \in {{}, {"Idle"}}
  /\ objs \in {FALSE, wired # {}} /\ found \in {FALSE, objs}
  /\ hw = "grab_zero" /\ nav = "free" /\ move = "free"
  /\ pc = [t \in Threads |-> IF t = "main" THEN "loop" ELSE "b_idle"]
  /\ after = pc
  /\ target = [t \in Threads |-> "Idle"]
  /\ op = 1

\* Thread t goes from one label to the next.
At(t, label) == pc[t] = label
Goto(t, label) == pc' = [pc EXCEPT ![t] = label]
Call(t, label, return) ==
  Goto(t, label) /\ after' = [after EXCEPT ![t] = return]
Return(t) ==
  /\ Goto(t, after[t])
  /\ after' = [after EXCEPT ![t] = IF t = "main" THEN "loop" ELSE "b_idle"]
Trans(t, state, return) ==
  Call(t, "t_stop", return) /\ target' = [target EXCEPT ![t] = state]

\* A /robot_control call: status_ is set and the call succeeds, or it fails.
Robot(status, ok) ==
  \/ ok /\ hw' = status
  \/ ~ok /\ "hw" \in Faults /\ hw' \in {hw, status}

\* state = 0 of a motion server; nobody looks whether the call has succeeded
Halted(server) == IF server = "busy" THEN "stopping" ELSE server
StopNav == nav' = Halted(nav) \/ ("nav" \in Faults /\ UNCHANGED nav)
StopMove == move' = Halted(move) \/ ("move" \in Faults /\ UNCHANGED move)

\* What start() of a state makes of the detector; most leave it alone.
DetectorOf(state, before) ==
  IF state = "Idle" THEN "detecting" ELSE IF state = "Adjust" THEN "feedback" ELSE before

\* A state acts on the event it is sent, once its start() has set _event_func.
Hears(state) == cur = state /\ state \in wired

-----------------------------------------------------------------------------
\* Mutant of TransStop: stop() of Adjust does not put the detector to sleep.
TransStopIdleOnly(t) ==
  /\ At(t, "t_stop")
  /\ dtype' = IF cur = "Idle" THEN "sleep" ELSE dtype
  /\ Goto(t, "t_cur")
  /\ UNCHANGED <<cur, name, flags, world, after, target, op>>

\* Context::TransForState, four statements; stop() of Idle and Adjust puts the
\* detector to sleep.
TransStop(t) ==
  /\ At(t, "t_stop")
  /\ dtype' = IF cur \in {"Idle", "Adjust"} THEN "sleep" ELSE dtype
  /\ Goto(t, "t_cur")
  /\ UNCHANGED <<cur, name, flags, world, after, target, op>>

TransCur(t) ==
  /\ At(t, "t_cur")
  /\ cur' = target[t]
  /\ Goto(t, "t_name")
  /\ UNCHANGED <<name, dtype, flags, world, after, target, op>>

TransName(t) ==
  /\ At(t, "t_name")
  /\ name' = target[t]
  /\ target' = [target EXCEPT ![t] = "Idle"]
  /\ Goto(t, "t_start")
  /\ UNCHANGED <<cur, dtype, flags, world, after, op>>

\* start() of the state that is current by now.
TransStart(t) ==
  /\ At(t, "t_start")
  /\ dtype' = DetectorOf(cur, dtype)
  /\ single' = (single /\ cur # "Gohome")
  /\ found' = (found /\ cur # "Gohome")
  /\ wired' = wired \cup ({cur} \cap {"Auto", "Adjust"})
  /\ IF cur = "Idle" THEN Goto(t, "i_nav") /\ UNCHANGED after ELSE Return(t)
  /\ UNCHANGED <<cur, name, objs, way, world, target, op>>

\* IdleState::start stops the planner, ...
IdleStopsNav(t) ==
  /\ At(t, "i_nav")
  /\ StopNav
  /\ Goto(t, "i_camera")
  /\ UNCHANGED <<cur, name, dtype, flags, hw, move, after, target, op>>

\* ... gives the camera 10 ms to be there, and sends itself a photo event,
\* which reaches the state that is current then.
IdleCamera(t) ==
  /\ At(t, "i_camera")
  /\ \/ "camera" \in Faults /\ Return(t) /\ UNCHANGED wired
     \/ /\ wired' = wired \cup {"Idle"}
        /\ IF cur \in {"Idle", "Adjust"}
             THEN Goto(t, "i_photo") /\ UNCHANGED after
             ELSE Return(t)
  /\ UNCHANGED <<cur, name, dtype, single, objs, found, way, world, target, op>>

\* IdleState::DealEvent and yoloCallback: what a call of the detector may leave.
Photo ==
  \/ "detector" \in Faults /\ UNCHANGED <<single, objs, found>>
  \/ found' = FALSE /\ UNCHANGED <<single, objs>>
  \/ dtype = "sleep" /\ objs' = FALSE /\ UNCHANGED <<single, found>>
  \/ dtype = "detecting" /\ objs' = TRUE /\ found' \in BOOLEAN /\ UNCHANGED single
  \/ /\ dtype = "feedback"
     /\ single' \in BOOLEAN
     /\ objs' = single'
     /\ UNCHANGED found

\* Mutant of IdlePhoto: photos are taken until the roll is found.
IdlePhotoRetries(t) ==
  /\ At(t, "i_photo")
  /\ Photo
  /\ IF found' THEN Return(t) ELSE UNCHANGED <<pc, after>>
  /\ UNCHANGED <<cur, name, dtype, wired, way, world, target, op>>

IdlePhoto(t) ==
  /\ At(t, "i_photo")
  /\ Photo
  /\ Return(t)
  /\ UNCHANGED <<cur, name, dtype, wired, way, world, target, op>>

TransSteps(t) ==
  \/ TransStop(t) \/ TransCur(t) \/ TransName(t) \/ TransStart(t)
  \/ IdleStopsNav(t) \/ IdleCamera(t) \/ IdlePhoto(t)

-----------------------------------------------------------------------------
\* AutoState::DealEvent, go_: AGV mode (the answer is only logged), ...
GoMode(t) ==
  /\ At(t, "go_hw")
  /\ \E ok \in BOOLEAN : Robot("agv", ok)
  /\ Goto(t, "go_goal")
  /\ UNCHANGED <<cur, name, dtype, flags, nav, move, after, target, op>>

\* ... send the goal, ...
GoGoal(t) ==
  /\ At(t, "go_goal")
  /\ nav' = "busy" \/ ("nav" \in Faults /\ UNCHANGED nav)
  /\ Goto(t, "go_wait")
  /\ UNCHANGED <<cur, name, dtype, flags, hw, move, after, target, op>>

\* Mutant of GoWait: the wait also ends when the state has left Auto, as the
\* one for the point-move server does.
GoWaitLeaves(t) ==
  /\ At(t, "go_wait")
  /\ IF name = "Idle"
       THEN StopNav /\ Goto(t, "n_stop") /\ UNCHANGED after
       ELSE (nav = "free" \/ name # "Auto") /\ UNCHANGED nav /\ Return(t)
  /\ UNCHANGED <<cur, name, dtype, flags, hw, move, target, op>>

\* Mutant of GoWait: Idle is not looked at.
GoWaitBlind(t) ==
  /\ At(t, "go_wait")
  /\ nav = "free"
  /\ Return(t)
  /\ UNCHANGED <<cur, name, dtype, flags, world, target, op>>

\* ... and ask until the planner is free; the state Idle turns the event into
\* a stop_ event.
GoWait(t) ==
  /\ At(t, "go_wait")
  /\ IF name = "Idle"
       THEN StopNav /\ Goto(t, "n_stop") /\ UNCHANGED after
       ELSE nav = "free" /\ UNCHANGED nav /\ Return(t)
  /\ UNCHANGED <<cur, name, dtype, flags, hw, move, target, op>>

\* AutoState::DealEvent, stop_: stop the planner, ask until it is free
NavStop(t) ==
  /\ At(t, "n_stop")
  /\ StopNav
  /\ Goto(t, "n_wait")
  /\ UNCHANGED <<cur, name, dtype, flags, hw, move, after, target, op>>

\* (a query that fails leaves the answer of the call before it).
NavWait(t) ==
  /\ At(t, "n_wait")
  /\ nav = "free" \/ "nav" \in Faults
  /\ Return(t)
  /\ UNCHANGED <<cur, name, dtype, flags, world, target, op>>

GoSteps(t) == GoMode(t) \/ GoGoal(t) \/ GoWait(t) \/ NavStop(t) \/ NavWait(t)

-----------------------------------------------------------------------------
\* buttonCallback; the subscription serves one message at a time.

\* State::update of the current state
PressNext ==
  /\ \/ cur = "Idle" /\ found /\ Trans("button", "Auto", "b_idle")
     \/ cur = "Auto" /\ Trans("button", "Adjust", "b_idle")
     \/ cur \in {"Telecontrol", "Gohome"} /\ Trans("button", "Auto", "b_idle")
  /\ UNCHANGED <<cur, name, dtype, flags, world, op>>

PressTrans(state, return) ==
  /\ Trans("button", state, return)
  /\ UNCHANGED <<cur, name, dtype, flags, world, op>>

PressGoto(label) ==
  /\ Goto("button", label)
  /\ UNCHANGED <<cur, name, dtype, flags, world, after, target, op>>

Press ==
  /\ At("button", "b_idle")
  /\ \/ "next" \in Buttons /\ PressNext
     \/ "goback" \in Buttons /\ PressTrans("Gohome", "b_idle")
     \/ "task" \in Buttons /\ PressTrans("Auto", "k_go")
     \/ "stop" \in Buttons /\ PressGoto("s_send")
     \/ "unlock" \in Buttons /\ name \in {"Idle", "Telecontrol"} /\ PressGoto("u_hw")
     \/ "grab_reset" \in Buttons /\ PressGoto("r_hw")
     \/ "grip" \in Buttons /\ PressGoto("g_hw")

\* SendEvent(stop_): only AutoState acts on it, and waits for the planner.
StopSend ==
  /\ At("button", "s_send")
  /\ IF Hears("Auto") THEN Call("button", "n_stop", "s_hw")
                      ELSE Goto("button", "s_hw") /\ UNCHANGED after
  /\ UNCHANGED <<cur, name, dtype, flags, world, target, op>>

\* A call of /robot_control, then the state; on failure only a message.  A
\* gripper reset must also report grab_result 1.
RobotThen(label, status, state, mayRefuse) ==
  /\ At("button", label)
  /\ \E ok \in BOOLEAN :
       /\ Robot(status, ok)
       /\ \/ ok /\ Trans("button", state, "b_idle")
          \/ /\ ~ok \/ mayRefuse
             /\ Goto("button", "b_idle")
             /\ UNCHANGED <<after, target>>
  /\ UNCHANGED <<cur, name, dtype, flags, nav, move, op>>

StopRobot == RobotThen("s_hw", "stop", "Idle", FALSE)
Unlock == RobotThen("u_hw", "agv", "Telecontrol", FALSE)
GrabReset == RobotThen("r_hw", "grab_zero", "Telecontrol", TRUE)
Grip == RobotThen("g_hw", "grab", "Telecontrol", FALSE)

\* SendEvent(go_) after TransForState("Auto"): the thread drives the goal itself.
TaskGo ==
  /\ At("button", "k_go")
  /\ IF Hears("Auto") THEN Call("button", "go_hw", "b_idle")
                      ELSE Goto("button", "b_idle") /\ UNCHANGED after
  /\ UNCHANGED <<cur, name, dtype, flags, world, target, op>>

ButtonSteps ==
  \/ StopSend \/ StopRobot \/ Unlock \/ GrabReset \/ Grip \/ TaskGo
  \/ TransSteps("button") \/ GoSteps("button")

-----------------------------------------------------------------------------
\* main(): the loop looks at the name of the state ...
Loop ==
  /\ At("main", "loop")
  /\ \/ name = "Auto" /\ way /\ Goto("main", "send_go") /\ UNCHANGED <<after, target>>
     \/ name = "Adjust" /\ Goto("main", "send_task") /\ UNCHANGED <<after, target>>
     \/ name = "Gohome" /\ Trans("main", "Auto", "home_go")
  /\ UNCHANGED <<cur, name, dtype, flags, world, op>>

\* ... and sends the event to whatever state is current then.
SendGo(label, next) ==
  /\ At("main", label)
  /\ IF Hears("Auto") THEN Call("main", "go_hw", next)
                      ELSE Goto("main", next) /\ UNCHANGED after
  /\ UNCHANGED <<cur, name, dtype, flags, world, target, op>>

WayDone ==
  /\ At("main", "way_done")
  /\ way' = FALSE
  /\ Goto("main", "loop")
  /\ UNCHANGED <<cur, name, dtype, single, objs, found, wired, world, after, target, op>>

HomeIdle ==
  /\ At("main", "home_idle")
  /\ Trans("main", "Idle", "loop")
  /\ UNCHANGED <<cur, name, dtype, flags, world, op>>

SendTask ==
  /\ At("main", "send_task")
  /\ IF Hears("Adjust") THEN Goto("main", "op")
                        ELSE Goto("main", "loop")
  /\ UNCHANGED <<cur, name, dtype, flags, world, after, target, op>>

-----------------------------------------------------------------------------
\* AdjustState::run

AtOp(kind) == At("main", "op") /\ RunOps[op] = kind
NextOp == Goto("main", "op") /\ op' = op + 1
\* Mutant of RunReturns: the next call goes on behind the operation left.
RunLeavesOff == Goto("main", "loop") /\ op' = op + 1
RunReturns == Goto("main", "loop") /\ op' = 1

\* grab_move; run ignores the answer, except that a failed lift is not lowered
OpGrip ==
  /\ AtOp("grip") \/ AtOp("lift")
  /\ \E ok \in BOOLEAN :
       /\ Robot("grab", ok)
       /\ op' = IF ~ok /\ RunOps[op] = "lift" THEN op + 2 ELSE op + 1
  /\ UNCHANGED <<cur, name, dtype, flags, nav, move, pc, after, target>>

\* GetCurStateName() == "Idle": return
OpCheck ==
  /\ AtOp("check")
  /\ IF name = "Idle" THEN RunReturns ELSE NextOp
  /\ UNCHANGED <<cur, name, dtype, flags, world, after, target>>

\* update_feedback: its answer is ignored by run.
OpFeedback ==
  /\ AtOp("feed")
  /\ objs' = FALSE
  /\ IF dtype = "feedback" /\ name = "Adjust"
       THEN Goto("main", "f_send") /\ UNCHANGED op
       ELSE NextOp
  /\ UNCHANGED <<cur, name, dtype, single, found, wired, way, world, after, target>>

\* SendEvent(photo_): AdjustState passes it on to its father Idle.
FeedbackSend ==
  /\ At("main", "f_send")
  /\ Goto("main", IF cur \in {"Idle", "Adjust"} /\ "Idle" \in wired
                       THEN "f_photo" ELSE "f_check")
  /\ UNCHANGED <<cur, name, dtype, flags, world, after, target, op>>

FeedbackPhoto ==
  /\ At("main", "f_photo")
  /\ Photo
  /\ Goto("main", "f_check")
  /\ UNCHANGED <<cur, name, dtype, wired, way, world, after, target, op>>

\* Mutant of FeedbackCheck: the state is not looked at between two photos.
FeedbackCheckBlind ==
  /\ At("main", "f_check")
  /\ \/ Goto("main", "f_send") /\ UNCHANGED op
     \/ single /\ NextOp
  /\ UNCHANGED <<cur, name, dtype, flags, world, after, target>>

\* Again while there is no single object, or while it is where it was before.
FeedbackCheck ==
  /\ At("main", "f_check")
  /\ \/ name = "Idle" /\ NextOp
     \/ name # "Idle" /\ Goto("main", "f_send") /\ UNCHANGED op
     \/ name # "Idle" /\ single /\ NextOp
  /\ UNCHANGED <<cur, name, dtype, flags, world, after, target>>

\* relative_move_cmd: AGV mode first, also the operation before the end
OpMove ==
  /\ AtOp("move") \/ AtOp("agv")
  /\ \E ok \in BOOLEAN : Robot("agv", ok)
  /\ IF RunOps[op] = "agv" THEN NextOp ELSE Goto("main", "m_cmd") /\ UNCHANGED op
  /\ UNCHANGED <<cur, name, dtype, flags, nav, move, after, target>>

\* visual_client.call with state 1: taken, or its transform is missing and the
\* state of the server stays, or the call fails and run returns.
MoveCommand ==
  /\ At("main", "m_cmd")
  /\ \/ move' = "busy" /\ Goto("main", "m_wait") /\ UNCHANGED op
     \/ "move" \in Faults /\ Goto("main", "m_wait") /\ UNCHANGED <<move, op>>
     \/ "move" \in Faults /\ RunReturns /\ UNCHANGED move
  /\ UNCHANGED <<cur, name, dtype, flags, hw, nav, after, target>>

\* Ask until the server is free (a query that fails leaves the answer of the
\* command, which was true); leave when the state is no longer Adjust.
MoveWait ==
  /\ At("main", "m_wait")
  /\ name # "Adjust" \/ move = "free" \/ "move" \in Faults
  /\ Goto("main", "m_end")
  /\ UNCHANGED <<cur, name, dtype, flags, world, after, target, op>>

\* Mutant of MoveEnd: Idle only ends the operation.
MoveEndSilently ==
  /\ At("main", "m_end")
  /\ IF name = "Idle" THEN RunReturns ELSE NextOp
  /\ UNCHANGED <<cur, name, dtype, flags, world, after, target>>

\* Idle: send 0, and run returns.
MoveEnd ==
  /\ At("main", "m_end")
  /\ IF name = "Idle"
       THEN StopMove /\ RunReturns
       ELSE NextOp /\ UNCHANGED move
  /\ UNCHANGED <<cur, name, dtype, flags, hw, nav, after, target>>

OpEnd ==
  /\ AtOp("end")
  /\ IF name = "Idle"
       THEN StopMove /\ RunReturns /\ UNCHANGED <<after, target>>
       ELSE Trans("main", "Auto", "loop") /\ op' = 1 /\ UNCHANGED move
  /\ UNCHANGED <<cur, name, dtype, flags, hw, nav>>

RunSteps ==
  \/ OpGrip \/ OpCheck \/ OpFeedback \/ FeedbackSend \/ FeedbackPhoto \/ FeedbackCheck
  \/ OpMove \/ MoveCommand \/ MoveWait \/ MoveEnd \/ OpEnd

MainSteps ==
  \/ Loop \/ SendGo("send_go", "way_done") \/ SendGo("home_go", "home_idle")
  \/ WayDone \/ HomeIdle \/ SendTask \/ RunSteps
  \/ TransSteps("main") \/ GoSteps("main")

-----------------------------------------------------------------------------
\* The planner and the point-move server reach their target, ...
Arrive ==
  \/ nav = "busy" /\ nav' = "free" /\ UNCHANGED move
  \/ move = "busy" /\ move' = "free" /\ UNCHANGED nav

\* ... or have come to a halt.
Halt ==
  \/ nav = "stopping" /\ nav' = "free" /\ UNCHANGED move
  \/ move = "stopping" /\ move' = "free" /\ UNCHANGED nav

ServerSteps ==
  /\ Arrive \/ Halt
  /\ UNCHANGED <<cur, name, dtype, flags, hw, pc, after, target, op>>

Next == Press \/ ButtonSteps \/ MainSteps \/ ServerSteps

Spec == Init /\ [][Next]_vars

\* Both threads run, and a motion server that was told to stop becomes free; a
\* blocked robot may stay busy for ever.
FairSpec ==
  /\ Spec
  /\ WF_vars(ButtonSteps) /\ WF_vars(MainSteps)
  /\ WF_vars(ServerSteps /\ nav = "stopping" /\ nav' = "free")
  /\ WF_vars(ServerSteps /\ move = "stopping" /\ move' = "free")

-----------------------------------------------------------------------------
\* A planner goal never runs unattended: while the planner is busy some thread
\* is asking for its end (and so sees Idle), or is about to stop it, although
\* both threads may have sent a goal and either may have left Auto.  (The calls
\* of the planner's service must not fail: nobody looks at their answer.)
NavAttended ==
  nav = "busy" => \E t \in Threads : pc[t] \in {"go_wait", "n_stop"}

\* AdjustState.cpp:204 "keep asking until the motion has ended": the same for
\* a target of the point-move server.
MoveAttended == move = "busy" => pc["main"] \in {"m_wait", "m_end"}

\* A button is served: on a free floor, where the planner always reaches its
\* goal, buttonCallback returns whatever the main thread does to the state
\* meanwhile, so that the next message (a stop) gets its turn.
FreeFloor == []<>(nav # "busy")
ButtonServed ==
  FreeFloor => (~At("button", "b_idle") ~> At("button", "b_idle"))

\* Once the state stays Idle the planner comes to rest for good, also when a
\* thread that had not yet seen Idle sent it a goal, and though its goal would
\* never have been reached.
IdleIsQuiet == <>[](name = "Idle") => <>[](nav = "free")

\* Once the state stays Idle the task ends for good, wherever it was: no wait for
\* an object, a goal or the point-move server keeps the main thread from its loop.
IdleEndsTask == <>[](name = "Idle") => <>[]At("main", "loop")

\* Context.cpp:162 "EMERGENCY STOP!": what the operator has stopped only the
\* operator sets free again; the main thread never takes the robot out of the
\* stop mode.
StopIsLatched ==
  [][(hw = "stop" /\ hw' # "stop") => pc["button"] # pc'["button"]]_vars

\* The detector works for the current state: feedback only when adjusting,
\* search only in Idle.
Resting == \A t \in Threads : pc[t] \notin TransPcs
DetectorFollowsState ==
  Resting => dtype = DetectorOf(name, "sleep")
=============================================================================
