------------------------------ MODULE Startup ------------------------------
(***************************************************************************)
(* The start-up of the task node.  HardwareInitState and StartState run    *)
(* inside context->Start on the main thread, while the spinner thread      *)
(* already serves buttons.  Both threads call /robot_control with one      *)
(* object, Context::srv: the status a call sends and the response a thread *)
(* looks at are whatever was stored there last.  The hardware node is      *)
(* AgvHw, with the two threads as its callers; it is killed and respawned. *)
(* A step is what happens between two accesses to Context::srv.  The       *)
(* interleavings inside TransForState are the subject of Hfsm.             *)
(***************************************************************************)
EXTENDS AgvHw

CONSTANTS
  Buttons,     \* the buttons the operator may press
  Presses      \* bound on how often a button is pressed during start-up

Threads == {"main", "button"}

ASSUME ButtonsAssumption == Buttons \subseteq {"stop", "unlock", "grab_reset", "grip"}
ASSUME PressesAssumption == Presses \in Nat
ASSUME CallersAssumption == Clients = Threads /\ {"stop", "agv_zero", "grab_zero", "agv", "grab"} \subseteq Modes

VARIABLES
  up,          \* the hardware node runs and offers /robot_control
  request,     \* srv.request.status
  response,    \* srv.response
  at,          \* where each thread is
  stage,       \* the status of StartState's current call
  button,      \* the button being served
  presses,     \* buttons pressed so far
  name         \* _cur_name

hw == vars
srv == <<request, response>>
task == <<srv, at, stage, button, presses, name>>
startupVars == <<hw, up, task>>

MainAt == {"list", "set", "call", "wait", "check", "ready", "loop"}
ButtonAt == {"idle", "set", "call", "wait", "check"}

StartupTypeOK ==
  /\ TypeOK
  /\ up \in BOOLEAN
  /\ request \in {"stop", "agv_zero", "grab_zero", "agv", "grab"}
  /\ response \in [agv : BOOLEAN, grab : BOOLEAN]
  /\ at \in [Threads -> MainAt \cup ButtonAt]
  /\ at["main"] \in MainAt /\ at["button"] \in ButtonAt
  /\ stage \in {"agv_zero", "grab_zero"}
  /\ button \in Buttons \cup {"none"}
  /\ presses \in 0..Presses
  /\ name \in {"HardwareInit", "Start", "Idle", "Telecontrol"}

\* context->Start("HardwareInit"); the hardware node may still be coming up.
StartupInit ==
  /\ Init
  /\ up \in BOOLEAN
  /\ request = "stop"
  /\ response = [agv |-> FALSE, grab |-> FALSE]
  /\ at = [t \in Threads |-> IF t = "main" THEN "list" ELSE "idle"]
  /\ stage = "agv_zero"
  /\ button = "none" /\ presses = 0
  /\ name = "HardwareInit"

Step(t, where) == at' = [at EXCEPT ![t] = where]

-----------------------------------------------------------------------------
\* The hardware node

HwStep ==
  /\ up
  /\ \/ Loop \/ DatumArrives
     \/ \E a \in {"open", "lift"} : AxisArrives(a)
     \/ \E t \in Threads : Serve(t)
  /\ UNCHANGED <<up, task>>

\* rosnode kill /agv_hw_node: calls under way fail, main() disables the axes.
\* Its polling loops end with ros::ok() and may command one more motion before.
Killed ==
  /\ up' = FALSE
  /\ enabled' = FALSE
  /\ datum' = IF datum = "running" THEN "none" ELSE datum
  /\ axis' \in [{"open", "lift"} -> AxisStates]
  /\ \A a \in DOMAIN axis : axis'[a] = "halted" \/ (Idle(a) /\ axis'[a] = axis[a])
  /\ pc' = [t \in Threads |-> "idle"]
  /\ ok' = [t \in Threads |-> ok[t] /\ pc[t] = "idle"]
  /\ tries' = [t \in Threads |-> 0]
  /\ UNCHANGED <<status, wst, dac, call, grab>>

\* The launch file starts it again; init() enables the axes.
Respawn ==
  /\ ~up
  /\ up' = TRUE
  /\ status' = "stop" /\ wst' = "none"
  /\ enabled' = TRUE
  /\ UNCHANGED <<dac, datum, axis, server, task>>

-----------------------------------------------------------------------------
\* A call of /robot_control by either thread

\* The status goes into the shared request, after waitForExistence except for
\* StartState's second call.
StatusOf == [stop |-> "stop", unlock |-> "agv", grab_reset |-> "grab_zero", grip |-> "grab"]
Wanted(t) == IF t = "main" THEN stage ELSE StatusOf[button]

SetStatus(t) ==
  /\ at[t] = "set"
  /\ up \/ (t = "main" /\ stage = "grab_zero")
  /\ request' = Wanted(t)
  /\ Step(t, "call")
  /\ UNCHANGED <<hw, up, response, stage, button, presses, name>>

\* client.call sends the status that is in the request by now; its width and
\* high are never above 900.
Send(t) ==
  /\ at[t] = "call" /\ up
  /\ Request(t) /\ status' = request /\ call'[t].width /\ call'[t].high
  /\ Step(t, "wait")
  /\ UNCHANGED <<up, srv, stage, button, presses, name>>

\* What the button thread does once its call has returned
ButtonThen(success) ==
  IF success /\ button = "grab_reset"
    THEN Step("button", "check") /\ UNCHANGED <<button, name>>
    ELSE /\ Step("button", "idle")
         /\ button' = "none"
         /\ name' = IF ~success THEN name
                    ELSE IF button = "stop" THEN "Idle" ELSE "Telecontrol"

CallThen(t, success) ==
  IF t = "main" THEN Step("main", "check") /\ UNCHANGED <<button, name>>
                ELSE ButtonThen(success)

\* The node is gone: the call fails and leaves the response as it was.
SendFails(t) ==
  /\ at[t] = "call" /\ ~up
  /\ CallThen(t, FALSE)
  /\ UNCHANGED <<hw, up, srv, stage, presses>>

\* Only a Grab_Server that returned true sends its response, and agv_result is
\* set only before it returns false.
Answer(t) ==
  /\ at[t] = "wait" /\ pc[t] = "idle"
  /\ response' = IF ok[t] THEN [agv |-> FALSE, grab |-> grab[t]] ELSE response
  /\ CallThen(t, ok[t])
  /\ UNCHANGED <<hw, up, request, stage, presses>>

Calls(t) == SetStatus(t) \/ Send(t) \/ SendFails(t) \/ Answer(t)

-----------------------------------------------------------------------------
\* The main thread

\* HardwareInitState::start reads the list of nodes once; the nodes it misses
\* are killed ten times over, whether or not they have come up by then.
NodesThere ==
  /\ at["main"] = "list"
  /\ Step("main", "set")
  /\ name' = "Start"
  /\ UNCHANGED <<hw, up, srv, stage, button, presses>>

NodesMissing ==
  /\ at["main"] = "list"
  /\ Step("main", "loop")
  /\ Killed \/ UNCHANGED <<hw, up>>
  /\ UNCHANGED <<srv, stage, button, presses, name>>

\* StartState::start, the steering: agv_result 0 counts as ready.
CheckSteering ==
  /\ at["main"] = "check" /\ stage = "agv_zero"
  /\ IF response.agv
       THEN Killed /\ UNCHANGED <<at, stage>>
       ELSE Step("main", "set") /\ stage' = "grab_zero" /\ UNCHANGED <<hw, up>>
  /\ UNCHANGED <<srv, button, presses, name>>

\* Mutant of GripperReady: the field is mixed up with that of the steering.
GripperReadyWrongField ==
  /\ at["main"] = "check" /\ stage = "grab_zero"
  /\ ~response.agv
  /\ Step("main", "ready")
  /\ UNCHANGED <<hw, up, srv, stage, button, presses, name>>

\* The gripper: until the response says 1 the hardware node is killed again and
\* again; nothing asks for another reset.
GripperReady ==
  /\ at["main"] = "check" /\ stage = "grab_zero"
  /\ response.grab
  /\ Step("main", "ready")
  /\ UNCHANGED <<hw, up, srv, stage, button, presses, name>>

GripperFailed ==
  /\ at["main"] = "check" /\ stage = "grab_zero"
  /\ ~response.grab /\ up
  /\ Killed
  /\ UNCHANGED task

\* Navigation and vision are launched, TransState("Idle").
Started ==
  /\ at["main"] = "ready"
  /\ Step("main", "loop")
  /\ name' = "Idle"
  /\ UNCHANGED <<hw, up, srv, stage, button, presses>>

Main ==
  \/ NodesThere \/ NodesMissing \/ CheckSteering
  \/ GripperReady \/ GripperFailed \/ Started \/ Calls("main")

-----------------------------------------------------------------------------
\* buttonCallback, the cases that use Context::srv

Press ==
  /\ at["button"] = "idle" /\ presses < Presses
  /\ \E b \in Buttons :
       /\ b = "unlock" => name \in {"Idle", "Telecontrol"}
       /\ button' = b
  /\ presses' = presses + 1
  /\ Step("button", "set")
  /\ UNCHANGED <<hw, up, srv, stage, name>>

\* grab_reset looks at the shared response after its call.
ResetReported ==
  /\ at["button"] = "check"
  /\ Step("button", "idle")
  /\ button' = "none"
  /\ name' = IF response.grab THEN "Telecontrol" ELSE name
  /\ UNCHANGED <<hw, up, srv, stage, presses>>

Button == ResetReported \/ Calls("button")

StartupNext == HwStep \/ Respawn \/ Main \/ Press \/ Button

StartupSpec == StartupInit /\ [][StartupNext]_startupVars

\* The threads of both nodes keep running and roslaunch respawns the hardware
\* node; the operator and the motion card owe nothing.
HwServed(t) == WF_startupVars(up /\ Serve(t) /\ UNCHANGED <<up, task>>)
FairStartupSpec ==
  /\ StartupSpec
  /\ WF_startupVars(Main) /\ WF_startupVars(Button) /\ WF_startupVars(Respawn)
  /\ WF_startupVars(up /\ Loop /\ UNCHANGED <<up, task>>)
  /\ \A t \in Threads : HwServed(t)

-----------------------------------------------------------------------------
AtLimits == \A a \in {"open", "lift"} : axis[a] = "limit"

\* "GRAB ready" is said only with both gripper axes at their limit switches,
\* whatever the homing before did and however the hardware node came up, as long
\* as nobody presses a button: with one pressed, the response looked at may be
\* that of another call, and the status sent that of another thread.
GripperReadyUnlessPressed ==
  (at["main"] = "ready" /\ presses = 0) => AtLimits

\* A homing that the start-up has been told is done leaves the drive axes enabled
\* in velocity mode, as long as the hardware node lives: killing it disables them,
\* and only the init of its successor enables them again.
HomingReadyUnlessPressed ==
  (presses = 0 /\ up /\ ok["main"] /\ call["main"].mode = "agv_zero") => enabled

\* Every call of the start-up comes back, in whichever branch of Grab_Server the
\* button thread's calls put it and though the node may still be coming up: the
\* two loops of StartState::start are always reached.
StartupCallsReturn == (at["main"] = "set") ~> (at["main"] = "check")

\* StartState::start says "STEERING_WHEEL ready" and goes on to the gripper only
\* when the steering has been homed, else "STEERING_WHEEL reset failed!".
SteeringReadyHonest == (at["main"] = "set" /\ stage = "grab_zero") => ok["main"]
=============================================================================
