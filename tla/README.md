# Specifications of the agv_housheng robot software

The repository is the software of a two-steer-wheel transport robot with a
gripper and a lift: it drives to a way point, looks for a roll of material,
approaches it, grips it and drives on, with an operator's joystick beside it.
This directory specifies the parts of it that were written for this robot and
whose correctness depends on the order of events: threads that share a structure
without a lock, services that are polled, stops that arrive in the middle of a
motion. TLC checks small instances; TLAPS proves every property that TLC found to
hold for every value of the constants, the liveness properties under the
hypotheses named below.

## The system

| component | source | state it keeps | operations | specified in |
|---|---|---|---|---|
| task state machine | `src/hfsm_ros` (`Context`, `State`, `*State`, `main.cpp`) | current state and its name, detector mode, flags of the last photo, way point, position in `AdjustState::run` | `buttonCallback` (7 buttons), `TransForState`, `SendEvent`, the events `go_` `stop_` `task_` `photo_`, the main loop | `Hfsm`, `HfsmOverlap` |
| visual point-move server | `src/agv_relative_move`, `main_visual_point.cpp` | `point_move_struct_` (state, target) | service `/visual_point_move` (stop, command, query), 20 Hz control pass | `PointMove`, `MotionServer` |
| AR and visual motion servers | `src/agv_relative_move`, `main.cpp`, `main_visual.cpp` | `feedback_state_`, `visual_state_`, `move_flag_`, marker and camera feedback | services `/ar_track_target2`, `/visual_track_target`, `/ar_target_get`, two feedback topics, control loop | `TrackMove` |
| hardware node | `src/agv_sim_robot_hw` | `status_`, outputs and axes of the motion card | service `/robot_control` (six modes), 200 Hz `write()` | `AgvHw` |
| start-up | `HardwareInitState`, `StartState` | the request and response shared in `Context` | look for the nodes, home the wheels, reset the gripper | `Startup` |
| joystick teleoperation | `src/xtark_joy/joy/scripts/xtark_teleop_joy.py` | velocity, dead-man and enable flags | joystick callback, 20 Hz loop | `Teleop` |
| joystick driver | `src/xtark_joy/joy/src/joy_node.cpp` | the open device, the message being collected, the timer | open, read, publish, reopen | `JoyNode` |
| wheel controller | `src/agv_sim_roscontrol`, with `write()` of the hardware node | last `/cmd_vel`, the filter's memory, wheel commands | subscription, `update`, `write` | `Drive` |
| pose estimation | `src/robot_pose_ekf` | sensor activity, stamps, the time of the estimate and of each old measurement | four sensor callbacks, spin timer | `PoseEkf` |
| scan merger | `src/ira_laser_tools` | topics not yet found, lasers heard since the last merge | wait for the topics, scan callback | `ScanMerger` |
| IMU driver | `src/serial_imu` | the parser's buffer | one byte of the serial line | `ImuSerial` |

## Not modelled

- The charging state and its TCP client (`charge_state.hpp`, `tcp_client.hpp`):
  no button and no event leads to that state, so the running program never
  enters it.
- Way-point placing, the event `put_` of `AutoState` (lines 106-229): `nav_flag`
  stays 0 in `main.cpp`, and only the test programs beside it send the event.
- The camera wrapper (calls into a closed SDK), the test programs for the gripper
  and the launch packages (configuration).
- The rest of what was brought in from elsewhere: `zmcaux` (the motion card's
  library, forwarding to a binary), `sick_scan`, `orocos-bfl`, `ar_track_alvar`,
  `async_web_server_cpp`, `usb_cam`, `web_video_server`. They make up most of the
  130,000 lines of this repository. They are libraries, image and filter
  arithmetic, and drivers of devices whose documents are not here; a model of
  them would state nothing about this robot. The modules cover what was written
  or edited for it, and those nodes from elsewhere whose order of events decides
  whether it drives and knows where it is.
- In the parts that are modelled: kinematics, PID, filter and point-cloud
  arithmetic, the layout of messages, logging and diagnostics.

`PROJECT.json` lists every component with its reason.

## How the parts interact

An operator's button reaches `buttonCallback` on a spinner
thread of the task node while its main thread runs the loop of `main.cpp`; both
change the state and send it events. Both call the hardware node through
`/robot_control` (two callers of one service whose branches poll for up to
twenty seconds), the planner through `/GP_nav`, and the main thread moves the
robot the last metre through `/visual_point_move`. A motion server publishes
`/cmd_vel`, and so does the teleoperation node; the wheel controller latches
whatever came last, and the hardware node writes it to the card in the modes that
drive. The teleoperation node hears the joystick driver on `joy` and sends the
buttons on. The IMU driver, the odometry of the wheel controller and the merged
scans feed localisation and, through it, the planner.

What is hard about it. Nothing in the repository takes a lock. A service thread
and a control thread overwrite each other's state; a state is read before a wait
of seconds and used after it; a stop arrives between the reading and the use; a
wait depends on an answer that may never come. Tests on the robot meet few of
these orders. What would make each component correct:

- task state machine: no motion runs without a thread that would stop it; the
  state's name, its functions and the detector belong together; a button is
  served; Idle brings the robot to rest; an emergency stop stays in force.
- motion servers: a server that is free stands still, a stop halts the robot, a
  motion whose target is reached ends, an accepted target is driven to.
- hardware node: a call does what its own status says, a result is true, a stop
  stays effective whatever was under way, every call returns.
- start-up: what is reported ready is ready, although the hardware node may be
  killed and come up again; every call of the start-up comes back.
- joystick and wheels: letting go of the dead-man button brings the robot to rest,
  also when words are lost, half written or still in the filter, and the driver
  tells the pad's real state after it has been unplugged.
- sensors: the filter counts a sensor's motion once, from the pose it has; a
  message that cannot be used, or a byte that was lost, does not stop what follows.

## The modules

`MotionServer` is the abstract promise of a motion server: free or not, moving
or not, and free only at a standstill. It is the refinement target of
`PointMove`.

`PointMove` has one action for each access of `point_move_struct_`. `Poll`,
`Track`, `PublishDrive`, ... are `move_point_visual` from one access to the
next; `StopRequest`, `CommandRequest`, `StoreTarget`, `AcceptCommand` and
`Query` are the cases of `TrackCallback_pointmove_visual`. The pose is
abstracted to `far`, whether the robot is farther from `w2target` than `max_err`
allows, which `Track` looks at afresh in each pass. `RobotMoves` changes it at any
time and in both directions: driving need not bring the robot any nearer. `state`
and `far` begin anywhere, since `init` leaves the fields uninitialised. `ready`,
`rushed` and `pending` are history variables.

`TrackMove` has the two older servers, which share one class: `mode` says which
program runs, and both services write their own state variable in it, because
the constructor advertises both. The control loop is the same in both but for
the constants and the variable that its stop test reads, which is
`feedback_state_` in both. Poses and PID outputs are abstracted to `seen` and to
a choice within tolerance or not. A second zero velocity, the wait for the
target and the count of lost passes are kept, with smaller limits.

`AgvHw` has the branches of `Grab_Server` in the order the code runs them for one
call: gripper, homing, reset, each guarded by the shared `status_` and each with
its polling loop, against the two steps of a write cycle (`WriteSwitch` reads
`status_`, `WriteCase` acts on it). The motion card is external: an axis that was
commanded may arrive or stay blocked for ever, a datum command may be refused.
Velocities are abstracted to the set `dac` of outputs that are not zero, the two
steering axes each by itself and the wheels together, positions to what the code
asks of them (`AxisStates`). A request carries whether its width and its height
are in range, as the gripper branch tests them; they count in every mode, since
`status_` may turn any call into a gripper move.

`Startup` extends `AgvHw` with the task node's two threads as its callers.
`NodesThere` and `NodesMissing` are `HardwareInitState::start`, `CheckSteering`
to `Started` are `StartState::start`; `Press` and `ResetReported` are the buttons
that use `Context::srv`. A call is made of three steps, as the threads can come
between them: `SetStatus` stores the status, `Send` sends what is stored by then,
`Answer` stores the response, which roscpp delivers only when the handler
returned true. `Killed` is `rosnode kill /agv_hw_node` (calls fail, `main`
disables the axes), `Respawn` is the launch file starting it again. One call of
`TransForState` is one step here, because its interleavings are the subject of
`Hfsm`. Left out are the buttons without `Context::srv` and whatever is pressed
in the two seconds before `context->Start`, when `_cur_node_state` holds no state.

`Hfsm` has the two threads of the task node, with a program counter for each. A
step goes from one access of the shared state to the next: the four statements
of `TransForState` are `TransStop`, `TransCur`, `TransName`, `TransStart`;
`IdleState::start` follows them with the stop of the planner, the camera and the
photo; the events of `AutoState` are `GoMode` to `NavWait`;
`AdjustState::run` is the list `RunOps` of its operations, with `Rounds`
look-and-approach rounds, executed one operation or service call at a time.
`Robot(status, ok)` is a call of the hardware node, which may fail when "hw" is
among `Faults`. The planner and the point-move server appear by what their
services answer, `free`, `busy`, `stopping`, and `Arrive` and `Halt` move them.
Several accesses of `name` inside one iteration of a waiting loop are one read.
A comparison with a `std::string` that is being assigned is taken to yield the
value before or after the assignment.

`HfsmOverlap` adds two history variables, `overlapped` and `left`, so that
properties can say what is lost only when two calls of `TransForState` overlap,
or when a button leaves Adjust during a relative motion.

`Teleop` has the callback and the loop of the teleoperation node as two threads,
which `rospy` runs at once. `self.velocity` is one object: the callback assigns
its parts one after the other while the loop's `publish` may be serialising it
(`Serialise`), so a word can be half old and half new. `publish` holds the
publisher's lock, which is why the zero of a release cannot be overtaken by a word
begun before. `stray` is a history variable.

`Drive` goes from the words on `/cmd_vel` to the drive wheels: `Publish` by any
node, the subscription's queue of `QueueSize` words that drops its oldest,
`cb_target_pose` storing one part at a time, `update()` reading what is there
(`Readable`), the moving average over `Window` inputs (`lag`), and the two steps
of `write()` of the hardware node, here for the drive wheels only. `xyw_cmd_`
begins with any value, as nothing initialises it. `moving` and `heard` are history
variables.

`JoyNode` is the select loop of the joystick driver: `Open` gets the kernel's
description of the pad, `Read` one event, `TimerExpires` the end of the
coalescing interval, `Lost` a read that fails. The pad and the kernel's event
buffer are external.

`PoseEkf` keeps of the pose filter everything but the filter. A measurement is its
time stamp; `Receive` is one sensor's callback (`odomCallback` is the one the map
names, the others have the same body), `Untransformed` is an IMU message whose
transform does not come, `Spin` is the timer with the activity tests, the time of
the update and either `UpdateEstimate`, sensor by sensor in the order of the code
with its early returns, or `Start`. Covariances are taken not to be zero.
`halfway` and `late` are history variables.

`ScanMerger` has the wait for the topics and the scan callback, whose transform
may fail. `ImuSerial` has the frame parser on a line that may lose, change or insert
bytes at any point; a byte is abstracted to whether it is one of the two sync bytes,
and a length read in the wrong place may be any. The protocol has no byte stuffing:
checksum and payload are sent as they are, so the device may send the sync pair
anywhere in a frame (`NextByte` fixes only the two bytes a frame begins with), and a
searching parser takes it for a header (`Misled`).

`MCNodes` puts these six into one instance. They share no variable, so the
instance is their union: the first state says which of them moves (`part`), and
the others stay as they began.

`*Proofs` modules hold
the theorems, `MC*` modules and their `.cfg` files the instances.

## What the runs check

| run | properties | what it shows |
|---|---|---|
| `point_move` | `TypeOK` `StillWhenFree` `NoCommandLostUnlessRushed` `ImplementsContract` `StopHalts` `ReachedEnds` | two callers against the control thread. The unlocked writes never leave the robot driving under a server that says it is free, a stop halts it, a robot that has come to its target ends its motion and stands, and a client that asks before it commands, with nobody else calling, loses no target |
| `point_move_lost` (violation) | `NoCommandLost` | a client that does not ask first is told that its target was taken, and the target is overwritten by WAIT after the one-second sleep |
| `track_move` | `TypeOK` `StandsUntilFound` `DrivesBySight` `LostTargetHalts` `StopHalts` `FreeHalts` | the robot stands until its target is found, drives only while markers are received, halts on an AR stop, at the end of a motion and when its target is gone for good |
| `track_visual_stop` (violation) | `VisualStopHalts` | the visual server takes a stop and drives on: its loop tests the AR server's variable |
| `hw_two_callers` | `TypeOK` `StopLatches` `GripModeHaltsWheels` `CallsReturn` | an emergency stop that nobody lifts ends in a standstill for good, although calls under way command motions after it, and also in the middle of a homing or a reset; gripper mode halts the wheels; every call returns |
| `hw_grab_result` (violation) | `GrabResultHonest` | a lift cancelled by a stop is reported with `grab_result` 1 |
| `startup` | `StartupTypeOK` `GripperReadyUnlessPressed` `HomingReadyUnlessPressed` `StartupCallsReturn` | the hardware node still coming up, killed by the start-up's own steps and respawned, one button: as long as no button was pressed "GRAB ready" is said only with both gripper axes at their switches, and a homing that succeeded leaves the drive axes enabled; every call of the start-up comes back whatever the button does to it |
| `startup_steering` (violation) | `SteeringReadyHonest` | a homing that failed is taken for a success, since its result is never delivered: "STEERING_WHEEL ready" is said of wheels that were not homed |
| `hfsm` | `TypeOK` `NavAttended` `DetectorFollowsUnlessOverlap` `MoveAttendedUnlessLeft` | all buttons and failing services: a busy planner always has a thread that asks for its end, whatever the two threads do to the state; the detector follows the state unless two calls of `TransForState` overlapped; a relative motion goes unwatched only after such an overlap or after leaving Adjust |
| `hfsm_live` | `ButtonServed` `IdleIsQuiet` `IdleEndsTask` | on a free floor every button is served in the end; when the state stays Idle the planner comes to rest for good, and the main thread leaves whatever photo loop, wait or task it was in |
| `nodes` | `NodesTypeOK` `ReleasedMeansZero` `StrayAtMostOnce` `LastWordCounts` `ComesToRest` `LastStatePublished` `IncrementsFromEstimate` `NeverTooEarly` `MergeGoesOn` `ResyncsSoon` `StaysInStep` | after a release of the dead-man button the last word is zero, after a stop the loop sends at most one word more; when all publishers ended with zero the wheels come to rest for good, also after an overrun; the pad's last state is published after a loss; a sensor's increments begin where the estimate stands, also after it fell silent, and without late messages the filter asks no sensor for a time before its first measurement; merging goes on after any failed transforms; the IMU parser, in step, decodes frame after frame whatever they hold, and out of step loses no more of them to one wrong header than that can swallow |
| `hfsm_stop` (violation) | `StopIsLatched` | the adjusting task puts the stopped robot back into AGV mode |

Each property of a passing run comes with a mutant of a definition it watches (a
definition in the module, named in `PROJECT.json`), under which the run fails.

Bounds, and why they are enough.

- `PointMove`: two callers, because a third can only repeat what the second does
  to the one shared structure. There is no bound besides; `NoCommandLost` needs one
  caller.
- `TrackMove`: one caller; two tries, two good passes, two lost passes instead of
  20, 10 and 20 or 30. Each limit is reached and each counter is reset on the
  way. With two callers `DrivesBySight` fails, see below.
- `AgvHw`: two polls instead of 20 (the last poll and one that is not the last).
  Two callers with every mode are too much for TLC. `MCAgvHw` therefore bounds who
  calls what (`MCRequest`): stop, AGV and gripper moves come from both callers at any
  time, homing and reset from a caller who is the only one so far, and while one of
  these is under way the other caller may stop the robot. "both", which the task
  node never sends, is left out. Homing and reset against any second call run in
  `startup`; the theorems about these properties hold without this bound.
- `Startup`: one press of any of the four kinds of button, at any time; two presses
  only lengthen the interference that one already shows. Three polls, so that a
  homing reaches the second half of its polls as well, where the other axis is
  turned the other way.
- `Hfsm`: one look-and-approach round instead of three in `hfsm`, none in
  `hfsm_live`: rounds repeat the operations that the final approach has as well.
  `hfsm_live` has the four buttons that change the state or wait for the planner.
  Failures of the planner's own service are left out of both, because the code
  never looks at its answers: a cancellation that fails leaves a goal running.
  Failures of the point-move server are left out of `hfsm` for the same reason
  and are part of `hfsm_live`.
- `nodes`: two publishers on a queue of two words, which overrun each other, and
  a window of two; one mode each of those that zero the outputs, pass them on and
  leave them alone. Three events in the kernel's buffer: the two of the opening and
  one more. Two sensors, as the launch files use, a timeout of one unit and a
  clock of three, which is enough to start, time out, come back and update again;
  a clock of four was run by hand and showed the same. Two lasers. A payload of two
  bytes and lengths up to twelve, so that a wrong header can swallow two
  frames (a payload's own sync pair may be that header); with the real numbers it
  can swallow seven.

Fairness, and why the code justifies it. The main threads run `while (ros::ok())`
loops with sleeps of fixed length, and every other wait in a service callback is
bounded (`waitForTransform` 3 s, polls counted to 20), so their steps are weakly
fair. No operator has to press a button and no client has to call. A motion server
that was told to stop becomes free (`Halt`; `StopHalts` is checked for the servers
in this repository). That a goal is reached follows from no fairness, since a
blocked robot may stand before an obstacle for ever: a property that needs it has
it as its premise. `ButtonServed` has `FreeFloor`; `ReachedEnds` speaks only of a
robot that has come to its target to stay, as nothing in `PointMove` makes `far`
false, and a point-move server whose robot is blocked, stopped or in another mode
keeps RUN and commands it for ever, because the code has no time limit.
`CallsReturn` assumes that the wheel controller is loaded: `Grab_Server` waits for
its service `ifzero_srv` without a limit. In `nodes` a spinner thread of the
hardware node takes words from the subscription and its main loop runs
(`FairDriveSpec`), and the joystick driver's loop runs (`FairJoySpec`);
publishers, operator, lasers and serial line owe nothing, and `MergeGoesOn` has
its premise, that every laser's scans are transformed now and then, in the
property. In `Startup` the hardware node comes up again after a kill, because
`hw_real.launch` line 14 starts it with `respawn="true"`. Only the main thread
kills it there, and only while no call of its own is under way (`NodesMissing`,
`CheckSteering`, `GripperFailed`); a node that dies by itself in the middle of a
call is not modelled.

## What is proved

Safety, as theorems of the specification without its fairness:

| theorem | says | rests on |
|---|---|---|
| `PointMoveProofs!TypeCorrect`, `StillWhenFreeHolds` | the invariants, for any callers and wherever the robot moves | `LoopOwnsVelocity`: whoever writes WAIT or COMPLATE has just written a zero velocity, and only the control thread writes velocities |
| `PointMoveProofs!ContractImplemented` | `PointMove` implements `MotionServer` | each step maps to `Accept`, `Drive`, `Halt`, `Release` or a stutter, under the same invariant |
| `PointMoveProofs!NoCommandLostHolds` | `NoCommandLostUnlessRushed` | `Orderly`: while requests follow true answers one at a time, a command under way finds the control thread before its switch |
| `TrackMoveProofs!TypeCorrect`, `StandsUntilFoundHolds` | the invariants, for any limits and callers | `ZeroDue`: the count is zero from RUN to the end of the motion, so the zero is sent |
| `TrackMoveProofs!DrivesBySightHolds` | `DrivesBySight`, for one caller | `Sighted`: the same from the wait for the markers on, and for a command between its two writes |
| `AgvHwProofs!TypeCorrect` | type correctness, for any callers, modes and polls | poll counters stay below the limit at their labels |
| `AgvHwProofs!StopDrains` | while `status_` says stop, no call gets past its look at it into a branch that moves something | `Committed`: the calls that are past that look |
| `StartupProofs!StartupTypeCorrect` | type correctness, for any buttons, presses and polls | the lemmas of `AgvHwProofs` for the steps of the hardware node |
| `StartupProofs!GripperReadyHolds`, `HomingReadyHolds` | `GripperReadyUnlessPressed`, `HomingReadyUnlessPressed` | `Unpressed`: without a press the main thread is the only caller, so request, call and response belong to its stage; `ResetInv` of `AgvHwProofs`, which axes are at their switches at each label of the reset, holds through kills and respawns; `HomedInv`: a homing that succeeded has passed `ZeroDone`, and nothing but a kill disables the axes after it |
| `HfsmProofs!TypeCorrect` | type correctness, for any buttons, faults and rounds | `RunPos`: inside an operation of `run()` the position still names it |
| `HfsmProofs!NavAttendedHolds` | `NavAttended`, if the planner's service answers | a step outside the watching labels leaves every watcher in place |
| `HfsmProofs!DetectorFollows` | `DetectorFollowsUnlessOverlap` | `Clean`: with one thread at a time in `TransForState`, name, state and detector change in the order of its statements |
| `HfsmProofs!MoveAttendedHolds` | `MoveAttendedUnlessLeft`, if the point-move server answers | `Attended`: a motion that outlives its wait finds the state Idle, and Adjust can be entered again only from Auto |
| `JoyDriveProofs!TeleopTypeCorrect`, `ReleasedMeansZeroHolds`, `StrayAtMostOnceHolds` | the invariants of `Teleop` | `Zeroed`: after the release each part of the velocity stays zero once assigned, and the lock is not held with an older word once the zero is out; `Muzzled`: while `enable` is reset the loop has queued its one word or is past its test, not both |
| `JoyDriveProofs!DriveTypeCorrect`, `LastWordCountsHolds` | type correctness and `LastWordCounts`, for any publishers, queue size and window | `EnqueueKeeps`, `TakeKeeps`: a new word becomes the newest, also in a full queue, and taking or storing a word leaves the newest what it was |
| `JoyDriveProofs!JoyTypeCorrect`, `SleepsUpToDateHolds` | type correctness of the joystick driver; it sleeps without a timer only if the last message tells no more than the pad does | `UpToDate`: with the events still to be read the message being collected shows the pad as it is, and what differs from it in the message last sent has started the timer |
| `NodesProofs!EkfTypeCorrect`, `IncrementsFromEstimateHolds`, `NeverTooEarlyHolds` | the invariants, for any sensors in use, timeout and horizon | a sensor that an update left out is no longer begun; an active sensor has a measurement that is not later than the time of any update to come |
| `NodesProofs!MergerTypeCorrect`, `NodesTypeCorrect` | type correctness of the scan merger, and of all six nodes in one instance | each step of the instance is one node's, a stutter of the others |
| `ImuSerialProofs!ImuTypeCorrect` | type correctness, for any payload and buffer: the parser never writes past its buffer | `Bounded`: a length that is in force fits the buffer and the frame is not complete |
| `ImuSerialProofs!ResyncsSoonHolds`, `StaysInStepHolds` | `ResyncsSoon` and `StaysInStep`, for any payload and any buffer it fits in, whatever the frames hold | `ParserInv`: in bytes, what was lost lies inside the wrong frame being read; a search from the middle of a frame can lose that one more, unless it takes another wrong header; a search that has seen the first sync byte is in step with the device; in step, the parser has read what the device has sent of the frame |

The invariants themselves are not inductive: `StillWhenFree`, for one, does not
exclude that the control thread is about to write WAIT with the robot driving.
Each strengthening above says what the threads are about to do.

Liveness, as theorems of the fair specifications:

| theorem | property | argument | also assumes |
|---|---|---|---|
| `PointMoveProofs!StopHaltsHolds` | `StopHalts` | from a stop on, at most four steps of the control thread reach a zero velocity | E |
| `PointMoveProofs!ReachedEndsHolds` | `ReachedEnds` | at the target the pass under way is the last that drives; from RUN a chain of steps leads to the state that is written, and no thread writes RUN any more; `StopHalts` for a stop in between | E |
| `TrackMoveProofs!FreeHaltsHolds`, `StopHaltsHolds` | `FreeHalts`, `StopHalts` | chains of steps of the control loop, whatever is between two of them | E |
| `TrackMoveProofs!LostTargetHaltsHolds` | `LostTargetHalts` | `Left`, the passes and zero velocities still to come without a marker, only falls, and at 0 the robot stands | E, D |
| `AgvHwProofs!CallsReturnHolds` | `CallsReturn` | from each label the call gets on to a later one; at a polling label the polls run out | E, D |
| `AgvHwProofs!StopLatchesHolds` | `StopLatches`, for two callers | `StopDrains`, then every call is over, then a write cycle zeroes what is left | E, D |
| `AgvHwProofs!GripModeHaltsHolds` | `GripModeHaltsWheels` | three steps of the main loop | E |
| `StartupProofs!StartupCallsReturnHolds` | `StartupCallsReturn` | set, call, wait, check; while the main thread waits nobody kills the hardware node, so its steps are those of `AgvHw` and `CallEnds` applies | E, D |
| `HfsmProofs!ButtonServedHolds` | `ButtonServed` | `ServeLeft`: the steps left for the button thread and the goals (at most three) that the main thread can still send without it; the planner is waited for once per goal | E, D |
| `HfsmProofs!IdleIsQuietHolds` | `IdleIsQuiet`, if the planner's service answers | in Idle each thread sends at most the goal it was on its way to, and by `NavAttended` somebody stops it | E |
| `HfsmProofs!IdleEndsTaskHolds` | `IdleEndsTask` | `Rank("main")`, by label, operation and what follows, falls with every step of the main thread in Idle; the one wait, for the planner, ends by `IdleIsQuiet` or by a failing query | E, D |
| `JoyDriveProofs!ComesToRestHolds` | `ComesToRest` | the last driving word moves to the front of the queue, the filter forgets it, two write cycles pass on zero | E, D |
| `JoyDriveProofs!LastStateHolds` | `LastStatePublished` | the pad left alone, the kernel's events are read one by one; then `SleepsUpToDate` leaves only the timer | E, D |
| `NodesProofs!MergeGoesOnHolds` | `MergeGoesOn`, for two lasers | a laser once heard stays heard until the merge, and the other is heard again | nothing |

The prover reasons about fairness and `~>` in propositional temporal logic, where
a state formula, an action and `ENABLED <<A>>_v` are atoms. Two kinds of fact are
beyond it. The theorems name them as hypotheses, in definitions of their own,
and a reader has to accept them:

- E: that a thread can step when it is due, such as
  `[](MainReady => ENABLED <<MainSteps>>_vars)` (`Unblocked`, `DriveUnblocked`,
  `StartupUnblocked`, `CanStep`). The prover has no rule for `ENABLED`. TLC has
  evaluated each of these formulas as an invariant of the instances of the runs,
  and for `Hfsm` of one with all failing services as well.
- D: a rule of descent (`PassesDescend`, `Descends`, `PollsDescend`,
  `ServeDescends`, `TaskDescends`, `DriveDescends`, `EventsDescend`). It says of
  one number: if it leads from every positive value to a smaller one, it becomes
  0. This is true of any expression whose value is always a natural number (type
  correctness, proved), whatever the code does; what is missing is an induction
  under a temporal operator. That the number does fall, which is what the code
  could get wrong, is proved (`PollingFalls`, `ServeGoesOn`, `TaskGoesOn`,
  `FilterFalls`, ...).

Neither makes a statement about the program beyond its fairness. What else a
theorem assumes stands in its statement: `StopLatches` has two callers, which are
the two threads of the task node that call `/robot_control`; `MergeGoesOn` has two
lasers, which is what `agv_run_all/launch/agv_real.launch` line 23 gives the
merger; `NavAttended` and `IdleIsQuiet` exclude failures of the planner's own
service, because nobody looks at its answer and a cancellation that fails leaves
the robot driving. Apart from these only the named assumptions about the
constants are used.

Model-checked only: the ENABLED facts above, that no deadlock occurs where the
runs check it, and what the violation runs refute.

## Where the code does not do what it says

The five runs marked as violations each show one disagreement between the code
and a comment, a message or a service description; `PROJECT.json` quotes them
under "findings". The following came up as well. They are part of the models and
no property is claimed of them.

- `Grab_Server` branches on the shared `status_`: with two callers a gripper move
  goes on into the branch of the other's status, and a lift is commanded after an
  AGV-only mode came into force.
- `write()` has empty cases for both homing modes: a gripper reset leaves the
  drive axes at their last output.
- A refused datum command skips the wait that would halt the other steering axis:
  after a refusal for the front axis the output that turns the rear one is not set
  back by the homing, and likewise the front one's after a refusal for the rear.
- With two calls of `TransForState` overlapping, the name of the state, the state
  whose functions run and the detector may disagree until the next call.
- After a failed gripper reset `StartState` (lines 39-51) kills the hardware node
  again and again and asks for no other reset.
- `HardwareInitState` reads the list of nodes once, before its ten tries; a node
  that comes up meanwhile is killed, and start-up ends there.
- With one button pressed during start-up, "GRAB ready" may be said of another
  call's response, with axes moving; and "EMERGENCY STOP!" may be reported though
  the status sent was the main thread's, since both use `Context::srv`.
- The emergency stop of `buttonCallback` waits for the planner before it stops
  the hardware, and waits a whole journey when the main thread sends a goal after
  the cancellation.
- The first entry of Auto can drop the way point: the event function is set after
  the name, and the way point counts as done whether or not it was sent.
- `single_flag` keeps the answer of an earlier photo; `object_list[0]` may then be
  read from an empty list. The photo loop ends in Idle only, which the
  repository's own `README.md` (line 192) lists as an open problem.
- In the AR program a stop on the visual service, or a stop between the two writes
  of another caller's command, switches the reception of markers off and leaves
  RUN in force: the robot goes on after markers that are no longer updated.
- `/cmd_vel` has no timeout: when its publisher dies the last word stays in force.
  Before the first word the wheel controller uses an uninitialised `xyw_cmd_`.
- `max_vel_` limits positive wheel speeds only (`turn_wheels_controller.cpp` 226).
- A gripper reset sent within the filter's memory of a release leaves the outputs
  at their last value, since its mode has no case in `write()`.
- While the dead-man button is held the stop button is not looked at. The
  publisher of `/push_button` keeps one message, so a stop followed at once by
  another button may be lost.
- Every joystick message without the dead-man button puts a zero on `/cmd_vel`, also
  between the words of a motion server.
- A pad that is unplugged with the dead-man button pressed leaves the teleoperation
  node publishing its last velocity until the pad is back.
- In the joystick driver an uninterrupted stream of axis events is read first each
  time, so the coalescing timer may never expire.
- In the pose filter an update that gives up at the IMU has already moved the
  odometry's old measurement: that increment is lost. It happens when an IMU
  message could not be transformed, since its stamp counts all the same
  (`odom_estimation_node.cpp` 230), against the comment of line 423. With late
  messages the filter may start before the first measurement of the IMU.
- The IMU driver publishes on every non-zero result of the parser, also on -1
  ("error message", `ch_serial.h` 55): a bad checksum republishes the earlier data
  with a new stamp (`serial_imu.cpp` 57). Before the first frame it reads
  `item_code[-1]`.
- One laser that falls silent silences the merged scan.

## What could follow

`AgvHw` under the calls of `Hfsm` in place of `Robot`, as `Startup` has it for its
own calls, to see which cases of crosstalk the task node can produce after
start-up; the product of both state spaces is out of reach for the instances used
here, so it needs an abstraction of `AgvHw` first. The product of `Teleop` and
`Drive`, whose interface is the word on `/cmd_vel`, adds nothing to the two
properties that meet there, `ReleasedMeansZero` and `ComesToRest`, since `Drive`
allows any word at any time.

## Running it

    tlc -config MCPointMove.cfg MCPointMove.tla
    tlapm PointMoveProofs.tla

and likewise for the others; `PROJECT.json` pairs each run's module and
configuration. The longest runs, `hw_two_callers`, `hfsm` and `hfsm_live`, take one
to three minutes on two cores, the proofs less than a minute each.
