------------------------------ MODULE TrackMove ------------------------------
(***************************************************************************)
(* The two older motion servers of agv_relative_move: move() follows a     *)
(* pair of AR markers (main.cpp), move_visual() the target of the camera   *)
(* (main_visual.cpp).  Either process advertises both services, so both    *)
(* state variables can be written in it; the control loop is the main      *)
(* thread, services and feedback topics are served by spinner threads.     *)
(* Accesses of the shared fields are steps of their own.                   *)
(***************************************************************************)
EXTENDS Naturals

CONSTANTS
  Modes,      \* the programs considered, of "ar" and "visual"
  Clients,    \* callers of the two services
  MaxTries,   \* seconds to wait for the target (20 in the code)
  MaxGood,    \* passes within tolerance that end a motion (10)
  MaxLost     \* passes without the target that end it (20 or 30)

ASSUME ModesAssumption == Modes \subseteq {"ar", "visual"}
ASSUME BoundsAssumption ==
  MaxTries \in Nat \ {0} /\ MaxGood \in Nat \ {0} /\ MaxLost \in Nat

VARIABLES
  mode,       \* which of the two programs this is
  state,      \* feedback_state_ ("ar") and visual_state_ ("visual")
  seen,       \* both markers, or the camera's target, are in the last feedback
  flag,       \* move_flag_: marker messages are looked at
  velocity,   \* last Twist on /cmd_vel
  pc,         \* where the main thread is
  tries,      \* count_resive_ar, count_resive_visual
  good,       \* tmp_cont
  lost,       \* leave_boundary_cont
  zeros,      \* pub_count_zero, 2 for any larger value
  spc,        \* where the service call of each client is
  crossed     \* history: a stop came in on the other program's service

counts == <<tries, good, lost, zeros>>
vars == <<mode, state, seen, flag, velocity, pc, counts, spc, crossed>>

\* enum State, and what an uninitialised field may hold
States == {"WAIT", "RUN", "COMPLATE", "INTE_STOP", "OUT", "NO_INIT", "garbage"}
LoopPcs == {"start", "poll", "await", "found", "check", "look", "drive", "leave", "zero", "pause"}
CallPcs == {"idle", "stop_ar", "stop_visual", "run_ar"}

TypeOK ==
  /\ mode \in Modes
  /\ state \in [{"ar", "visual"} -> States]
  /\ seen \in BOOLEAN /\ flag \in BOOLEAN
  /\ velocity \in {"none", "zero", "move"}
  /\ pc \in LoopPcs
  /\ tries \in 0..MaxTries
  /\ good \in 0..MaxGood
  /\ lost \in 0..MaxLost
  /\ zeros \in 0..2
  /\ spc \in [Clients -> CallPcs]
  /\ crossed \in BOOLEAN

\* The services are up before move() or move_visual() sets its state; in
\* move_visual pub_count_zero has no initial value.
Init ==
  /\ mode \in Modes
  /\ state \in [{"ar", "visual"} -> States]
  /\ seen \in BOOLEAN /\ flag \in BOOLEAN
  /\ velocity = "none"
  /\ pc = "start"
  /\ tries = 0 /\ good = 0 /\ lost = 0
  /\ zeros \in IF mode = "ar" THEN {0} ELSE 0..2
  /\ spc = [c \in Clients |-> "idle"]
  /\ crossed = FALSE

Become(which, value) == state' = [state EXCEPT ![which] = value]
Goto(c, where) == spc' = [spc EXCEPT ![c] = where]

-----------------------------------------------------------------------------
\* TrackCallback2 and TrackCallback_visual.  A query changes nothing.

\* case 0, first half
StopRequest(c, which) ==
  /\ spc[c] = "idle"
  /\ flag' = FALSE
  /\ Goto(c, IF which = "ar" THEN "stop_ar" ELSE "stop_visual")
  /\ crossed' = (crossed \/ which # mode)
  /\ UNCHANGED <<mode, state, seen, velocity, pc, counts>>

\* ... and second half
StopAccept(c, which) ==
  /\ spc[c] = IF which = "ar" THEN "stop_ar" ELSE "stop_visual"
  /\ Become(which, "INTE_STOP")
  /\ Goto(c, "idle")
  /\ UNCHANGED <<mode, seen, flag, velocity, pc, counts, crossed>>

\* case 1 of TrackCallback2, up to the reception of markers ...
ArCommand(c) ==
  /\ spc[c] = "idle"
  /\ flag' = TRUE
  /\ seen' = (seen /\ mode = "visual")
  /\ Goto(c, "run_ar")
  /\ UNCHANGED <<mode, state, velocity, pc, counts, crossed>>

\* ... and the state
ArAccept(c) ==
  /\ spc[c] = "run_ar"
  /\ Become("ar", "RUN")
  /\ Goto(c, "idle")
  /\ UNCHANGED <<mode, seen, flag, velocity, pc, counts, crossed>>

\* case 1 of TrackCallback_visual
VisualCommand(c) ==
  /\ spc[c] = "idle"
  /\ Become("visual", "RUN")
  /\ UNCHANGED <<mode, seen, flag, velocity, pc, counts, spc, crossed>>

\* get_targetpose turns the reception of markers on.
GetTarget(c) ==
  /\ spc[c] = "idle"
  /\ flag' = TRUE
  /\ UNCHANGED <<mode, state, seen, velocity, pc, counts, spc, crossed>>

\* pose_callback looks at the markers only while flag is set, visual_callback
\* always takes what the camera says.
Feedback ==
  /\ mode = "visual" \/ flag
  /\ seen' \in BOOLEAN
  /\ UNCHANGED <<mode, state, flag, velocity, pc, counts, spc, crossed>>

Accept(c) ==
  \/ ArAccept(c)
  \/ \E which \in {"ar", "visual"} : StopAccept(c, which)

Calls(c) ==
  \/ \E which \in {"ar", "visual"} : StopRequest(c, which)
  \/ ArCommand(c) \/ VisualCommand(c) \/ GetTarget(c) \/ Accept(c)

-----------------------------------------------------------------------------
\* move() and move_visual()

Start ==
  /\ pc = "start"
  /\ Become(mode, "WAIT")
  /\ pc' = "poll"
  /\ UNCHANGED <<mode, seen, flag, velocity, counts, spc, crossed>>

\* Mutant of Poll: RUN does not reset pub_count_zero.
PollKeepsCount ==
  /\ pc = "poll"
  /\ zeros' = IF state[mode] \in {"INTE_STOP", "OUT"} THEN 0 ELSE zeros
  /\ IF state[mode] = "RUN"
       THEN /\ pc' = "await" /\ tries' = 0
            /\ seen' = (seen /\ mode = "visual")
            /\ flag' = (flag \/ mode = "ar")
       ELSE pc' = "zero" /\ UNCHANGED <<tries, seen, flag>>
  /\ UNCHANGED <<mode, state, velocity, good, lost, spc, crossed>>

\* Mutant of Poll: the service thread has already asked for markers.
PollTrustsFlag ==
  /\ pc = "poll"
  /\ zeros' = IF state[mode] \in {"RUN", "INTE_STOP", "OUT"} THEN 0 ELSE zeros
  /\ IF state[mode] = "RUN"
       THEN pc' = "await" /\ tries' = 0
       ELSE pc' = "zero" /\ UNCHANGED tries
  /\ UNCHANGED <<mode, state, seen, flag, velocity, good, lost, spc, crossed>>

\* The switch; RUN of move() also forgets the markers and asks for new ones.
Poll ==
  /\ pc = "poll"
  /\ zeros' = IF state[mode] \in {"RUN", "INTE_STOP", "OUT"} THEN 0 ELSE zeros
  /\ IF state[mode] = "RUN"
       THEN /\ pc' = "await" /\ tries' = 0
            /\ seen' = (seen /\ mode = "visual")
            /\ flag' = (flag \/ mode = "ar")
       ELSE pc' = "zero" /\ UNCHANGED <<tries, seen, flag>>
  /\ UNCHANGED <<mode, state, velocity, good, lost, spc, crossed>>

\* One look per second; the twentieth gives up, whatever the state is by then.
Await ==
  /\ pc = "await"
  /\ IF seen
       THEN pc' = "found" /\ UNCHANGED <<state, tries>>
       ELSE /\ tries' = tries + 1
            /\ IF tries' = MaxTries
                 THEN pc' = "found" /\ Become(mode, "OUT")
                 ELSE UNCHANGED <<pc, state>>
  /\ UNCHANGED <<mode, seen, flag, velocity, good, lost, zeros, spc, crossed>>

Found ==
  /\ pc = "found"
  /\ IF state[mode] \in {"OUT", "INTE_STOP"}
       THEN pc' = "zero" /\ UNCHANGED <<good, lost>>
       ELSE pc' = "check" /\ good' = 0 /\ lost' = 0
  /\ UNCHANGED <<mode, state, seen, flag, velocity, tries, zeros, spc, crossed>>

\* Mutant of Check: no test for a stop.
CheckNothing ==
  /\ pc = "check"
  /\ pc' = "look"
  /\ UNCHANGED <<mode, state, seen, flag, velocity, counts, spc, crossed>>

\* Both loops test feedback_state_ here.
Check ==
  /\ pc = "check"
  /\ pc' = IF state["ar"] = "INTE_STOP" THEN "leave" ELSE "look"
  /\ UNCHANGED <<mode, state, seen, flag, velocity, counts, spc, crossed>>

\* Mutant of Look: passes without the target are not counted.
LookWithoutLimit ==
  /\ pc = "look"
  /\ IF ~seen
       THEN pc' = "check" /\ UNCHANGED good
       ELSE pc' = "drive" /\ good' \in {0, good + 1}
  /\ UNCHANGED <<mode, state, seen, flag, velocity, tries, lost, zeros, spc, crossed>>

\* Target lost: straight to the next pass, and OUT when the limit is passed.
\* Otherwise the error is within tolerance, or not.
Look ==
  /\ pc = "look"
  /\ IF ~seen
       THEN /\ IF lost = MaxLost
                 THEN pc' = "leave" /\ Become(mode, "OUT") /\ UNCHANGED lost
                 ELSE pc' = "check" /\ lost' = lost + 1 /\ UNCHANGED state
            /\ UNCHANGED good
       ELSE pc' = "drive" /\ lost' = 0 /\ good' \in {0, good + 1} /\ UNCHANGED state
  /\ UNCHANGED <<mode, seen, flag, velocity, tries, zeros, spc, crossed>>

\* Mutant of Drive: one pass within tolerance too many.
DriveOnceMore ==
  /\ pc = "drive"
  /\ velocity' = "move"
  /\ pc' = IF good > MaxGood THEN "leave" ELSE "check"
  /\ UNCHANGED <<mode, state, seen, flag, counts, spc, crossed>>

Drive ==
  /\ pc = "drive"
  /\ velocity' = "move"
  /\ pc' = IF good = MaxGood THEN "leave" ELSE "check"
  /\ UNCHANGED <<mode, state, seen, flag, counts, spc, crossed>>

\* Mutant of Leave: back to the switch without a zero velocity.
LeaveSilently ==
  /\ pc = "leave"
  /\ Become(mode, "WAIT")
  /\ pc' = "pause"
  /\ UNCHANGED <<mode, seen, flag, velocity, counts, spc, crossed>>

\* Written over OUT, and over whatever the services stored meanwhile.
Leave ==
  /\ pc = "leave"
  /\ Become(mode, "WAIT")
  /\ pc' = "zero"
  /\ UNCHANGED <<mode, seen, flag, velocity, counts, spc, crossed>>

Zero ==
  /\ pc = "zero"
  /\ IF zeros < 2
       THEN velocity' = "zero" /\ zeros' = zeros + 1
       ELSE UNCHANGED <<velocity, zeros>>
  /\ pc' = "pause"
  /\ UNCHANGED <<mode, state, seen, flag, tries, good, lost, spc, crossed>>

\* usleep, after which move() takes no more markers.
Pause ==
  /\ pc = "pause"
  /\ flag' = (flag /\ mode = "visual")
  /\ pc' = "poll"
  /\ UNCHANGED <<mode, state, seen, velocity, counts, spc, crossed>>

Loop ==
  \/ Start \/ Poll \/ Await \/ Found \/ Check \/ Look \/ Drive \/ Leave \/ Zero \/ Pause

Next == Loop \/ Feedback \/ \E c \in Clients : Calls(c)

Spec == Init /\ [][Next]_vars

\* Every wait of the main thread is a sleep, and a service call has none;
\* nobody has to call, nor has the target to be in sight or within reach.
FairSpec ==
  /\ Spec
  /\ WF_vars(Loop)
  /\ \A c \in Clients : WF_vars(Accept(c))

-----------------------------------------------------------------------------
\* The robot stands while the server waits for a command or, up to twenty
\* seconds, for the first sight of its target: the counted zeros that end each
\* motion are enough, whatever interrupted it and however pub_count_zero began.
StandsUntilFound == pc \in {"start", "poll", "await", "found"} => velocity # "move"

\* move() drives on what it sees: in the control loop the reception of markers
\* is on, although every stop and the end of every motion switch it off, unless
\* the stop came in on the visual service, which leaves the AR motion running.
DrivesBySight ==
  (mode = "ar" /\ pc \in {"check", "look", "drive"} /\ state["ar"] = "RUN") =>
    flag \/ crossed \/ \E c \in Clients : spc[c] = "stop_ar"

\* A target that is out of sight for good brings the robot to a halt for good,
\* although the pass that loses it publishes nothing, and also when commands
\* keep coming.
LostTargetHalts == <>[]~seen => <>[](velocity # "move")

\* reltive_move.cpp:762 "on a stop command leave the control loop": a stop of
\* the AR server halts the robot, unless a new target is taken.
StopHalts ==
  (mode = "ar" /\ state["ar"] = "INTE_STOP") ~> (velocity # "move" \/ state["ar"] = "RUN")

\* reltive_move.cpp:582, the same comment for the visual server
VisualStopHalts ==
  (mode = "visual" /\ state["visual"] = "INTE_STOP") ~>
    (velocity # "move" \/ state["visual"] = "RUN")

\* A server that has given its motion up or ended it (WAIT is stored before the
\* zero velocity is sent) does halt, though a new command may follow at once.
FreeHalts == (state[mode] \in {"WAIT", "OUT"}) ~> (velocity # "move")
=============================================================================
