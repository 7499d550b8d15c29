------------------------------ MODULE PointMove ------------------------------
(***************************************************************************)
(* The visual point-move server: agv_relative_move run in POINT_MOVE mode  *)
(* (main_visual_point.cpp).  Spinner threads execute the service           *)
(* /visual_point_move; the main thread calls move_point_visual 20 times a  *)
(* second.  They share point_move_struct_ without a lock, so every access  *)
(* of its fields is a step of its own here.                                *)
(***************************************************************************)
CONSTANTS
  Clients     \* callers of the service, served concurrently

VARIABLES
  state,      \* point_move_struct_.state
  far,        \* the robot is farther from w2target than max_err allows
  velocity,   \* last Twist on /cmd_vel, latched by the wheel controller
  lpc,        \* where the main thread is in move_point_visual
  spc,        \* where the service call of each client is
  ready,      \* history: a query of the client was answered true, and
              \* nobody has asked for anything since
  rushed,     \* history: a command came unannounced or two requests overlapped
  pending     \* history: a target was accepted and not reached, stopped
              \* or given up since

vars == <<state, far, velocity, lpc, spc, ready, rushed, pending>>

\* enum State, and any other value the uninitialised field may hold.
States == {"WAIT", "RUN", "COMPLATE", "INTE_STOP", "OUT", "NO_INIT", "garbage"}
LoopPcs == {"poll", "lookup", "drive", "arrive", "done", "brake", "settle"}

TypeOK ==
  /\ state \in States
  /\ far \in BOOLEAN
  /\ velocity \in {"none", "zero", "move"}
  /\ lpc \in LoopPcs
  /\ spc \in [Clients -> {"idle", "lookup", "accept"}]
  /\ ready \in [Clients -> BOOLEAN]
  /\ rushed \in BOOLEAN
  /\ pending \in BOOLEAN

\* init() sets the PID gains and error limits only: state and w2target keep
\* what was on the stack of main().
Init ==
  /\ state \in States
  /\ far \in BOOLEAN
  /\ velocity = "none"
  /\ lpc = "poll"
  /\ spc = [c \in Clients |-> "idle"]
  /\ ready = [c \in Clients |-> FALSE]
  /\ rushed = FALSE
  /\ pending = FALSE

-----------------------------------------------------------------------------
\* TrackCallback_pointmove_visual, one operator per access of the shared fields

Overlapping == \E c \in Clients : spc[c] # "idle"

\* case 0
StopRequest(c) ==
  /\ spc[c] = "idle"
  /\ state' = "INTE_STOP"
  /\ ready' = [d \in Clients |-> FALSE]
  /\ rushed' = (rushed \/ Overlapping)
  /\ pending' = FALSE
  /\ UNCHANGED <<far, velocity, lpc, spc>>

\* case 1, up to the wait for the camera transform
CommandRequest(c) ==
  /\ spc[c] = "idle"
  /\ spc' = [spc EXCEPT ![c] = "lookup"]
  /\ rushed' = (rushed \/ Overlapping \/ ~ready[c])
  /\ ready' = [d \in Clients |-> FALSE]
  /\ UNCHANGED <<state, far, velocity, lpc, pending>>

\* The transform is there: w2target is overwritten.
StoreTarget(c) ==
  /\ spc[c] = "lookup"
  /\ far' \in BOOLEAN
  /\ spc' = [spc EXCEPT ![c] = "accept"]
  /\ UNCHANGED <<state, velocity, lpc, ready, rushed, pending>>

\* No transform: the call ends with success left false, the state as it was.
CommandLookupFails(c) ==
  /\ spc[c] = "lookup"
  /\ spc' = [spc EXCEPT ![c] = "idle"]
  /\ UNCHANGED <<state, far, velocity, lpc, ready, rushed, pending>>

\* Mutant of AcceptCommand: the number of the request is stored for the state.
AcceptStoresRequest(c) ==
  /\ spc[c] = "accept"
  /\ state' = "CMD_1"
  /\ pending' = TRUE
  /\ spc' = [spc EXCEPT ![c] = "idle"]
  /\ UNCHANGED <<far, velocity, lpc, ready, rushed>>

AcceptCommand(c) ==
  /\ spc[c] = "accept"
  /\ state' = "RUN"
  /\ pending' = TRUE
  /\ spc' = [spc EXCEPT ![c] = "idle"]
  /\ UNCHANGED <<far, velocity, lpc, ready, rushed>>

\* Mutant of Query: COMPLATE answers true as well.
QueryCountsComplete(c) ==
  /\ spc[c] = "idle"
  /\ ready' = [ready EXCEPT ![c] = (state \in {"WAIT", "COMPLATE"})]
  /\ rushed' = (rushed \/ Overlapping)
  /\ UNCHANGED <<state, far, velocity, lpc, spc, pending>>

\* case 2: only WAIT answers true; an unknown state leaves success false.
Query(c) ==
  /\ spc[c] = "idle"
  /\ ready' = [ready EXCEPT ![c] = (state = "WAIT")]
  /\ rushed' = (rushed \/ Overlapping)
  /\ UNCHANGED <<state, far, velocity, lpc, spc, pending>>

Serve(c) == StoreTarget(c) \/ CommandLookupFails(c) \/ AcceptCommand(c)

-----------------------------------------------------------------------------
\* move_point_visual

\* Mutant of Poll: the case INTE_STOP is missing from the switch.
PollIgnoresStop ==
  /\ lpc = "poll"
  /\ \/ state = "RUN" /\ lpc' = "lookup"
     \/ state \in {"COMPLATE", "OUT"} /\ lpc' = "brake"
  /\ UNCHANGED <<state, far, velocity, spc, ready, rushed, pending>>

\* The switch reads the state once; the other cases do nothing.
Poll ==
  /\ lpc = "poll"
  /\ \/ state = "RUN" /\ lpc' = "lookup"
     \/ state \in {"INTE_STOP", "COMPLATE", "OUT"} /\ lpc' = "brake"
  /\ UNCHANGED <<state, far, velocity, spc, ready, rushed, pending>>

\* The error is that of this moment, to the w2target of this moment.
Track ==
  /\ lpc = "lookup"
  /\ lpc' = IF far THEN "drive" ELSE "arrive"
  /\ pending' = (pending /\ far)
  /\ UNCHANGED <<state, far, velocity, spc, ready, rushed>>

TrackLookupFails ==
  /\ lpc = "lookup"
  /\ state' = "INTE_STOP"
  /\ lpc' = "poll"
  /\ pending' = FALSE
  /\ UNCHANGED <<far, velocity, spc, ready, rushed>>

\* A nonzero command.
PublishDrive ==
  /\ lpc = "drive"
  /\ velocity' = "move"
  /\ lpc' = "poll"
  /\ UNCHANGED <<state, far, spc, ready, rushed, pending>>

\* Mutant of PublishArrived: the last driving velocity stays on /cmd_vel.
ArriveSilently ==
  /\ lpc = "arrive"
  /\ lpc' = "done"
  /\ UNCHANGED <<state, far, velocity, spc, ready, rushed, pending>>

PublishArrived ==
  /\ lpc = "arrive"
  /\ velocity' = "zero"
  /\ lpc' = "done"
  /\ UNCHANGED <<state, far, spc, ready, rushed, pending>>

\* Mutant of Complete: the state is left at RUN.
CompleteForgets ==
  /\ lpc = "done"
  /\ lpc' = "poll"
  /\ UNCHANGED <<state, far, velocity, spc, ready, rushed, pending>>

\* Written whatever the service threads stored since the switch read RUN.
Complete ==
  /\ lpc = "done"
  /\ state' = "COMPLATE"
  /\ lpc' = "poll"
  /\ UNCHANGED <<far, velocity, spc, ready, rushed, pending>>

\* Mutant of PublishBrake: no zero velocity is published.
BrakeSilently ==
  /\ lpc = "brake"
  /\ lpc' = "settle"
  /\ UNCHANGED <<state, far, velocity, spc, ready, rushed, pending>>

PublishBrake ==
  /\ lpc = "brake"
  /\ velocity' = "zero"
  /\ lpc' = "settle"
  /\ UNCHANGED <<state, far, spc, ready, rushed, pending>>

\* After sleep(1): what was requested during the second is overwritten.
Settle ==
  /\ lpc = "settle"
  /\ state' = "WAIT"
  /\ lpc' = "poll"
  /\ UNCHANGED <<far, velocity, spc, ready, rushed, pending>>

Loop ==
  \/ Poll \/ Track \/ TrackLookupFails \/ PublishDrive \/ PublishArrived
  \/ Complete \/ PublishBrake \/ Settle

\* The robot comes to its target or leaves it: driven, blocked, pushed by hand
\* or by another node's words.  Nothing makes it arrive.
RobotMoves ==
  /\ far' = ~far
  /\ UNCHANGED <<state, velocity, lpc, spc, ready, rushed, pending>>

Next ==
  \/ Loop
  \/ RobotMoves
  \/ \E c \in Clients :
       StopRequest(c) \/ CommandRequest(c) \/ Query(c) \/ Serve(c)

Spec == Init /\ [][Next]_vars

\* ros::Rate paces the main thread for ever and a waitForTransform ends after
\* 3 s, so both threads keep stepping; nobody is obliged to call.
FairSpec ==
  /\ Spec
  /\ WF_vars(Loop)
  /\ \A c \in Clients : WF_vars(Serve(c))

-----------------------------------------------------------------------------
\* A server that tells its client "you may send me a command" has already
\* latched a zero velocity: neither a late publish of the control pass nor the
\* writes that race with it (COMPLATE or WAIT over a fresh RUN or INTE_STOP)
\* can leave the robot driving under a server that says it is free.
StillWhenFree == state \in {"WAIT", "COMPLATE"} => velocity # "move"

\* The two threads together keep the contract of MotionServer.
Contract == INSTANCE MotionServer WITH
  free <- state = "WAIT",
  moving <- velocity = "move"
ImplementsContract == Contract!Spec

\* An accepted target is never swallowed: when the server says it is free, no
\* target it took is unfinished.
NoCommandLost == state = "WAIT" => ~pending

\* visual_point_move.srv: true in answer to a query means "you may send me a
\* command".  That is all it takes: as long as every command follows a true
\* answer and no two requests overlap, the control thread overwrites none.
NoCommandLostUnlessRushed == rushed \/ NoCommandLost

\* A stop request halts the robot, though the control pass may overwrite it
\* and may still publish one velocity after it, unless a new target is taken.
StopHalts ==
  (state = "INTE_STOP") ~> (velocity # "move" \/ state = "RUN")

\* A robot that has come to its target to stay, with no more targets on their
\* way, ends its motion: the server leaves RUN and the robot stands, for good,
\* whatever stops and queries come and whatever the pass under way has read.
\* That it comes there is nothing the server sees to: it has no time limit.
ReachedEnds ==
  <>[](~far /\ ~Overlapping) => <>[](state # "RUN" /\ velocity # "move")
=============================================================================
