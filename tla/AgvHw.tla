------------------------------- MODULE AgvHw -------------------------------
(***************************************************************************)
(* The hardware node (agv_sim_robot_hw): spinner threads execute the       *)
(* service /robot_control (Grab_Server), the main thread writes the axes   *)
(* 200 times a second.  They share status_ and the motion card without a   *)
(* lock; Grab_Server stores the request's status in status_ and then       *)
(* branches on status_, which another call may have changed meanwhile.     *)
(* The motion card (ZAux) is external and modelled by what it answers.     *)
(***************************************************************************)
EXTENDS Integers

CONSTANTS
  Clients,     \* callers of /robot_control, served concurrently
  Modes,       \* the request.status values the callers use
  MaxTries     \* polls before a motion counts as failed (20 in the code)

\* grab_agv.srv: status 0 to 5
Statuses == {"stop", "agv_zero", "grab_zero", "both", "agv", "grab"}

ASSUME ModesAssumption == Modes \subseteq Statuses
ASSUME MaxTriesAssumption == MaxTries \in Nat \ {0}

VARIABLES
  status,      \* status_
  wst,         \* the status the current write() switches on, "none" between
  dac,         \* what has a DAC that is not zero: FRONT_STEER, BACK_STEER, wheels
  enabled,     \* all drive axes are enabled and in velocity mode
  datum,       \* the homing motion of a steering axis
  axis,        \* the two gripper axes
  pc,          \* where each call is in Grab_Server
  call,        \* the request each call carries
  tries,       \* tmp, the polls of the current motion
  ok,          \* what Grab_Server returned
  grab         \* response.grab_result

card == <<dac, enabled, datum, axis>>
server == <<pc, call, tries, ok, grab>>
vars == <<status, wst, card, server>>

Drives == {"front", "back", "wheel"}

\* MoveAbs leads from "moving" to "there", Vmove(-1) from "seeking" to "limit"
\* (axis status 32); Single_Cancel leaves an axis "halted" where it is.
AxisStates == {"halted", "moving", "there", "seeking", "limit"}
Pcs == {"idle", "grab", "open", "lift", "lifting", "home", "ahead", "front", "rear",
        "rearing", "zero", "reset", "opening", "lowering"}
\* width and high are below 900, that is, to be obeyed.  The callers of the other
\* modes leave them at 0 or at what the last gripper move had, and they count
\* when status_ turns the call into a gripper move.
Requests ==
  {r \in [mode : Modes, width : BOOLEAN, high : BOOLEAN] :
     r.mode \in {"both", "grab"} \/ (r.width /\ r.high)}
NoRequest == [mode |-> "none", width |-> FALSE, high |-> FALSE]

TypeOK ==
  /\ status \in Statuses
  /\ wst \in Statuses \cup {"none"}
  /\ dac \subseteq Drives
  /\ enabled \in BOOLEAN
  /\ datum \in {"none", "running", "home"}
  /\ axis \in [{"open", "lift"} -> AxisStates]
  /\ pc \in [Clients -> Pcs]
  /\ call \in [Clients -> Requests \cup {NoRequest}]
  /\ tries \in [Clients -> 0..MaxTries]
  /\ ok \in [Clients -> BOOLEAN]
  /\ grab \in [Clients -> BOOLEAN]

Init ==
  /\ status = "stop"
  /\ wst = "none"
  /\ dac = {}
  /\ enabled = TRUE
  /\ datum = "none"
  /\ axis = [a \in {"open", "lift"} |-> "halted"]
  /\ pc = [c \in Clients |-> "idle"]
  /\ call = [c \in Clients |-> NoRequest]
  /\ tries = [c \in Clients |-> 0]
  /\ ok = [c \in Clients |-> FALSE]
  /\ grab = [c \in Clients |-> FALSE]

Idle(a) == axis[a] \in {"halted", "there", "limit"}
Goto(c, where) == pc' = [pc EXCEPT ![c] = where]

-----------------------------------------------------------------------------
\* The main thread

\* write() evaluates switch (status_) ...
WriteSwitch ==
  /\ wst = "none"
  /\ wst' = status
  /\ UNCHANGED <<status, card, server>>

\* The DAC outputs a case may leave: 0 and 5 zero them, 3 and 4 write what the
\* wheel controller commands, 1 and 2 leave every DAC at its last value.
Outputs(mode) ==
  IF mode \in {"stop", "grab"} THEN {{}}
  ELSE IF mode \in {"both", "agv"} THEN {{}, Drives} ELSE {dac}

\* Mutant of WriteCase: in stop mode the gripper axes are not cancelled.
StopSparesGripper ==
  /\ wst # "none"
  /\ wst' = "none"
  /\ dac' \in Outputs(wst)
  /\ UNCHANGED <<status, enabled, axis, datum, server>>

\* Mutant of WriteCase: gripper-only mode is left to the default case.
GripCaseMissing ==
  /\ wst # "none"
  /\ wst' = "none"
  /\ dac' \in IF wst = "grab" THEN {dac} ELSE Outputs(wst)
  /\ UNCHANGED <<status, enabled, axis, datum, server>>

\* ... and runs the case; 0 also cancels whatever moves.
WriteCase ==
  /\ wst # "none"
  /\ wst' = "none"
  /\ dac' \in Outputs(wst)
  /\ IF wst = "stop"
       THEN /\ axis' = [a \in {"open", "lift"} |->
                          IF Idle(a) THEN axis[a] ELSE "halted"]
            /\ datum' = IF datum = "running" THEN "none" ELSE datum
       ELSE UNCHANGED <<axis, datum>>
  /\ UNCHANGED <<status, enabled, server>>

Loop == WriteSwitch \/ WriteCase

-----------------------------------------------------------------------------
\* Grab_Server

Request(c) ==
  /\ pc[c] = "idle"
  /\ \E r \in Requests :
       /\ call' = [call EXCEPT ![c] = r]
       /\ status' = r.mode
  /\ Goto(c, "grab")
  /\ ok' = [ok EXCEPT ![c] = FALSE]
  /\ grab' = [grab EXCEPT ![c] = FALSE]
  /\ tries' = [tries EXCEPT ![c] = 0]
  /\ UNCHANGED <<wst, card>>

\* if ((status_ == 3) || (status_ == 5)): the jaws first, if the width is valid
GrabBranch(c) ==
  /\ pc[c] = "grab"
  /\ IF status \in {"both", "grab"}
       THEN IF call[c].width
              THEN Goto(c, "open") /\ axis' = [axis EXCEPT !["open"] = "moving"]
              ELSE Goto(c, "lift") /\ UNCHANGED axis
       ELSE Goto(c, "home") /\ UNCHANGED axis
  /\ UNCHANGED <<status, wst, dac, enabled, datum, call, tries, ok, grab>>

\* Mutant of OpenPoll: the bound of the poll is off by one.
OpenPollOneMore(c) ==
  /\ pc[c] = "open"
  /\ IF Idle("open") \/ tries[c] = MaxTries + 1
       THEN Goto(c, "lift") /\ tries' = [tries EXCEPT ![c] = 0]
       ELSE tries' = [tries EXCEPT ![c] = @ + 1] /\ UNCHANGED pc
  /\ UNCHANGED <<status, wst, card, call, ok, grab>>

\* Idle or twentieth poll: on to the lift either way.
OpenPoll(c) ==
  /\ pc[c] = "open"
  /\ IF Idle("open") \/ tries[c] + 1 = MaxTries
       THEN Goto(c, "lift") /\ tries' = [tries EXCEPT ![c] = 0]
       ELSE tries' = [tries EXCEPT ![c] = @ + 1] /\ UNCHANGED pc
  /\ UNCHANGED <<status, wst, card, call, ok, grab>>

\* status_ is not looked at again before the lift is commanded.
LiftStart(c) ==
  /\ pc[c] = "lift"
  /\ IF call[c].high
       THEN Goto(c, "lifting") /\ axis' = [axis EXCEPT !["lift"] = "moving"]
       ELSE Goto(c, "home") /\ UNCHANGED axis
  /\ UNCHANGED <<status, wst, dac, enabled, datum, call, tries, ok, grab>>

\* Mutant of LiftPoll: no limit on the polls.
LiftPollForever(c) ==
  /\ pc[c] = "lifting"
  /\ Idle("lift")
  /\ Goto(c, "home")
  /\ tries' = [tries EXCEPT ![c] = 0]
  /\ grab' = [grab EXCEPT ![c] = TRUE]
  /\ UNCHANGED <<status, wst, card, call, ok>>

\* An idle axis counts as arrived, whatever stopped it.
LiftPoll(c) ==
  /\ pc[c] = "lifting"
  /\ IF Idle("lift") \/ tries[c] + 1 = MaxTries
       THEN /\ Goto(c, "home")
            /\ tries' = [tries EXCEPT ![c] = 0]
            /\ grab' = [grab EXCEPT ![c] = Idle("lift")]
       ELSE /\ tries' = [tries EXCEPT ![c] = @ + 1]
            /\ UNCHANGED <<pc, grab>>
  /\ UNCHANGED <<status, wst, card, call, ok>>

\* ZAux_BusCmd_Datum on one steering axis while the other is kept turning; when
\* the card refuses the command the wait for it is skipped, and with it the end of
\* that turning.
Datum(c, turned, polling, refused) ==
  /\ dac' = dac \cup {turned}
  /\ \/ Goto(c, polling) /\ datum' = "running"
     \/ Goto(c, refused) /\ UNCHANGED datum

\* if (status_ == 1): disable the wheels and let the robot come to rest, ...
HomeBranch(c) ==
  /\ pc[c] = "home"
  /\ IF status = "agv_zero"
       THEN Goto(c, "ahead") /\ enabled' = FALSE
       ELSE Goto(c, "reset") /\ UNCHANGED enabled
  /\ UNCHANGED <<status, wst, dac, datum, axis, call, tries, ok, grab>>

\* ... then the front steering axis, whatever status_ is by now
FrontStart(c) ==
  /\ pc[c] = "ahead"
  /\ Datum(c, "back", "front", "rear")
  /\ UNCHANGED <<status, wst, enabled, axis, call, tries, ok, grab>>

\* The other axis is turned the other way in the second half of the polls.  A
\* homing that ends on the last poll is reported as failed all the same.
DatumPoll(c, where, turned, next) ==
  /\ pc[c] = where
  /\ IF tries[c] + 1 = MaxTries \/ datum = "home"
       THEN /\ dac' = dac \ {turned}
            /\ tries' = [tries EXCEPT ![c] = 0]
            /\ Goto(c, IF tries[c] + 1 = MaxTries THEN "idle" ELSE next)
       ELSE /\ tries' = [tries EXCEPT ![c] = @ + 1]
            /\ dac' = IF tries'[c] > MaxTries \div 2 THEN dac \cup {turned} ELSE dac
            /\ UNCHANGED pc
  /\ UNCHANGED <<status, wst, enabled, datum, axis, call, ok, grab>>

FrontPoll(c) == DatumPoll(c, "front", "back", "rear")

RearStart(c) ==
  /\ pc[c] = "rear"
  /\ Datum(c, "front", "rearing", "zero")
  /\ enabled' = FALSE
  /\ UNCHANGED <<status, wst, axis, call, tries, ok, grab>>

RearPoll(c) == DatumPoll(c, "rearing", "front", "zero")

\* Mutant of ZeroDone: the axes disabled for the homing stay disabled.
ZeroWithoutEnable(c) ==
  /\ pc[c] = "zero"
  /\ Goto(c, "idle")
  /\ ok' = [ok EXCEPT ![c] = TRUE]
  /\ UNCHANGED <<status, wst, card, call, tries, grab>>

\* Enable all drive axes in velocity mode, tell the wheel controller.
ZeroDone(c) ==
  /\ pc[c] = "zero"
  /\ enabled' = TRUE
  /\ Goto(c, "idle")
  /\ ok' = [ok EXCEPT ![c] = TRUE]
  /\ UNCHANGED <<status, wst, dac, datum, axis, call, tries, grab>>

\* if (status_ == 2): the jaws open until they reach the limit switch
ResetBranch(c) ==
  /\ pc[c] = "reset"
  /\ IF status = "grab_zero"
       THEN /\ Goto(c, "opening")
            /\ axis' = [axis EXCEPT !["open"] = "seeking"]
            /\ grab' = [grab EXCEPT ![c] = FALSE]
            /\ UNCHANGED ok
       ELSE /\ Goto(c, "idle")
            /\ ok' = [ok EXCEPT ![c] = TRUE]
            /\ UNCHANGED <<axis, grab>>
  /\ UNCHANGED <<status, wst, dac, enabled, datum, call, tries>>

\* Here too the last poll fails even at the limit.
OpeningPoll(c) ==
  /\ pc[c] = "opening"
  /\ IF tries[c] + 1 = MaxTries
       THEN Goto(c, "idle") /\ tries' = [tries EXCEPT ![c] = 0] /\ UNCHANGED axis
       ELSE IF axis["open"] = "limit"
              THEN /\ Goto(c, "lowering")
                   /\ tries' = [tries EXCEPT ![c] = 0]
                   /\ axis' = [axis EXCEPT !["lift"] = "seeking"]
              ELSE tries' = [tries EXCEPT ![c] = @ + 1] /\ UNCHANGED <<pc, axis>>
  /\ UNCHANGED <<status, wst, dac, enabled, datum, call, ok, grab>>

LoweringPoll(c) ==
  /\ pc[c] = "lowering"
  /\ LET atLimit == axis["lift"] = "limit" IN
     IF atLimit \/ tries[c] + 1 = MaxTries
       THEN /\ Goto(c, "idle")
            /\ tries' = [tries EXCEPT ![c] = 0]
            /\ ok' = [ok EXCEPT ![c] = atLimit]
            /\ grab' = [grab EXCEPT ![c] = atLimit]
       ELSE tries' = [tries EXCEPT ![c] = @ + 1] /\ UNCHANGED <<pc, ok, grab>>
  /\ UNCHANGED <<status, wst, card, call>>

Serve(c) ==
  \/ GrabBranch(c) \/ OpenPoll(c) \/ LiftStart(c) \/ LiftPoll(c)
  \/ HomeBranch(c) \/ FrontStart(c) \/ FrontPoll(c) \/ RearStart(c) \/ RearPoll(c) \/ ZeroDone(c)
  \/ ResetBranch(c) \/ OpeningPoll(c) \/ LoweringPoll(c)

-----------------------------------------------------------------------------
\* The motion card: a commanded axis may arrive, or be blocked for ever.
AxisArrives(a) ==
  /\ \/ axis[a] = "moving" /\ axis' = [axis EXCEPT ![a] = "there"]
     \/ axis[a] = "seeking" /\ axis' = [axis EXCEPT ![a] = "limit"]
  /\ UNCHANGED <<status, wst, dac, enabled, datum, server>>

DatumArrives ==
  /\ datum = "running"
  /\ datum' = "home"
  /\ UNCHANGED <<status, wst, dac, enabled, axis, server>>

Next ==
  \/ Loop \/ DatumArrives
  \/ \E a \in {"open", "lift"} : AxisArrives(a)
  \/ \E c \in Clients : Request(c) \/ Serve(c)

Spec == Init /\ [][Next]_vars

\* The main loop and a served call keep running (every wait in Grab_Server is
\* bounded by its polls); callers and the card owe nothing.
Served(c) == WF_vars(Serve(c))
FairSpec ==
  /\ Spec
  /\ WF_vars(Loop)
  /\ \A c \in Clients : Served(c)

-----------------------------------------------------------------------------
Still == dac = {} /\ \A a \in {"open", "lift"} : Idle(a)

\* An emergency stop (status 0) that nobody lifts ends with every axis still,
\* for good: calls that were under way may still command a motion after the
\* stop, and each of these is cancelled by a later write cycle.
StopLatches == <>[](status = "stop") => <>[]Still

\* Gripper-only mode halts the wheels although a write cycle that switched on
\* an older status may still drive them once.
GripModeHaltsWheels == (status = "grab") ~> (dac = {} \/ status # "grab")

\* Every call returns, also one that runs through several branches because
\* other calls changed status_ under it.
Returns(c) == (pc[c] # "idle") ~> (pc[c] = "idle")
CallsReturn == \A c \in Clients : Returns(c)

\* A positive grab_result of a call that was to move the lift means the lift
\* stands at the commanded height.
GrabResultHonest ==
  \A c \in Clients :
    (pc[c] = "idle" /\ grab[c] /\ call[c].mode = "grab") =>
      axis["lift"] = "there"
=============================================================================
