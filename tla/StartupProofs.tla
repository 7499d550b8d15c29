--------------------------- MODULE StartupProofs ---------------------------
(***************************************************************************)
(* Proofs about the start-up, for any number of polls, any buttons and any *)
(* number of presses.                                                      *)
(***************************************************************************)
EXTENDS Startup, AgvHwProofs

\* A thread that serves a button knows which.
ButtonKnown == at["button"] = "idle" \/ button \in Buttons

\* The types of the task node's own variables
TaskType ==
  /\ up \in BOOLEAN
  /\ request \in {"stop", "agv_zero", "grab_zero", "agv", "grab"}
  /\ response \in [agv : BOOLEAN, grab : BOOLEAN]
  /\ at \in [Threads -> MainAt \cup ButtonAt]
  /\ at["main"] \in MainAt /\ at["button"] \in ButtonAt
  /\ stage \in {"agv_zero", "grab_zero"}
  /\ button \in Buttons \cup {"none"}
  /\ presses \in 0..Presses
  /\ name \in {"HardwareInit", "Start", "Idle", "Telecontrol"}
  /\ ButtonKnown

StartupTypeInv == TypeInv /\ TaskType

Unpressed ==
  /\ at["button"] = "idle"
  /\ ResetInv("main")
  /\ call["main"].mode \in {"none", "agv_zero", "grab_zero"}
  /\ stage = "agv_zero" => call["main"].mode # "grab_zero"
  /\ pc["main"] # "idle" => at["main"] = "wait" /\ up
  /\ at["main"] = "call" => request = stage
  /\ ~response.agv
  /\ response.grab => grab["main"] /\ at["main"] \in {"check", "ready", "loop"}
  /\ (at["main"] # "wait" /\ grab["main"]) => response.grab
  /\ at["main"] = "ready" => response.grab

UnpressedInv == presses = 0 => Unpressed

LEMMA HwUnchangedKeepsType ==
  ASSUME TypeInv, UNCHANGED hw
  PROVE  TypeInv'
BY DEF hw, vars, card, server, TypeInv, TypeOK, PollBound

LEMMA KilledKeepsType ==
  ASSUME TypeInv, Killed
  PROVE  TypeInv' /\ up' \in BOOLEAN
<1>1. tries' \in [Clients -> 0..MaxTries] /\ PollBound'
  BY CallersAssumption, MaxTriesAssumption DEF Killed, PollBound
<1>2. /\ pc' \in [Clients -> Pcs]
      /\ ok' \in [Clients -> BOOLEAN]
  BY CallersAssumption DEF Killed, Pcs, TypeInv, TypeOK
<1> QED BY <1>1, <1>2 DEF Killed, TypeInv, TypeOK

\* What CallThen leaves of the types
LEMMA CallThenType ==
  ASSUME TaskType, NEW t \in Threads, NEW success \in BOOLEAN, CallThen(t, success),
         at[t] \in {"call", "wait"}
  PROVE  /\ at' \in [Threads -> MainAt \cup ButtonAt]
         /\ at'["main"] \in MainAt /\ at'["button"] \in ButtonAt
         /\ button' \in Buttons \cup {"none"}
         /\ name' \in {"HardwareInit", "Start", "Idle", "Telecontrol"}
         /\ ButtonKnown'
<1> USE DEF TaskType, ButtonKnown, Threads, MainAt, ButtonAt
<1>1. CASE t = "main"
  BY <1>1 DEF CallThen, Step
<1>2. CASE t = "button" /\ success /\ button = "grab_reset"
  BY <1>2 DEF CallThen, ButtonThen, Step
<1>3. CASE t = "button" /\ ~(success /\ button = "grab_reset")
  BY <1>3 DEF CallThen, ButtonThen, Step
<1> QED BY <1>1, <1>2, <1>3

LEMMA CallsKeepType ==
  ASSUME StartupTypeInv, NEW t \in Threads, Calls(t)
  PROVE  StartupTypeInv'
<1>1. TypeInv /\ TaskType
  BY DEF StartupTypeInv
<1>2. CASE SetStatus(t)
  <2>1. UNCHANGED <<hw, up, response, stage, button, presses, name>>
    BY <1>2 DEF SetStatus
  <2>2. /\ at' \in [Threads -> MainAt \cup ButtonAt]
        /\ at'["main"] \in MainAt /\ at'["button"] \in ButtonAt
        /\ at["button"] = "idle" => at'["button"] = "idle"
    BY <1>1, <1>2 DEF SetStatus, Step, TaskType, Threads, MainAt, ButtonAt
  <2>3. request' \in {"stop", "agv_zero", "grab_zero", "agv", "grab"}
    <3>1. CASE t = "main"
      BY <1>1, <1>2, <3>1 DEF SetStatus, Wanted, TaskType
    <3>2. CASE t = "button"
      <4>1. button \in {"stop", "unlock", "grab_reset", "grip"}
        BY <1>1, <1>2, <3>2, ButtonsAssumption DEF SetStatus, TaskType, ButtonKnown
      <4>2. request' = StatusOf[button]
        BY <1>2, <3>2 DEF SetStatus, Wanted
      <4>3. /\ StatusOf["stop"] = "stop" /\ StatusOf["unlock"] = "agv"
            /\ StatusOf["grab_reset"] = "grab_zero" /\ StatusOf["grip"] = "grab"
        BY DEF StatusOf
      <4> QED BY <4>1, <4>2, <4>3
    <3> QED BY <3>1, <3>2 DEF Threads
  <2>4. ButtonKnown'
    BY <1>1, <2>1, <2>2 DEF TaskType, ButtonKnown
  <2> QED BY <1>1, <2>1, <2>2, <2>3, <2>4, HwUnchangedKeepsType DEF TaskType, StartupTypeInv
<1>3. CASE Send(t)
  <2>1. TypeInv'
    BY <1>1, <1>3, RequestKeepsType, CallersAssumption DEF Send
  <2>2. TaskType'
    BY <1>1, <1>3 DEF Send, Step, TaskType, ButtonKnown, Threads, MainAt, ButtonAt, srv
  <2> QED BY <2>1, <2>2 DEF StartupTypeInv
<1>4. CASE SendFails(t)
  <2>1. UNCHANGED <<hw, up, srv, stage, presses>> /\ CallThen(t, FALSE) /\ at[t] = "call"
    BY <1>4 DEF SendFails
  <2> QED BY <1>1, <2>1, CallThenType, HwUnchangedKeepsType DEF TaskType, srv, StartupTypeInv
<1>5. CASE Answer(t)
  <2>1. /\ UNCHANGED <<hw, up, request, stage, presses>>
        /\ CallThen(t, ok[t]) /\ at[t] = "wait"
    BY <1>5 DEF Answer
  <2>2. ok[t] \in BOOLEAN /\ grab[t] \in BOOLEAN
    BY <1>1, CallersAssumption DEF TypeInv, TypeOK
  <2>3. response' \in [agv : BOOLEAN, grab : BOOLEAN]
    BY <1>1, <1>5, <2>2 DEF Answer, TaskType
  <2> QED BY <1>1, <2>1, <2>2, <2>3, CallThenType, HwUnchangedKeepsType DEF TaskType, StartupTypeInv
<1> QED BY <1>2, <1>3, <1>4, <1>5 DEF Calls

LEMMA StartupTypeInvariant == StartupSpec => []StartupTypeInv
<1>1. StartupInit => StartupTypeInv
  <2> SUFFICES ASSUME StartupInit PROVE StartupTypeInv
    OBVIOUS
  <2>1. TypeInv
    BY InitType DEF StartupInit
  <2>2. TaskType
    BY PressesAssumption DEF StartupInit, TaskType, ButtonKnown, Threads, MainAt, ButtonAt
  <2> QED BY <2>1, <2>2 DEF StartupTypeInv
<1>2. StartupTypeInv /\ [StartupNext]_startupVars => StartupTypeInv'
  <2> SUFFICES ASSUME StartupTypeInv, [StartupNext]_startupVars PROVE StartupTypeInv'
    OBVIOUS
  <2>0. TypeInv /\ TaskType
    BY DEF StartupTypeInv
  <2> USE DEF srv, task
  <2>1. CASE HwStep
    <3>1. TypeInv'
      BY <2>0, <2>1, LoopKeepsType, ServeKeepsType, CallersAssumption DEF HwStep
    <3> QED BY <2>0, <2>1, <3>1 DEF StartupTypeInv, HwStep, TaskType, ButtonKnown
  <2>2. CASE Respawn
    BY <2>0, <2>2
       DEF StartupTypeInv, Respawn, TaskType, ButtonKnown, TypeInv, TypeOK, PollBound, server, Statuses
  <2>3. CASE NodesThere \/ GripperReady \/ Started
    <3>1. UNCHANGED <<hw, up, srv, stage, button, presses>>
      BY <2>3 DEF NodesThere, GripperReady, Started
    <3>2. /\ at' \in [Threads -> MainAt \cup ButtonAt]
          /\ at'["main"] \in MainAt /\ at'["button"] = at["button"]
          /\ name' \in {"HardwareInit", "Start", "Idle", "Telecontrol"}
      BY <2>0, <2>3
         DEF NodesThere, GripperReady, Started, Step, TaskType, Threads, MainAt, ButtonAt
    <3> QED BY <2>0, <3>1, <3>2, HwUnchangedKeepsType DEF TaskType, ButtonKnown, StartupTypeInv
  <2>4. CASE NodesMissing \/ CheckSteering \/ GripperFailed
    <3>1. UNCHANGED <<srv, button, presses, name>>
      BY <2>4 DEF NodesMissing, CheckSteering, GripperFailed
    <3>2. /\ at' \in [Threads -> MainAt \cup ButtonAt]
          /\ at'["main"] \in MainAt /\ at'["button"] = at["button"]
          /\ stage' \in {"agv_zero", "grab_zero"}
      BY <2>0, <2>4 DEF NodesMissing, CheckSteering, GripperFailed, Step, TaskType, Threads,
                        MainAt, ButtonAt
    <3>3. Killed \/ UNCHANGED <<hw, up>>
      BY <2>4 DEF NodesMissing, CheckSteering, GripperFailed
    <3>4. TypeInv' /\ up' \in BOOLEAN
      <4>1. CASE Killed
        BY <2>0, <4>1, KilledKeepsType
      <4>2. CASE UNCHANGED <<hw, up>>
        BY <2>0, <4>2, HwUnchangedKeepsType DEF TaskType
      <4> QED BY <3>3, <4>1, <4>2
    <3> QED BY <2>0, <3>1, <3>2, <3>4 DEF StartupTypeInv, TaskType, ButtonKnown
  <2>5. CASE Press \/ ResetReported
    <3>1. UNCHANGED <<hw, up, srv, stage>>
      BY <2>5 DEF Press, ResetReported
    <3>2. /\ at' \in [Threads -> MainAt \cup ButtonAt]
          /\ at'["main"] = at["main"] /\ at'["button"] \in ButtonAt
          /\ button' \in Buttons \cup {"none"}
          /\ presses' \in 0..Presses
          /\ name' \in {"HardwareInit", "Start", "Idle", "Telecontrol"}
          /\ ButtonKnown'
      BY <2>0, <2>5, PressesAssumption
         DEF Press, ResetReported, Step, TaskType, ButtonKnown, Threads, MainAt, ButtonAt
    <3> QED BY <2>0, <3>1, <3>2, HwUnchangedKeepsType DEF TaskType, StartupTypeInv
  <2>6. CASE \E t \in Threads : Calls(t)
    BY <2>6, CallsKeepType
  <2>7. CASE UNCHANGED startupVars
    BY <2>0, <2>7, HwUnchangedKeepsType DEF StartupTypeInv, startupVars, TaskType, ButtonKnown
  <2> QED BY <2>1, <2>2, <2>3, <2>4, <2>5, <2>6, <2>7 DEF StartupNext, Main, Button, Threads
<1> QED BY <1>1, <1>2, PTL DEF StartupSpec

\* Every variable of both nodes keeps its type, through kills and respawns of the
\* hardware node and the calls of both threads.
THEOREM StartupTypeCorrect == StartupSpec => []StartupTypeOK
<1>1. StartupTypeInv => StartupTypeOK
  BY DEF StartupTypeInv, StartupTypeOK, TypeInv, TaskType
<1> QED BY <1>1, StartupTypeInvariant, PTL
-----------------------------------------------------------------------------
LEMMA HwUnchangedKeepsReset ==
  ASSUME NEW c \in Clients, ResetInv(c), UNCHANGED hw
  PROVE  ResetInv(c)'
BY DEF hw, vars, card, server, ResetInv, Zeroed

\* Killing the node before it has given a positive answer
LEMMA KilledKeepsReset ==
  ASSUME TypeOK, ResetInv("main"), ~grab["main"], Killed
  PROVE  ResetInv("main")' /\ UNCHANGED <<call, grab>> /\ pc'["main"] = "idle"
BY CallersAssumption DEF ResetInv, Killed, Threads

\* The hardware node steps, the main thread may be waiting for it.
LEMMA HwKeepsUnpressed ==
  ASSUME TypeOK, TaskType, Unpressed, HwStep
  PROVE  Unpressed'
<1>1. "main" \in Clients /\ "button" \in Clients
  BY CallersAssumption DEF Threads
<1>2. ResetInv("main")'
  BY <1>1, LoopKeepsReset, ServeKeepsReset, CallersAssumption DEF HwStep, Unpressed
<1>3. up' /\ UNCHANGED <<srv, at, stage, button, presses>>
  BY DEF HwStep, task
<1>4. CASE Loop \/ DatumArrives \/ \E a \in {"open", "lift"} : AxisArrives(a)
  <2>1. UNCHANGED <<pc, call, grab>>
    BY <1>4 DEF Loop, WriteSwitch, WriteCase, DatumArrives, AxisArrives, server
  <2> QED BY <1>2, <1>3, <2>1 DEF Unpressed, srv
<1>5. ASSUME NEW t \in Threads, Serve(t)
      PROVE  Unpressed'
  <2>1. UNCHANGED call /\ pc[t] # "idle"
    BY <1>5 DEF Serve, GrabBranch, OpenPoll, LiftStart, LiftPoll, HomeBranch, FrontStart,
                FrontPoll, RearStart, RearPoll, DatumPoll, ZeroDone, ResetBranch, OpeningPoll,
                LoweringPoll
  <2>2. at["main"] = "wait"
    BY <1>1, <2>1, CallersAssumption DEF Unpressed, ResetInv, Threads
  <2> QED BY <1>2, <1>3, <2>1, <2>2 DEF Unpressed, srv
<1> QED BY <1>4, <1>5 DEF HwStep

LEMMA CallsKeepUnpressed ==
  ASSUME TypeOK, TaskType, Unpressed, Calls("main")
  PROVE  Unpressed'
<1>1. "main" \in Clients
  BY CallersAssumption DEF Threads
<1> USE DEF Unpressed
<1>2. CASE SetStatus("main")
  BY <1>1, <1>2, HwUnchangedKeepsReset
     DEF SetStatus, Wanted, Step, TaskType, Threads, hw, vars, server
<1>3. CASE Send("main")
  <2>1. ResetInv("main")'
    BY <1>1, <1>3, RequestKeepsReset DEF Send
  <2>2. PICK r \in Requests : call' = [call EXCEPT !["main"] = r] /\ status' = r.mode
    BY <1>3 DEF Send, Request
  <2>3. call'["main"].mode = stage /\ grab'["main"] = FALSE
    BY <1>1, <1>3, <2>2 DEF Send, Request, TypeOK
  <2> QED BY <1>3, <2>1, <2>3 DEF Send, Step, TaskType, Threads, srv
<1>4. CASE SendFails("main")
  BY <1>1, <1>4, HwUnchangedKeepsReset
     DEF SendFails, CallThen, Step, TaskType, Threads, hw, vars, server, srv
<1>5. CASE Answer("main")
  <2>1. ResetInv("main")'
    BY <1>1, <1>5, HwUnchangedKeepsReset DEF Answer
  <2>2. UNCHANGED <<pc, call, grab, stage>> /\ at' = [at EXCEPT !["main"] = "check"]
    BY <1>5 DEF Answer, CallThen, Step, hw, vars, server
  <2>3. grab["main"] => ok["main"]
    BY DEF ResetInv
  <2>4. at["main"] = "wait" /\ pc["main"] = "idle"
    BY <1>5 DEF Answer
  <2>5. ~response'.agv /\ (response'.grab <=> grab["main"])
    BY <1>1, <1>5, <2>3, <2>4 DEF Answer, TypeOK
  <2> QED BY <2>1, <2>2, <2>4, <2>5 DEF TaskType, Threads
<1> QED BY <1>2, <1>3, <1>4, <1>5 DEF Calls

LEMMA UnpressedHolds == StartupSpec => []UnpressedInv
<1>1. StartupInit => UnpressedInv
  BY CallersAssumption
     DEF StartupInit, Init, UnpressedInv, Unpressed, ResetInv, NoRequest, Threads
<1>2. StartupTypeInv /\ UnpressedInv /\ [StartupNext]_startupVars => UnpressedInv'
  <2> SUFFICES ASSUME StartupTypeInv, Unpressed, [StartupNext]_startupVars,
                      presses = 0, presses' = 0
               PROVE  Unpressed'
    <3>1. StartupTypeInv /\ [StartupNext]_startupVars /\ presses' = 0 => presses = 0
      <4>1. StartupTypeInv => presses \in Nat
        BY PressesAssumption DEF StartupTypeInv, TaskType
      <4>2. [StartupNext]_startupVars => presses' = presses \/ presses' = presses + 1
        BY DEF StartupNext, startupVars, task, HwStep, Respawn, Main, NodesThere, NodesMissing,
               CheckSteering, GripperReady, GripperFailed, Started, Calls, SetStatus, Send,
               SendFails, Answer, Press, Button, ResetReported
      <4> QED BY <4>1, <4>2
    <3> QED BY <3>1 DEF UnpressedInv
  <2>0. TypeOK /\ TaskType /\ "main" \in Clients
    BY CallersAssumption DEF StartupTypeInv, TypeInv, Threads
  <2>1. CASE HwStep
    BY <2>0, <2>1, HwKeepsUnpressed
  <2>2. CASE Calls("main")
    BY <2>0, <2>2, CallsKeepUnpressed
  <2>3. CASE Respawn
    BY <2>0, <2>3 DEF Respawn, Unpressed, ResetInv, Zeroed, server, task, srv
  <2>4. CASE NodesMissing \/ GripperFailed \/ CheckSteering
    <3>1. at["main"] \in {"list", "check"} /\ UNCHANGED <<srv, button>>
      BY <2>4 DEF NodesMissing, GripperFailed, CheckSteering, task
    <3>2. ~grab["main"]
      BY <2>4, <3>1 DEF NodesMissing, GripperFailed, CheckSteering, Unpressed, ResetInv
    <3>3. /\ ResetInv("main")' /\ UNCHANGED <<call, grab>>
          /\ pc'["main"] = "idle"
      <4>1. CASE Killed
        BY <2>0, <3>2, <4>1, KilledKeepsReset DEF Unpressed
      <4>2. CASE UNCHANGED <<hw, up>>
        <5>1. pc["main"] = "idle"
          BY <3>1 DEF Unpressed
        <5> QED BY <2>0, <4>2, <5>1, HwUnchangedKeepsReset DEF Unpressed, hw, vars, server
      <4> QED BY <2>4, <4>1, <4>2 DEF NodesMissing, GripperFailed, CheckSteering
    <3>4. at' \in [Threads -> MainAt \cup ButtonAt] /\ at'["button"] = at["button"]
          /\ at'["main"] \in {"loop", "check", "set"}
      BY <2>0, <2>4
         DEF NodesMissing, GripperFailed, CheckSteering, Step, task, TaskType, Threads, MainAt
    <3>5. stage' = "agv_zero" => stage = "agv_zero"
      BY <2>4 DEF NodesMissing, GripperFailed, CheckSteering, task
    <3> QED BY <3>1, <3>2, <3>3, <3>4, <3>5 DEF Unpressed, srv
  <2>5. CASE NodesThere \/ GripperReady \/ Started
    <3>1. ResetInv("main")' /\ UNCHANGED <<pc, call, grab, srv, stage>>
      BY <2>0, <2>5, HwUnchangedKeepsReset
         DEF NodesThere, GripperReady, Started, Unpressed, hw, vars, server, srv
    <3> QED BY <2>0, <2>5, <3>1
            DEF NodesThere, GripperReady, Started, Unpressed, Step, TaskType, Threads, srv
  <2>6. CASE Press
    <3>1. presses' # 0
      BY <2>0, <2>6, PressesAssumption DEF Press, TaskType
    <3> QED BY <3>1
  <2>7. CASE Button
    BY <2>0, <2>7
       DEF Button, Calls, SetStatus, Send, SendFails, Answer, ResetReported, Unpressed
  <2>8. CASE UNCHANGED startupVars
    BY <2>0, <2>8, HwUnchangedKeepsReset
       DEF startupVars, task, srv, Unpressed, hw, vars, server
  <2> QED BY <2>1, <2>2, <2>3, <2>4, <2>5, <2>6, <2>7, <2>8 DEF StartupNext, Main
<1> QED BY <1>1, <1>2, StartupTypeInvariant, PTL DEF StartupSpec

\* As long as no button is pressed, the start-up says "GRAB ready" only with both
\* gripper axes at their limit switches: for any number of polls, whichever calls
\* fail and however often the main thread kills the hardware node.
THEOREM GripperReadyHolds == StartupSpec => []GripperReadyUnlessPressed
<1>1. UnpressedInv => GripperReadyUnlessPressed
  BY DEF UnpressedInv, Unpressed, ResetInv, GripperReadyUnlessPressed, Zeroed, AtLimits
<1> QED BY <1>1, UnpressedHolds, PTL
-----------------------------------------------------------------------------
\* The homing that the main thread was told is done
HomedInv ==
  presses = 0 =>
    /\ pc["main"] \in {"reset", "opening", "lowering"} => call["main"].mode # "agv_zero"
    /\ (ok["main"] /\ call["main"].mode = "agv_zero") => pc["main"] = "idle" /\ (up => enabled)

\* As long as no button is pressed, a homing that succeeds leaves the drive axes
\* enabled while the hardware node lives: for any number of polls, whichever datum
\* the card refuses and whenever the main thread kills the node.
THEOREM HomingReadyHolds == StartupSpec => []HomingReadyUnlessPressed
<1>1. StartupInit => HomedInv
  BY CallersAssumption DEF StartupInit, Init, HomedInv, Threads
<1>2. StartupTypeInv /\ UnpressedInv /\ HomedInv /\ [StartupNext]_startupVars => HomedInv'
  <2> SUFFICES ASSUME StartupTypeInv, UnpressedInv, HomedInv, [StartupNext]_startupVars, presses' = 0
               PROVE  HomedInv'
    BY DEF HomedInv
  <2>0. TypeOK /\ TaskType /\ "main" \in Clients
    BY CallersAssumption DEF StartupTypeInv, TypeInv, Threads
  <2>1. presses = 0
    <3>1. presses \in Nat
      BY <2>0, PressesAssumption DEF TaskType
    <3>2. presses' = presses \/ presses' = presses + 1
      BY DEF StartupNext, startupVars, task, HwStep, Respawn, Main, NodesThere, NodesMissing,
             CheckSteering, GripperReady, GripperFailed, Started, Calls, SetStatus, Send,
             SendFails, Answer, Press, Button, ResetReported
    <3> QED BY <3>1, <3>2
  <2>2. Unpressed
    BY <2>1 DEF UnpressedInv
  <2> USE DEF HomedInv
  <2>3. CASE HwStep
    <3>1. up /\ up' /\ HomingInv("main") /\ ResetInv("main")
      BY <2>1, <2>2, <2>3 DEF HwStep, HomingInv, Unpressed
    <3>2. HomingInv("main")'
      BY <2>0, <2>3, <3>1, OthersKeepHoming, ServeKeepsHoming, CallersAssumption DEF HwStep
    <3> QED BY <3>1, <3>2 DEF HomingInv
  <2>4. CASE Send("main")
    <3>1. Request("main") /\ UNCHANGED up
      BY <2>4 DEF Send
    <3>2. pc'["main"] = "grab" /\ ok'["main"] = FALSE
      BY <2>0, <3>1 DEF Request, Goto, TypeOK
    <3> QED BY <3>2
  <2>5. CASE Respawn
    BY <2>1, <2>5 DEF Respawn, server
  <2>6. CASE Killed /\ pc["main"] = "idle"
    BY <2>0, <2>1, <2>6, CallersAssumption DEF Killed
  <2>7. CASE UNCHANGED <<hw, up>>
    BY <2>1, <2>7 DEF hw, vars, card, server
  <2>8. CASE Button
    BY <2>2, <2>8
       DEF Button, Calls, SetStatus, Send, SendFails, Answer, ResetReported, Unpressed
  <2>9. CASE NodesMissing \/ CheckSteering \/ GripperFailed
    <3>1. at["main"] \in {"list", "check"}
      BY <2>9 DEF NodesMissing, CheckSteering, GripperFailed
    <3>2. pc["main"] = "idle"
      BY <2>2, <3>1 DEF Unpressed
    <3> QED BY <2>6, <2>7, <2>9, <3>2 DEF NodesMissing, CheckSteering, GripperFailed
  <2> QED BY <2>3, <2>4, <2>5, <2>7, <2>8, <2>9
          DEF StartupNext, startupVars, Main, Press, NodesThere, GripperReady, Started, Calls,
              SetStatus, SendFails, Answer
<1>3. HomedInv => HomingReadyUnlessPressed
  BY DEF HomedInv, HomingReadyUnlessPressed
<1> QED BY <1>1, <1>2, <1>3, StartupTypeInvariant, UnpressedHolds, PTL DEF StartupSpec
-----------------------------------------------------------------------------
\* StartupCallsReturn.  A call of the main thread is under way only while that
\* thread waits for it and the node is there to serve it.
MainOrdered == pc["main"] # "idle" => at["main"] = "wait" /\ up

\* A step of the hardware node leaves the task node alone, and a thread without a
\* call under way as it is.
LEMMA HwMoves ==
  ASSUME TypeInv, HwStep
  PROVE  /\ up /\ up' /\ UNCHANGED task /\ [Next]_vars
         /\ pc["main"] = "idle" => pc'["main"] = "idle"
<1>1. [Next]_vars /\ "main" \in Clients
  BY CallersAssumption DEF HwStep, Next, Threads
<1>2. up /\ up' /\ UNCHANGED task
  BY DEF HwStep
<1>3. ASSUME NEW t \in Threads, Serve(t), pc["main"] = "idle"
      PROVE  pc'["main"] = "idle"
  <2>1. pc[t] # "idle"
    BY <1>3 DEF Serve, GrabBranch, OpenPoll, LiftStart, LiftPoll, HomeBranch, FrontStart,
                FrontPoll, RearStart, RearPoll, DatumPoll, ZeroDone, ResetBranch, OpeningPoll,
                LoweringPoll
  <2> QED BY <1>1, <1>3, <2>1, ServeKeepsOthers, CallersAssumption
<1>4. CASE Loop \/ DatumArrives \/ \E a \in {"open", "lift"} : AxisArrives(a)
  BY <1>1, <1>2, <1>4 DEF Loop, WriteSwitch, WriteCase, DatumArrives, AxisArrives, server
<1> QED BY <1>1, <1>2, <1>3, <1>4 DEF HwStep

\* What the button thread's calls and buttons leave of the main thread.
LEMMA ButtonLeaves ==
  ASSUME StartupTypeInv, Press \/ Button
  PROVE  /\ UNCHANGED up /\ at'["main"] = at["main"] /\ pc'["main"] = pc["main"]
         /\ [Next]_vars
<1> USE CallersAssumption DEF StartupTypeInv, TypeInv, TypeOK, TaskType, Threads, Step
<1>1. CASE Press \/ ResetReported
  BY <1>1 DEF Press, ResetReported, hw, vars, srv, server
<1>2. CASE SetStatus("button")
  BY <1>2 DEF SetStatus, hw, vars, server
<1>3. CASE Send("button")
  BY <1>3 DEF Send, Request, Goto, srv, Next
<1>4. CASE SendFails("button")
  BY <1>4 DEF SendFails, CallThen, ButtonThen, hw, vars, srv, server
<1>5. CASE Answer("button")
  BY <1>5 DEF Answer, CallThen, ButtonThen, hw, vars, server
<1> QED BY <1>1, <1>2, <1>3, <1>4, <1>5 DEF Button, Calls

\* The steps of the main thread between the setting of a status and its check
LEMMA MainLeaves ==
  ASSUME StartupTypeInv, MainOrdered, Calls("main")
  PROVE  /\ UNCHANGED up /\ MainOrdered'
         /\ \/ at["main"] = "set" /\ at'["main"] = "call"
            \/ at["main"] = "call" /\ at'["main"] \in {"wait", "check"}
            \/ at["main"] = "wait" /\ pc["main"] = "idle" /\ at'["main"] = "check"
<1> USE CallersAssumption
    DEF StartupTypeInv, TypeInv, TypeOK, TaskType, Threads, Step, MainOrdered
<1>1. CASE SetStatus("main")
  BY <1>1 DEF SetStatus, hw, vars, server
<1>2. CASE Send("main")
  BY <1>2 DEF Send, srv
<1>3. CASE SendFails("main")
  BY <1>3 DEF SendFails, CallThen, hw, vars, srv, server
<1>4. CASE Answer("main")
  BY <1>4 DEF Answer, CallThen, hw, vars, server
<1> QED BY <1>1, <1>2, <1>3, <1>4 DEF Calls

\* The main thread's other steps
LEMMA MainOwnSteps ==
  ASSUME StartupTypeInv, MainOrdered, Main, ~Calls("main")
  PROVE  at["main"] \notin {"set", "call", "wait"} /\ MainOrdered'
<1> USE CallersAssumption
    DEF StartupTypeInv, TypeInv, TypeOK, TaskType, Threads, Step, MainOrdered
<1>1. CASE NodesThere \/ GripperReady \/ Started
  BY <1>1 DEF NodesThere, GripperReady, Started, hw, vars, srv, server
<1>2. CASE NodesMissing
  BY <1>2 DEF NodesMissing, Killed, hw, vars, srv, server
<1>3. CASE CheckSteering
  BY <1>3 DEF CheckSteering, Killed, hw, vars, srv, server
<1>4. CASE GripperFailed
  BY <1>4 DEF GripperFailed, Killed, task, srv
<1> QED BY <1>1, <1>2, <1>3, <1>4 DEF Main

\* One step of the whole, seen from the main thread
LEMMA StartupMoves ==
  ASSUME StartupTypeInv, MainOrdered, [StartupNext]_startupVars
  PROVE  /\ MainOrdered'
         /\ ~Main => /\ at'["main"] = at["main"]
                     /\ up => up'
                     /\ pc["main"] = "idle" => pc'["main"] = "idle"
                     /\ up => [Next]_vars
<1> USE DEF StartupTypeInv, MainOrdered
<1>1. CASE HwStep
  BY <1>1, HwMoves DEF task, srv
<1>2. CASE Respawn
  BY <1>2 DEF Respawn, server, task, srv
<1>3. CASE Press \/ Button
  BY <1>3, ButtonLeaves
<1>4. CASE Main
  BY <1>4, MainLeaves, MainOwnSteps
<1>5. CASE UNCHANGED startupVars
  BY <1>5 DEF startupVars, hw, vars, task, srv, server
<1> QED BY <1>1, <1>2, <1>3, <1>4, <1>5 DEF StartupNext

Ordered == StartupTypeInv /\ MainOrdered

LEMMA OrderedHolds == StartupSpec => []Ordered
<1>1. StartupInit => MainOrdered
  BY CallersAssumption DEF StartupInit, Init, MainOrdered, Threads
<1> QED BY <1>1, StartupMoves, StartupTypeInvariant, PTL DEF StartupSpec, Ordered

\* What the provers have no rule for: that the steps are possible when they are
\* due, and that the polls of a call descend (see AgvHwProofs).
HwServes(t) == up /\ Serve(t) /\ UNCHANGED <<up, task>>
MainReady ==
  \/ at["main"] = "call"
  \/ at["main"] = "set" /\ up
  \/ at["main"] = "wait" /\ pc["main"] = "idle"
StartupUnblocked ==
  /\ [](~up => ENABLED <<Respawn>>_startupVars)
  /\ [](MainReady => ENABLED <<Main>>_startupVars)
  /\ [](up /\ pc["main"] # "idle" => ENABLED <<HwServes("main")>>_startupVars)
PollsDescend == \A l \in Polling : Descends("main", l)

StartupRuns ==
  /\ [][StartupNext]_startupVars /\ []Ordered /\ StartupUnblocked
  /\ WF_startupVars(Main) /\ WF_startupVars(Respawn) /\ HwServed("main")

LEMMA FairStartupRuns == FairStartupSpec /\ StartupUnblocked => StartupRuns
<1>1. FairStartupSpec => \A t \in Threads : HwServed(t)
  BY PTL DEF FairStartupSpec
<1>2. FairStartupSpec => HwServed("main")
  BY <1>1 DEF Threads
<1> QED BY <1>2, OrderedHolds, PTL DEF FairStartupSpec, StartupSpec, StartupRuns

\* A call the main thread waits for comes back: as long as it is under way nobody
\* kills the node, so that the steps are those of the hardware node alone.
LEMMA MainCallReturns ==
  StartupRuns /\ []PollsDescend => ((pc["main"] # "idle") ~> (pc["main"] = "idle"))
<1> DEFINE Busy == pc["main"] # "idle"
<1>1. Ordered /\ Busy /\ [StartupNext]_startupVars => [Next]_vars
  <2> SUFFICES ASSUME Ordered, Busy, [StartupNext]_startupVars PROVE [Next]_vars
    OBVIOUS
  <2>1. ~Main
    BY MainLeaves, MainOwnSteps DEF Ordered, MainOrdered
  <2> QED BY <2>1, StartupMoves DEF Ordered, MainOrdered
<1>2. <<HwServes("main")>>_startupVars => <<Serve("main")>>_vars
  BY DEF HwServes, startupVars, hw
<1>3. Ordered => TypeInv /\ (Busy => up)
  BY DEF Ordered, StartupTypeInv, MainOrdered
<1>4. Runs("main") /\ PollsDescend => Returns("main")
  BY CallEnds, CallersAssumption DEF PollsDescend, Threads
<1>5. (pc["main"] # "idle" <=> Busy) /\ (pc["main"] = "idle" <=> ~Busy)
  OBVIOUS
<1> HIDE DEF Busy
<1> QED
  BY <1>1, <1>2, <1>3, <1>4, <1>5, PTL
     DEF Runs, Steps, Returns, StartupRuns, StartupUnblocked, HwServed, HwServes

\* Every call of the start-up comes back: for any buttons and presses and any
\* number of polls, whichever branch the button thread's calls put it in, and
\* though the node may be down when it is called.
THEOREM StartupCallsReturnHolds ==
  FairStartupSpec /\ StartupUnblocked /\ []PollsDescend => StartupCallsReturn
<1> DEFINE S == at["main"] = "set"
           C == at["main"] = "call"
           W == at["main"] = "wait"
           K == at["main"] = "check"
           I == pc["main"] = "idle"
<1>1. Ordered /\ [StartupNext]_startupVars =>
        /\ S => (S' /\ (up => up')) \/ C'
        /\ C => C' \/ W' \/ K'
        /\ W => K' \/ (W' /\ (I => I'))
  BY StartupMoves, MainLeaves, MainOwnSteps DEF Ordered, StartupTypeInv, TaskType
<1>2. Ordered /\ <<Main>>_startupVars =>
        /\ S => C'
        /\ C => W' \/ K'
        /\ W => K'
  BY MainLeaves, MainOwnSteps DEF Ordered, StartupTypeInv, TaskType
<1>3. (S /\ up) \/ C \/ (W /\ I) => MainReady
  BY DEF MainReady
<1>4. <<Respawn>>_startupVars => up'
  BY DEF Respawn
<1>5. (at["main"] = "set" <=> S) /\ (at["main"] = "check" <=> K)
      /\ (pc["main"] # "idle" <=> ~I) /\ (pc["main"] = "idle" <=> I)
  OBVIOUS
<1> HIDE DEF S, C, W, K, I
<1> DEFINE Fair == StartupRuns /\ []PollsDescend
<1>6. Fair => (S ~> C)
  BY <1>1, <1>2, <1>3, <1>4, PTL DEF StartupRuns, StartupUnblocked
<1>7. Fair => (C ~> W \/ K)
  BY <1>1, <1>2, <1>3, PTL DEF StartupRuns, StartupUnblocked
<1>8. Fair => (W ~> K)
  BY <1>1, <1>2, <1>3, <1>5, MainCallReturns, PTL DEF StartupRuns, StartupUnblocked
<1>9. Fair => (S ~> K)
  BY <1>6, <1>7, <1>8, PTL
<1> QED BY <1>5, <1>9, FairStartupRuns, PTL DEF StartupCallsReturn
=============================================================================
