----------------------------- MODULE HfsmProofs -----------------------------
(***************************************************************************)
(* Proofs about the task state machine, for any buttons, any failing       *)
(* services and any number of look-and-approach rounds.                    *)
(***************************************************************************)
EXTENDS HfsmOverlap, TLAPS

\* The labels inside an operation of run().
FeedPcs == {"f_send", "f_photo", "f_check"}
MovePcs == {"m_cmd", "m_wait", "m_end"}

\* While an operation of run() is in progress, op still names it.
RunPos ==
  /\ pc["main"] \in FeedPcs => RunOps[op] = "feed"
  /\ pc["main"] \in MovePcs => RunOps[op] = "move"

TypeInv == TypeOK /\ RunPos

\* AdjustState::run ends with the operation "end", so whatever is not the end
\* has a successor, and after the lift there are two.
LEMMA RunContinues ==
  ASSUME NEW i \in 1..RunLen, RunOps[i] # "end"
  PROVE  /\ i + 1 \in 1..RunLen
         /\ RunOps[i] = "lift" => i + 2 \in 1..RunLen
<1> USE RoundsAssumption
<1>1. RunLen = 3 * Rounds + 10 /\ RunLen \in Nat
  BY DEF RunLen, Finish
<1>2. CASE i > 3 * Rounds
  <2>1. i - 3 * Rounds \in 1..10 /\ RunOps[i] = Finish[i - 3 * Rounds]
    BY <1>1, <1>2 DEF RunOps
  <2> QED BY <1>1, <2>1 DEF Finish
<1>3. CASE ~(i > 3 * Rounds)
  <2>1. ((i - 1) % 3) + 1 \in 1..3
    BY <1>1
  <2>2. RunOps[i] = Round[((i - 1) % 3) + 1]
    BY <1>3 DEF RunOps
  <2>3. RunOps[i] # "lift"
    BY <2>1, <2>2 DEF Round
  <2> QED BY <1>1, <1>3, <2>3
<1> QED BY <1>2, <1>3

-----------------------------------------------------------------------------
LEMMA RunStarts == 1 \in 1..RunLen
BY RoundsAssumption DEF RunLen, Finish

\* A thread that goes to a label of its own keeps the control state well-formed,
\* unless the label is inside an operation of run().
LEMMA GotoKeeps ==
  ASSUME ControlOK, RunPos, NEW t \in Threads,
         NEW l \in TransPcs \cup GoPcs \cup (Own(t) \ (FeedPcs \cup MovePcs)),
         Goto(t, l), UNCHANGED <<after, op>>
  PROVE  ControlOK' /\ RunPos'
<1>1. ControlOK'
  BY DEF ControlOK, Goto, Threads, Own
<1>2. pc'["main"] = l \/ pc'["main"] = pc["main"]
  BY DEF ControlOK, Goto, Threads
<1>3. l \notin FeedPcs \cup MovePcs
  BY DEF TransPcs, GoPcs, FeedPcs, MovePcs
<1>4. RunPos'
  <2>1. CASE t = "main"
    BY <1>3, <2>1 DEF ControlOK, Goto, Threads, RunPos
  <2>2. CASE t # "main"
    BY <2>2 DEF ControlOK, Goto, Threads, RunPos
  <2> QED BY <2>1, <2>2
<1> QED BY <1>1, <1>4

\* The same for a call of TransForState or of an AutoState event ...
LEMMA CallKeeps ==
  ASSUME ControlOK, RunPos, NEW t \in Threads, NEW l \in TransPcs \cup GoPcs,
         NEW r \in Returns \cap Own(t), Call(t, l, r), UNCHANGED op
  PROVE  ControlOK' /\ RunPos'
<1>1. ControlOK'
  BY DEF ControlOK, Call, Goto, Threads, Own
<1>2. l \notin FeedPcs \cup MovePcs
  BY DEF TransPcs, GoPcs, FeedPcs, MovePcs
<1>3. CASE t = "main"
  BY <1>1, <1>2, <1>3 DEF ControlOK, Call, Goto, Threads, RunPos
<1>4. CASE t # "main"
  BY <1>1, <1>4 DEF ControlOK, Call, Goto, Threads, RunPos
<1> QED BY <1>3, <1>4

\* ... and for the return from it.
LEMMA ReturnKeeps ==
  ASSUME ControlOK, RunPos, NEW t \in Threads, Return(t), UNCHANGED op
  PROVE  ControlOK' /\ RunPos' /\ pc'[t] \in Returns
<1>1. "loop" \in Returns \cap MainPcs /\ "b_idle" \in Returns \cap ButtonPcs
  BY DEF Returns, MainPcs, ButtonPcs
<1>2. after[t] \in Returns \cap Own(t)
  BY DEF ControlOK
<1>3. Returns \cap (FeedPcs \cup MovePcs) = {}
  BY DEF Returns, FeedPcs, MovePcs
<1>4. ControlOK' /\ pc'[t] = after[t]
  BY <1>1, <1>2 DEF ControlOK, Return, Goto, Threads, Own
<1>5. CASE t = "main"
  BY <1>2, <1>3, <1>4, <1>5 DEF RunPos
<1>6. CASE t # "main"
  BY <1>2, <1>4, <1>6 DEF ControlOK, Return, Goto, Threads, RunPos
<1> QED BY <1>2, <1>4, <1>5, <1>6

\* The data part of TypeOK.
DataOK ==
  /\ cur \in States /\ name \in States
  /\ dtype \in {"detecting", "feedback", "sleep"}
  /\ single \in BOOLEAN /\ objs \in BOOLEAN /\ found \in BOOLEAN /\ way \in BOOLEAN
  /\ wired \subseteq {"Idle", "Auto", "Adjust"}
  /\ hw \in {"stop", "grab_zero", "agv", "grab"}
  /\ nav \in Servers /\ move \in Servers
  /\ target \in [Threads -> States]
  /\ op \in 1..RunLen

LEMMA TypeParts ==
  /\ TypeOK <=> DataOK /\ ControlOK
  /\ TypeOK' <=> DataOK' /\ ControlOK'
BY DEF TypeOK, DataOK

LEMMA LabelSets ==
  /\ TransPcs = {"t_stop", "t_cur", "t_name", "t_start", "i_nav", "i_camera", "i_photo"}
  /\ GoPcs = {"go_hw", "go_goal", "go_wait", "n_stop", "n_wait"}
  /\ {"b_idle", "s_send", "s_hw", "u_hw", "r_hw", "g_hw", "k_go"}
       \subseteq Own("button") \ (FeedPcs \cup MovePcs)
  /\ {"loop", "send_go", "way_done", "send_task", "home_go", "home_idle", "op"}
       \subseteq Own("main") \ (FeedPcs \cup MovePcs)
  /\ FeedPcs \cup MovePcs \subseteq Own("main")
BY DEF TransPcs, GoPcs, Own, ButtonPcs, MainPcs, RunPcs, FeedPcs, MovePcs

LEMMA Labels ==
  /\ "main" \in Threads /\ "button" \in Threads
  /\ {"loop", "way_done", "home_go", "home_idle"} \subseteq Returns \cap Own("main")
  /\ {"b_idle", "s_hw", "k_go"} \subseteq Returns \cap Own("button")
BY DEF Threads, Returns, Own, MainPcs, ButtonPcs

-----------------------------------------------------------------------------
\* TransForState keeps the type invariant, ...
LEMMA TransKeepsType ==
  ASSUME TypeInv, NEW t \in Threads, TransSteps(t)
  PROVE  TypeInv'
<1> USE TypeParts DEF TypeInv
<1>1. ControlOK' /\ RunPos'
  <2> USE LabelSets
  <2>1. CASE TransStop(t)
    BY <2>1, GotoKeeps DEF TransStop
  <2>2. CASE TransCur(t)
    BY <2>2, GotoKeeps DEF TransCur
  <2>3. CASE TransName(t)
    BY <2>3, GotoKeeps DEF TransName
  <2>4. CASE TransStart(t)
    BY <2>4, GotoKeeps, ReturnKeeps DEF TransStart
  <2>5. CASE IdleStopsNav(t)
    BY <2>5, GotoKeeps DEF IdleStopsNav
  <2>6. CASE IdleCamera(t)
    BY <2>6, GotoKeeps, ReturnKeeps DEF IdleCamera
  <2>7. CASE IdlePhoto(t)
    BY <2>7, ReturnKeeps DEF IdlePhoto
  <2> QED BY <2>1, <2>2, <2>3, <2>4, <2>5, <2>6, <2>7 DEF TransSteps
<1>2. DataOK'
  <2> USE DEF DataOK, flags, world
  <2>1. CASE TransStop(t) \/ TransCur(t) \/ TransName(t)
    BY <2>1 DEF TransStop, TransCur, TransName, States, Threads
  <2>2. CASE TransStart(t)
    BY <2>2 DEF TransStart, DetectorOf
  <2>3. CASE IdleStopsNav(t) \/ IdleCamera(t)
    BY <2>3 DEF IdleStopsNav, IdleCamera, StopNav, Halted, Servers
  <2>4. CASE IdlePhoto(t)
    BY <2>4 DEF IdlePhoto, Photo
  <2> QED BY <2>1, <2>2, <2>3, <2>4 DEF TransSteps
<1> QED BY <1>1, <1>2

\* ... so do the go_ and stop_ events, ...
LEMMA GoKeepsType ==
  ASSUME TypeInv, NEW t \in Threads, GoSteps(t)
  PROVE  TypeInv'
<1> USE TypeParts DEF TypeInv
<1>1. ControlOK' /\ RunPos'
  <2> USE LabelSets
  <2>1. CASE GoMode(t)
    BY <2>1, GotoKeeps DEF GoMode
  <2>2. CASE GoGoal(t)
    BY <2>2, GotoKeeps DEF GoGoal
  <2>3. CASE GoWait(t)
    BY <2>3, GotoKeeps, ReturnKeeps DEF GoWait
  <2>4. CASE NavStop(t)
    BY <2>4, GotoKeeps DEF NavStop
  <2>5. CASE NavWait(t)
    BY <2>5, ReturnKeeps DEF NavWait
  <2> QED BY <2>1, <2>2, <2>3, <2>4, <2>5 DEF GoSteps
<1>2. DataOK'
  <2> USE DEF DataOK, flags, world
  <2>1. CASE GoMode(t)
    BY <2>1 DEF GoMode, Robot
  <2>2. CASE GoGoal(t) \/ GoWait(t) \/ NavStop(t) \/ NavWait(t)
    BY <2>2 DEF GoGoal, GoWait, NavStop, NavWait, StopNav, Halted, Servers
  <2> QED BY <2>1, <2>2 DEF GoSteps
<1> QED BY <1>1, <1>2

\* ... and a button, ...
LEMMA RobotThenKeepsType ==
  ASSUME TypeInv, NEW l, NEW h \in {"stop", "agv", "grab_zero", "grab"},
         NEW s \in {"Idle", "Telecontrol"}, NEW m \in BOOLEAN,
         RobotThen(l, h, s, m)
  PROVE  TypeInv'
<1> USE TypeParts, LabelSets, Labels DEF TypeInv
<1>1. ControlOK' /\ RunPos'
  <2>1. \/ Call("button", "t_stop", "b_idle")
        \/ Goto("button", "b_idle") /\ UNCHANGED after
    BY DEF RobotThen, Trans
  <2>2. UNCHANGED op
    BY DEF RobotThen
  <2> QED BY <2>1, <2>2, CallKeeps, GotoKeeps
<1>2. DataOK'
  BY DEF DataOK, RobotThen, Robot, Trans, flags, States, Threads
<1> QED BY <1>1, <1>2

LEMMA ButtonKeepsType ==
  ASSUME TypeInv, Press \/ ButtonSteps
  PROVE  TypeInv'
<1> USE TypeParts, Labels DEF TypeInv
<1>1. CASE Press
  <2>1. UNCHANGED op
    BY <1>1 DEF Press, PressNext, PressTrans, PressGoto
  <2>2. \/ \E r \in {"b_idle", "k_go"} : Call("button", "t_stop", r)
        \/ \E l \in {"s_send", "u_hw", "r_hw", "g_hw"} :
             Goto("button", l) /\ UNCHANGED after
    BY <1>1 DEF Press, PressNext, PressTrans, PressGoto, Trans
  <2>3. ControlOK' /\ RunPos'
    BY <2>1, <2>2, CallKeeps, GotoKeeps, LabelSets
  <2>4. DataOK'
    BY <1>1 DEF DataOK, Press, PressNext, PressTrans, PressGoto, Trans, flags, world,
                States, Threads
  <2> QED BY <2>3, <2>4
<1>2. CASE StopSend \/ TaskGo
  <2>1. ControlOK' /\ RunPos'
    BY <1>2, CallKeeps, GotoKeeps, LabelSets DEF StopSend, TaskGo
  <2>2. DataOK'
    BY <1>2 DEF DataOK, StopSend, TaskGo, flags, world
  <2> QED BY <2>1, <2>2
<1>3. CASE StopRobot \/ Unlock \/ GrabReset \/ Grip
  BY <1>3, RobotThenKeepsType DEF StopRobot, Unlock, GrabReset, Grip
<1>4. CASE TransSteps("button") \/ GoSteps("button")
  BY <1>4, TransKeepsType, GoKeepsType
<1> QED BY <1>1, <1>2, <1>3, <1>4 DEF ButtonSteps

\* What run() does to its position: on to the next operation, out, or further
\* inside the current one.
LEMMA NextOpKeeps ==
  ASSUME TypeInv, RunOps[op] # "end", NextOp, UNCHANGED after
  PROVE  ControlOK' /\ RunPos' /\ op' \in 1..RunLen
<1>1. op' \in 1..RunLen
  BY RunContinues, TypeParts DEF TypeInv, DataOK, NextOp
<1>2. ControlOK' /\ pc'["main"] = "op"
  BY TypeParts, LabelSets DEF TypeInv, ControlOK, NextOp, Goto, Threads, Own
<1>3. "op" \notin FeedPcs \cup MovePcs
  BY DEF FeedPcs, MovePcs
<1> QED BY <1>1, <1>2, <1>3 DEF RunPos

LEMMA RunReturnsKeeps ==
  ASSUME TypeInv, RunReturns, UNCHANGED after
  PROVE  ControlOK' /\ RunPos' /\ op' \in 1..RunLen
<1>1. op' \in 1..RunLen
  BY RunStarts DEF RunReturns
<1>2. ControlOK' /\ pc'["main"] = "loop"
  BY TypeParts, LabelSets DEF TypeInv, ControlOK, RunReturns, Goto, Threads, Own
<1>3. "loop" \notin FeedPcs \cup MovePcs
  BY DEF FeedPcs, MovePcs
<1> QED BY <1>1, <1>2, <1>3 DEF RunPos

LEMMA InsideKeeps ==
  ASSUME TypeInv, NEW l, Goto("main", l), UNCHANGED <<after, op>>,
         \/ l \in FeedPcs /\ RunOps[op] = "feed"
         \/ l \in MovePcs /\ RunOps[op] = "move"
  PROVE  ControlOK' /\ RunPos' /\ op' \in 1..RunLen
<1>1. ControlOK' /\ pc'["main"] = l
  BY TypeParts, LabelSets DEF TypeInv, ControlOK, Goto, Threads, Own
<1>2. FeedPcs \cap MovePcs = {}
  BY DEF FeedPcs, MovePcs
<1> QED BY <1>1, <1>2, TypeParts DEF TypeInv, RunPos, DataOK

LEMMA FeedRunPos == TypeInv /\ pc["main"] \in FeedPcs => RunOps[op] = "feed"
BY DEF TypeInv, RunPos
LEMMA MoveRunPos == TypeInv /\ pc["main"] \in MovePcs => RunOps[op] = "move"
BY DEF TypeInv, RunPos

\* So run() keeps the type invariant, ...
LEMMA RunKeepsType ==
  ASSUME TypeInv, RunSteps
  PROVE  TypeInv'
<1> USE TypeParts, FeedRunPos, MoveRunPos DEF AtOp, At
<1>1. ControlOK' /\ RunPos' /\ op' \in 1..RunLen
  <2>1. CASE OpGrip
    <3>1. RunOps[op] # "end" /\ op \in 1..RunLen /\ pc["main"] = "op"
      BY <2>1 DEF OpGrip, TypeInv, DataOK
    <3>2. op' \in 1..RunLen
      BY <2>1, <3>1, RunContinues DEF OpGrip
    <3> QED BY <2>1, <3>1, <3>2 DEF OpGrip, TypeInv, RunPos, ControlOK, FeedPcs, MovePcs
  <2>2. CASE OpCheck
    BY <2>2, NextOpKeeps, RunReturnsKeeps DEF OpCheck
  <2>3. CASE OpFeedback
    BY <2>3, NextOpKeeps, InsideKeeps DEF OpFeedback, FeedPcs
  <2>4. CASE FeedbackSend
    BY <2>4, InsideKeeps DEF FeedbackSend, FeedPcs
  <2>5. CASE FeedbackPhoto
    BY <2>5, InsideKeeps DEF FeedbackPhoto, FeedPcs
  <2>6. CASE FeedbackCheck
    BY <2>6, NextOpKeeps, InsideKeeps DEF FeedbackCheck, FeedPcs
  <2>7. CASE OpMove
    BY <2>7, NextOpKeeps, InsideKeeps DEF OpMove, MovePcs
  <2>8. CASE MoveCommand
    BY <2>8, RunReturnsKeeps, InsideKeeps DEF MoveCommand, MovePcs
  <2>9. CASE MoveWait
    BY <2>9, InsideKeeps DEF MoveWait, MovePcs
  <2>10. CASE MoveEnd
    BY <2>10, NextOpKeeps, RunReturnsKeeps DEF MoveEnd, MovePcs
  <2>11. CASE OpEnd
    <3>1. CASE RunReturns /\ UNCHANGED after
      BY <3>1, RunReturnsKeeps
    <3>2. CASE Call("main", "t_stop", "loop") /\ op' = 1
      <4>1. ControlOK' /\ pc'["main"] = "t_stop"
        BY <3>2, LabelSets, Labels DEF TypeInv, ControlOK, Call, Goto, Threads, Own
      <4> QED BY <3>2, <4>1, RunStarts DEF RunPos, FeedPcs, MovePcs
    <3> QED BY <2>11, <3>1, <3>2 DEF OpEnd, Trans
  <2> QED BY <2>1, <2>2, <2>3, <2>4, <2>5, <2>6, <2>7, <2>8, <2>9, <2>10, <2>11 DEF RunSteps
<1>2. DataOK'
  <2> USE <1>1 DEF TypeInv, DataOK, flags, world
  <2>1. CASE OpGrip \/ OpCheck \/ OpMove
    BY <2>1 DEF OpGrip, OpCheck, OpMove, Robot
  <2>2. CASE OpFeedback \/ FeedbackSend \/ FeedbackCheck
    BY <2>2 DEF OpFeedback, FeedbackSend, FeedbackCheck
  <2>3. CASE FeedbackPhoto
    BY <2>3 DEF FeedbackPhoto, Photo
  <2>4. CASE MoveCommand \/ MoveWait \/ MoveEnd
    BY <2>4 DEF MoveCommand, MoveWait, MoveEnd, StopMove, Halted, Servers
  <2>5. CASE OpEnd
    BY <2>5 DEF OpEnd, StopMove, Halted, Servers, Trans, States, Threads
  <2> QED BY <2>1, <2>2, <2>3, <2>4, <2>5 DEF RunSteps
<1> QED BY <1>1, <1>2 DEF TypeInv

\* ... and so does the main loop around it.
LEMMA MainKeepsType ==
  ASSUME TypeInv, MainSteps
  PROVE  TypeInv'
<1> USE TypeParts, Labels DEF TypeInv
<1>1. CASE Loop \/ WayDone \/ HomeIdle \/ SendTask
  <2>1. ControlOK' /\ RunPos'
    BY <1>1, CallKeeps, GotoKeeps, LabelSets DEF Loop, WayDone, HomeIdle, SendTask, Trans
  <2>2. DataOK'
    <3> USE DEF DataOK, flags, world
    <3>1. CASE Loop
      <4>1. target' \in [Threads -> States]
        BY <3>1 DEF Loop, Trans, States, Threads
      <4> QED BY <3>1, <4>1 DEF Loop
    <3>2. CASE HomeIdle
      BY <3>2 DEF HomeIdle, Trans, States, Threads
    <3>3. CASE WayDone \/ SendTask
      BY <3>3 DEF WayDone, SendTask
    <3> QED BY <1>1, <3>1, <3>2, <3>3
  <2> QED BY <2>1, <2>2
<1>2. CASE SendGo("send_go", "way_done") \/ SendGo("home_go", "home_idle")
  <2>1. ControlOK' /\ RunPos'
    BY <1>2, CallKeeps, GotoKeeps, LabelSets DEF SendGo
  <2>2. DataOK'
    BY <1>2 DEF SendGo, DataOK, flags, world
  <2> QED BY <2>1, <2>2
<1>3. CASE RunSteps
  BY <1>3, RunKeepsType
<1>4. CASE TransSteps("main") \/ GoSteps("main")
  BY <1>4, TransKeepsType, GoKeepsType
<1> QED BY <1>1, <1>2, <1>3, <1>4 DEF MainSteps

LEMMA NextKeepsType == TypeInv /\ [Next]_vars => TypeInv'
<1> SUFFICES ASSUME TypeInv, [Next]_vars PROVE TypeInv'
  OBVIOUS
<1>1. CASE Press \/ ButtonSteps
  BY <1>1, ButtonKeepsType
<1>2. CASE MainSteps
  BY <1>2, MainKeepsType
<1>3. CASE ServerSteps
  BY <1>3 DEF ServerSteps, Arrive, Halt, TypeInv, TypeOK, ControlOK, RunPos, Servers, flags
<1>4. CASE UNCHANGED vars
  BY <1>4 DEF vars, TypeInv, TypeOK, ControlOK, RunPos, flags, world
<1> QED BY <1>1, <1>2, <1>3, <1>4 DEF Next

LEMMA InitType == Init => TypeInv
<1> SUFFICES ASSUME Init PROVE TypeInv
  OBVIOUS
<1>1. DataOK
  BY RunStarts DEF Init, DataOK, States, Servers, Threads
<1>2. ControlOK /\ pc["main"] = "loop"
  BY DEF Init, ControlOK, Threads, Own, ButtonPcs, MainPcs, Returns
<1> QED BY <1>1, <1>2, TypeParts DEF TypeInv, RunPos, FeedPcs, MovePcs

LEMMA TypeInvariant == Spec => []TypeInv
BY InitType, NextKeepsType, PTL DEF Spec

\* Every variable keeps its type: in particular run() never runs past its last
\* operation and a thread never gets into a label of the other one.
THEOREM TypeCorrect == Spec => []TypeOK
<1>1. TypeInv => TypeOK
  BY DEF TypeInv
<1> QED BY <1>1, TypeInvariant, PTL
-----------------------------------------------------------------------------
\* A step of one thread leaves the labels and the argument of the other alone.
OthersStay(t) ==
  \A s \in Threads : s # t => pc'[s] = pc[s] /\ target'[s] = target[s]

LEMMA TransStays ==
  ASSUME TypeOK, NEW t \in Threads, TransSteps(t) \/ GoSteps(t)
  PROVE  OthersStay(t)
<1> USE DEF TypeOK, ControlOK, OthersStay, Goto, Return
<1>1. CASE TransSteps(t)
  BY <1>1 DEF TransSteps, TransStop, TransCur, TransName, TransStart, IdleStopsNav,
              IdleCamera, IdlePhoto
<1>2. CASE GoSteps(t)
  BY <1>2 DEF GoSteps, GoMode, GoGoal, GoWait, NavStop, NavWait
<1> QED BY <1>1, <1>2

LEMMA ButtonStays ==
  ASSUME TypeOK, Press \/ ButtonSteps
  PROVE  OthersStay("button")
<1> USE DEF TypeOK, ControlOK, OthersStay, Goto, Call, Trans
<1>1. CASE Press
  BY <1>1 DEF Press, PressNext, PressTrans, PressGoto
<1>2. CASE StopSend \/ TaskGo
  BY <1>2 DEF StopSend, TaskGo
<1>3. CASE StopRobot \/ Unlock \/ GrabReset \/ Grip
  BY <1>3 DEF StopRobot, Unlock, GrabReset, Grip, RobotThen
<1>4. CASE TransSteps("button") \/ GoSteps("button")
  BY <1>4, TransStays, Labels
<1> QED BY <1>1, <1>2, <1>3, <1>4 DEF ButtonSteps

LEMMA MainStays ==
  ASSUME TypeOK, MainSteps
  PROVE  OthersStay("main")
<1> USE DEF TypeOK, ControlOK, OthersStay, Goto, Call, Trans
<1>1. CASE Loop \/ WayDone \/ HomeIdle \/ SendTask
  BY <1>1 DEF Loop, WayDone, HomeIdle, SendTask
<1>2. CASE SendGo("send_go", "way_done") \/ SendGo("home_go", "home_idle")
  BY <1>2 DEF SendGo
<1>3. CASE OpGrip \/ OpCheck \/ OpFeedback \/ FeedbackSend \/ FeedbackPhoto \/ FeedbackCheck
  BY <1>3 DEF OpGrip, OpCheck, OpFeedback, FeedbackSend, FeedbackPhoto, FeedbackCheck,
              NextOp, RunReturns
<1>4. CASE OpMove \/ MoveCommand \/ MoveWait \/ MoveEnd \/ OpEnd
  BY <1>4 DEF OpMove, MoveCommand, MoveWait, MoveEnd, OpEnd, NextOp, RunReturns
<1>5. CASE TransSteps("main") \/ GoSteps("main")
  BY <1>5, TransStays, Labels
<1> QED BY <1>1, <1>2, <1>3, <1>4, <1>5 DEF MainSteps, RunSteps

-----------------------------------------------------------------------------
\* NavAttended is inductive.  A step that does not start at one of the two
\* watching labels cannot lose a watcher, so it is enough that it does not send
\* a goal.
Watching == {"go_wait", "n_stop"}

LEMMA WatcherStays ==
  ASSUME TypeOK, NavAttended, NEW t \in Threads, OthersStay(t),
         pc[t] \notin Watching, nav' = "busy" => nav = "busy"
  PROVE  NavAttended'
BY DEF NavAttended, OthersStay, Watching

LEMMA GoKeepsAttended ==
  ASSUME TypeOK, NavAttended, "nav" \notin Faults, NEW t \in Threads,
         TransSteps(t) \/ GoSteps(t)
  PROVE  NavAttended'
<1>1. OthersStay(t)
  BY TransStays
<1>2. CASE TransSteps(t) \/ GoMode(t) \/ NavWait(t)
  <2>1. pc[t] \notin Watching
    BY <1>2 DEF TransSteps, TransStop, TransCur, TransName, TransStart, IdleStopsNav, IdleCamera,
                IdlePhoto, GoMode, NavWait, At, Watching
  <2>2. nav' = "busy" => nav = "busy"
    BY <1>2 DEF TransSteps, TransStop, TransCur, TransName, TransStart, IdleStopsNav, IdleCamera,
                IdlePhoto, GoMode, NavWait, StopNav, Halted, world
  <2> QED BY <1>1, <2>1, <2>2, WatcherStays
<1>3. CASE GoGoal(t)
  <2>1. pc'[t] = "go_wait"
    BY <1>3 DEF GoGoal, Goto, TypeOK, ControlOK
  <2> QED BY <2>1 DEF NavAttended
<1>4. CASE GoWait(t)
  <2>1. nav' # "busy"
    BY <1>4 DEF GoWait, StopNav, Halted
  <2> QED BY <2>1 DEF NavAttended
<1>5. CASE NavStop(t)
  <2>1. nav' # "busy"
    BY <1>5 DEF NavStop, StopNav, Halted
  <2> QED BY <2>1 DEF NavAttended
<1> QED BY <1>2, <1>3, <1>4, <1>5 DEF GoSteps

LEMMA NextKeepsAttended ==
  ASSUME TypeOK, NavAttended, "nav" \notin Faults, [Next]_vars
  PROVE  NavAttended'
<1>1. CASE Press \/ StopSend \/ StopRobot \/ Unlock \/ GrabReset \/ Grip \/ TaskGo
  <2>1. OthersStay("button")
    BY <1>1, ButtonStays DEF ButtonSteps
  <2>2. pc["button"] \notin Watching /\ UNCHANGED nav
    BY <1>1 DEF Press, PressNext, PressTrans, PressGoto, StopSend, StopRobot, Unlock, GrabReset,
                Grip, TaskGo, RobotThen, At, Watching, world
  <2> QED BY <2>1, <2>2, WatcherStays, Labels
<1>2. CASE \/ Loop \/ WayDone \/ HomeIdle \/ SendTask
           \/ SendGo("send_go", "way_done") \/ SendGo("home_go", "home_idle")
  <2>1. OthersStay("main")
    BY <1>2, MainStays DEF MainSteps
  <2>2. pc["main"] \notin Watching /\ UNCHANGED nav
    BY <1>2 DEF Loop, WayDone, HomeIdle, SendTask, SendGo, At, Watching, world
  <2> QED BY <2>1, <2>2, WatcherStays, Labels
<1>3. CASE RunSteps
  <2>1. OthersStay("main")
    BY <1>3, MainStays DEF MainSteps
  <2>2. pc["main"] \notin Watching /\ UNCHANGED nav
    BY <1>3 DEF RunSteps, OpGrip, OpCheck, OpFeedback, FeedbackSend, FeedbackPhoto, FeedbackCheck,
                OpMove, MoveCommand, MoveWait, MoveEnd, OpEnd, At, AtOp, Watching, world
  <2> QED BY <2>1, <2>2, WatcherStays, Labels
<1>4. ASSUME NEW t \in Threads, TransSteps(t) \/ GoSteps(t)
      PROVE  NavAttended'
  BY <1>4, GoKeepsAttended
<1>5. CASE ServerSteps
  BY <1>5 DEF ServerSteps, Arrive, Halt, NavAttended
<1>6. CASE UNCHANGED vars
  BY <1>6 DEF vars, world, NavAttended
<1> QED BY <1>1, <1>2, <1>3, <1>4, <1>5, <1>6, Labels DEF Next, ButtonSteps, MainSteps

\* A busy planner always has a thread that asks for its end or is about to stop
\* it, for any buttons and any failures but those of the planner's own service:
\* no interleaving of the two threads sets the robot in motion unwatched.
THEOREM NavAttendedHolds ==
  ASSUME "nav" \notin Faults
  PROVE  Spec => []NavAttended
<1>1. Init => NavAttended
  BY DEF Init, NavAttended
<1>2. TypeOK /\ NavAttended /\ [Next]_vars => NavAttended'
  BY NextKeepsAttended
<1> QED BY <1>1, <1>2, TypeCorrect, PTL DEF Spec
-----------------------------------------------------------------------------
\* Without an overlap one thread at a time is inside TransForState: cur, name and
\* dtype then change in the order of its four statements.
MidPcs == {"t_cur", "t_name", "t_start"}

Clean ==
  /\ ~Overlap
  /\ \A t \in Threads : pc[t] = "t_name" => cur = target[t]
  /\ (\A t \in Threads : pc[t] # "t_name") => name = cur
  /\ (\A t \in Threads : pc[t] \notin MidPcs) => dtype = DetectorOf(cur, "sleep")
  /\ (\E t \in Threads : pc[t] \in MidPcs) => dtype = "sleep"

\* The four statements.
LEMMA TransKeepsClean ==
  ASSUME TypeOK, Clean, ~Overlap', NEW t \in Threads,
         TransStop(t) \/ TransCur(t) \/ TransName(t) \/ TransStart(t)
  PROVE  Clean'
<1>1. OthersStay(t)
  BY TransStays DEF TransSteps
<1>2. pc[t] \in TransPcs
  BY LabelSets DEF TransStop, TransCur, TransName, TransStart, At
<1>3. \A s \in Threads : s # t => pc[s] \notin TransPcs
  BY <1>2 DEF Clean, Overlap, Threads
<1>4. \A s \in Threads : s # t => pc[s] \notin MidPcs /\ pc'[s] \notin MidPcs
  BY <1>1, <1>3, LabelSets DEF OthersStay, MidPcs
<1> USE <1>4 DEF Clean, MidPcs, TypeOK, ControlOK, At, Goto, flags
<1>5. CASE TransStop(t)
  BY <1>5 DEF TransStop, DetectorOf
<1>6. CASE TransCur(t)
  BY <1>6 DEF TransCur
<1>7. CASE TransName(t)
  BY <1>7 DEF TransName
<1>8. CASE TransStart(t)
  <2>1. pc'[t] \notin MidPcs
    BY <1>8 DEF TransStart, Return, Returns
  <2> QED BY <1>8, <2>1 DEF TransStart, DetectorOf
<1> QED BY <1>5, <1>6, <1>7, <1>8

\* Every other step of a thread starts and ends outside of them and changes
\* neither cur nor name nor dtype.
Outside(t) ==
  /\ pc[t] \notin MidPcs /\ pc'[t] \notin MidPcs
  /\ UNCHANGED <<cur, name, dtype>>

LEMMA OutsideKeepsClean ==
  ASSUME Clean, ~Overlap', NEW t \in Threads, OthersStay(t), Outside(t)
  PROVE  Clean'
<1>1. \A s \in Threads : pc'[s] \in MidPcs => s # t /\ pc'[s] = pc[s] /\ target'[s] = target[s]
  BY DEF OthersStay, Outside
<1>2. \A s \in Threads : pc[s] \in MidPcs => pc'[s] = pc[s]
  BY DEF OthersStay, Outside
<1> QED BY <1>1, <1>2 DEF Clean, Outside, MidPcs

LEMMA IdleAndGoOutside ==
  ASSUME TypeOK, NEW t \in Threads,
         IdleStopsNav(t) \/ IdleCamera(t) \/ IdlePhoto(t) \/ GoSteps(t)
  PROVE  Outside(t)
<1> USE DEF TypeOK, ControlOK, Outside, At, Goto, Return, Returns, MidPcs, flags
<1>1. CASE IdleStopsNav(t) \/ IdleCamera(t)
  BY <1>1 DEF IdleStopsNav, IdleCamera
<1>2. CASE IdlePhoto(t)
  BY <1>2 DEF IdlePhoto
<1>3. CASE GoMode(t) \/ GoGoal(t) \/ GoWait(t)
  BY <1>3 DEF GoMode, GoGoal, GoWait
<1>4. CASE NavStop(t) \/ NavWait(t)
  BY <1>4 DEF NavStop, NavWait
<1> QED BY <1>1, <1>2, <1>3, <1>4 DEF GoSteps

LEMMA ButtonOutside ==
  ASSUME TypeOK,
         Press \/ StopSend \/ StopRobot \/ Unlock \/ GrabReset \/ Grip \/ TaskGo
  PROVE  Outside("button")
<1> USE Labels DEF TypeOK, ControlOK, Outside, At, Goto, Call, Trans, MidPcs, flags
<1>1. CASE Press
  BY <1>1 DEF Press, PressNext, PressTrans, PressGoto
<1>2. CASE StopSend \/ TaskGo
  BY <1>2 DEF StopSend, TaskGo
<1>3. CASE StopRobot \/ Unlock \/ GrabReset \/ Grip
  BY <1>3 DEF StopRobot, Unlock, GrabReset, Grip, RobotThen
<1> QED BY <1>1, <1>2, <1>3

LEMMA MainOutside ==
  ASSUME TypeOK,
         \/ Loop \/ WayDone \/ HomeIdle \/ SendTask \/ RunSteps
         \/ SendGo("send_go", "way_done") \/ SendGo("home_go", "home_idle")
  PROVE  Outside("main")
<1> USE Labels DEF TypeOK, ControlOK, Outside, At, AtOp, Goto, Call, Trans, MidPcs, flags
<1>1. CASE Loop \/ WayDone \/ HomeIdle \/ SendTask
  BY <1>1 DEF Loop, WayDone, HomeIdle, SendTask
<1>2. CASE SendGo("send_go", "way_done") \/ SendGo("home_go", "home_idle")
  BY <1>2 DEF SendGo
<1>3. CASE OpGrip \/ OpCheck \/ OpFeedback \/ FeedbackSend \/ FeedbackPhoto \/ FeedbackCheck
  BY <1>3 DEF OpGrip, OpCheck, OpFeedback, FeedbackSend, FeedbackPhoto, FeedbackCheck,
              NextOp, RunReturns
<1>4. CASE OpMove \/ MoveCommand \/ MoveWait \/ MoveEnd \/ OpEnd
  BY <1>4 DEF OpMove, MoveCommand, MoveWait, MoveEnd, OpEnd, NextOp, RunReturns
<1> QED BY <1>1, <1>2, <1>3, <1>4 DEF RunSteps

LEMMA NextKeepsClean ==
  ASSUME TypeOK, Clean, ~Overlap', [Next]_vars
  PROVE  Clean'
<1>1. CASE Press \/ StopSend \/ StopRobot \/ Unlock \/ GrabReset \/ Grip \/ TaskGo
  BY <1>1, ButtonOutside, ButtonStays, OutsideKeepsClean, Labels DEF ButtonSteps
<1>2. CASE \/ Loop \/ WayDone \/ HomeIdle \/ SendTask \/ RunSteps
           \/ SendGo("send_go", "way_done") \/ SendGo("home_go", "home_idle")
  BY <1>2, MainOutside, MainStays, OutsideKeepsClean, Labels DEF MainSteps
<1>3. ASSUME NEW t \in Threads,
             IdleStopsNav(t) \/ IdleCamera(t) \/ IdlePhoto(t) \/ GoSteps(t)
      PROVE  Clean'
  BY <1>3, IdleAndGoOutside, TransStays, OutsideKeepsClean DEF TransSteps
<1>4. ASSUME NEW t \in Threads,
             TransStop(t) \/ TransCur(t) \/ TransName(t) \/ TransStart(t)
      PROVE  Clean'
  BY <1>4, TransKeepsClean
<1>5. CASE ServerSteps \/ UNCHANGED vars
  <2>1. UNCHANGED <<cur, name, dtype, pc, target>>
    BY <1>5 DEF ServerSteps, vars
  <2> QED BY <2>1 DEF Clean, MidPcs
<1> QED BY <1>1, <1>2, <1>3, <1>4, <1>5, Labels DEF Next, ButtonSteps, MainSteps, TransSteps

LEMMA OverlapInvariant == OverlapSpec => [](TypeOK /\ (overlapped \/ Clean))
<1> DEFINE Inv == TypeInv /\ (overlapped \/ Clean)
<1>1. OverlapInit => Inv
  <2> SUFFICES ASSUME OverlapInit PROVE Inv
    OBVIOUS
  <2>1. TypeInv
    BY InitType DEF OverlapInit
  <2>2. Clean
    BY LabelSets DEF OverlapInit, Init, Clean, Overlap, MidPcs, Threads, DetectorOf
  <2> QED BY <2>1, <2>2
<1>2. Inv /\ [OverlapNext]_<<vars, overlapped, left>> => Inv'
  <2> SUFFICES ASSUME Inv, [OverlapNext]_<<vars, overlapped, left>> PROVE Inv'
    OBVIOUS
  <2>1. [Next]_vars /\ (overlapped' = (overlapped \/ Overlap') \/ UNCHANGED <<vars, overlapped, left>>)
    BY DEF OverlapNext
  <2>2. TypeInv'
    BY <2>1, NextKeepsType
  <2>3. CASE overlapped' = (overlapped \/ Overlap')
    <3>1. CASE overlapped \/ Overlap'
      BY <2>2, <2>3, <3>1
    <3>2. CASE ~overlapped /\ ~Overlap'
      BY <2>1, <2>2, <3>2, NextKeepsClean DEF TypeInv
    <3> QED BY <3>1, <3>2
  <2>4. CASE UNCHANGED <<vars, overlapped, left>>
    BY <2>2, <2>4 DEF vars, Clean, Overlap, MidPcs
  <2> QED BY <2>1, <2>3, <2>4
<1>3. Inv => TypeOK /\ (overlapped \/ Clean)
  BY DEF TypeInv
<1> QED BY <1>1, <1>2, <1>3, PTL DEF OverlapSpec

\* As long as no two calls of TransForState overlapped, the detector works for the
\* state whose name the loops compare.
THEOREM DetectorFollows == OverlapSpec => []DetectorFollowsUnlessOverlap
<1>1. TypeOK /\ (overlapped \/ Clean) => DetectorFollowsUnlessOverlap
  BY LabelSets DEF Clean, DetectorFollowsUnlessOverlap, DetectorFollowsState, Resting, MidPcs
<1> QED BY <1>1, OverlapInvariant, PTL
-----------------------------------------------------------------------------
\* MoveAttended, strengthened: a motion that still runs when its wait has ended
\* is stopped next, because the state is Idle; and a button can only come back
\* to Adjust by way of Auto, where the wait would have been left for good.
TransPending == {"t_stop", "t_cur", "t_name"}
Attended ==
  /\ MoveAttended
  /\ pc["main"] = "m_end" /\ move = "busy" => name = "Idle"
  /\ pc["button"] \in TransPending /\ target["button"] = "Adjust" => name = "Auto"

\* A step of the main thread that does not start inside the wait finds the
\* server not busy, and leaves it so.
LEMMA MainKeepsAttended ==
  ASSUME TypeOK, Attended, OthersStay("main"), pc["main"] \notin {"m_wait", "m_end"},
         UNCHANGED <<move, name>>
  PROVE  Attended'
BY Labels DEF Attended, MoveAttended, OthersStay

LEMMA TransKeepsAttended ==
  ASSUME TypeOK, Clean, Attended, ~Overlap', ~Leave', NEW t \in Threads,
         TransSteps(t) \/ GoSteps(t)
  PROVE  Attended'
<1>1. OthersStay(t) /\ UNCHANGED move
  BY TransStays DEF TransSteps, TransStop, TransCur, TransName, TransStart, IdleStopsNav,
     IdleCamera, IdlePhoto, GoSteps, GoMode, GoGoal, GoWait, NavStop, NavWait, world
<1>2. pc[t] \in TransPcs \cup GoPcs
  BY LabelSets DEF TransSteps, TransStop, TransCur, TransName, TransStart, IdleStopsNav,
     IdleCamera, IdlePhoto, GoSteps, GoMode, GoGoal, GoWait, NavStop, NavWait, At
<1>3. pc[t] \notin {"m_wait", "m_end"}
  BY <1>2, LabelSets
<1>4. CASE TransName(t)
  <2>1. name' = target[t] /\ pc[t] = "t_name" /\ pc'[t] = "t_start"
    BY <1>4 DEF TransName, At, Goto, TypeOK, ControlOK
  <2>2. \A s \in Threads : s # t => pc[s] \notin TransPending
    BY <2>1, LabelSets DEF Clean, Overlap, Threads, TransPending
  <2>3. CASE t = "main"
    BY <1>1, <1>3, <2>1, <2>2, <2>3, Labels DEF Attended, MoveAttended, OthersStay
  <2>4. CASE t = "button"
    <3>1. pc'["main"] = pc["main"]
      BY <1>1, <2>4, Labels DEF OthersStay
    <3>2. CASE pc["main"] = "m_end" /\ move = "busy"
      <4>1. name = "Idle" /\ target["button"] # "Adjust"
        BY <2>1, <2>4, <3>2 DEF Attended, TransPending
      <4>2. target["button"] = "Idle"
        BY <2>1, <2>4, <3>1, <3>2, <4>1 DEF Leave
      <4> QED BY <1>1, <2>1, <2>4, <3>1, <4>2 DEF Attended, MoveAttended, TransPending
    <3>3. CASE ~(pc["main"] = "m_end" /\ move = "busy")
      BY <1>1, <2>1, <2>4, <3>1, <3>3 DEF Attended, MoveAttended, TransPending
    <3> QED BY <3>2, <3>3
  <2> QED BY <2>3, <2>4 DEF Threads
<1>5. CASE ~TransName(t)
  <2>1. UNCHANGED name
    BY <1>5 DEF TransSteps, TransStop, TransCur, TransStart, IdleStopsNav,
       IdleCamera, IdlePhoto, GoSteps, GoMode, GoGoal, GoWait, NavStop, NavWait
  <2>2. CASE t = "main"
    BY <1>1, <1>3, <2>1, <2>2, MainKeepsAttended
  <2>3. CASE t = "button"
    <3>1. pc'["main"] = pc["main"]
      BY <1>1, <2>3, Labels DEF OthersStay
    <3>2. pc'["button"] \in TransPending =>
            pc["button"] \in TransPending /\ target'["button"] = target["button"]
      <4> USE DEF TypeOK, ControlOK, Goto, Return, Returns, At, TransPending
      <4>1. CASE TransStop(t) \/ TransCur(t)
        BY <2>3, <4>1 DEF TransStop, TransCur
      <4>2. CASE TransStart(t) \/ IdleStopsNav(t) \/ IdleCamera(t) \/ IdlePhoto(t)
        BY <2>3, <4>2 DEF TransStart, IdleStopsNav, IdleCamera, IdlePhoto
      <4>3. CASE GoSteps(t)
        BY <2>3, <4>3 DEF GoSteps, GoMode, GoGoal, GoWait, NavStop, NavWait
      <4> QED BY <1>5, <4>1, <4>2, <4>3 DEF TransSteps
    <3> QED BY <1>1, <2>1, <3>1, <3>2 DEF Attended, MoveAttended
  <2> QED BY <2>2, <2>3 DEF Threads
<1> QED BY <1>4, <1>5

LEMMA NextKeepsMove ==
  ASSUME "move" \notin Faults, TypeOK, Clean, Attended, ~Overlap', ~Leave', [Next]_vars
  PROVE  Attended'
<1>1. CASE Press \/ StopSend \/ StopRobot \/ Unlock \/ GrabReset \/ Grip \/ TaskGo
  <2>1. pc'["main"] = pc["main"]
    BY <1>1, ButtonStays, Labels DEF ButtonSteps, OthersStay
  <2>2. UNCHANGED <<move, name>>
    BY <1>1 DEF Press, PressNext, PressTrans, PressGoto, StopSend, StopRobot, Unlock, GrabReset,
       Grip, TaskGo, RobotThen, world
  <2>3. pc'["button"] \in TransPending /\ target'["button"] = "Adjust" =>
          cur = "Auto" /\ UNCHANGED cur
    BY <1>1 DEF Press, PressNext, PressTrans, PressGoto, StopSend, StopRobot, Unlock, GrabReset,
       Grip, TaskGo, RobotThen, TypeOK, ControlOK, Goto, Call, Trans, TransPending, Threads
  <2>4. pc'["button"] \in TransPending => name = cur
    <3>1. pc["button"] \notin TransPcs
      BY <1>1, LabelSets DEF Press, StopSend, StopRobot, Unlock, GrabReset, Grip, TaskGo,
         RobotThen, At
    <3>2. pc'["button"] \in TransPending => pc["main"] # "t_name"
      BY <2>1, LabelSets DEF Overlap, Threads, TransPending
    <3> QED BY <3>1, <3>2, LabelSets DEF Clean, Threads
  <2> QED BY <2>1, <2>2, <2>3, <2>4 DEF Attended, MoveAttended
<1>2. CASE \/ Loop \/ WayDone \/ HomeIdle \/ SendTask
           \/ SendGo("send_go", "way_done") \/ SendGo("home_go", "home_idle")
  <2>1. pc["main"] \notin {"m_wait", "m_end"} /\ UNCHANGED <<move, name>>
    BY <1>2 DEF Loop, WayDone, HomeIdle, SendTask, SendGo, At, world
  <2> QED BY <1>2, <2>1, MainStays, MainKeepsAttended DEF MainSteps
<1>3. CASE OpGrip \/ OpCheck \/ OpFeedback \/ FeedbackSend \/ FeedbackPhoto \/ FeedbackCheck \/ OpMove
  <2>1. pc["main"] \notin {"m_wait", "m_end"} /\ UNCHANGED <<move, name>>
    BY <1>3 DEF OpGrip, OpCheck, OpFeedback, FeedbackSend, FeedbackPhoto, FeedbackCheck, OpMove,
       At, AtOp, world
  <2> QED BY <1>3, <2>1, MainStays, MainKeepsAttended DEF MainSteps, RunSteps
<1>4. CASE MoveCommand \/ MoveWait \/ MoveEnd \/ OpEnd
  <2>1. OthersStay("main") /\ UNCHANGED name
    BY <1>4, MainStays DEF MainSteps, RunSteps, MoveCommand, MoveWait, MoveEnd, OpEnd
  <2>2. MoveAttended' /\ (pc'["main"] = "m_end" /\ move' = "busy" => name' = "Idle")
    <3> USE DEF TypeOK, ControlOK, Threads, Goto, MoveAttended, At, AtOp, RunReturns, NextOp
    <3>1. CASE MoveCommand
      BY <3>1 DEF MoveCommand
    <3>2. CASE MoveWait
      BY <3>2 DEF MoveWait, Leave, world
    <3>3. CASE MoveEnd
      BY <3>3 DEF MoveEnd, Attended, StopMove, Halted
    <3>4. CASE OpEnd
      BY <3>4 DEF OpEnd, Attended, StopMove, Halted
    <3> QED BY <1>4, <3>1, <3>2, <3>3, <3>4
  <2> QED BY <2>1, <2>2, Labels DEF Attended, OthersStay
<1>5. ASSUME NEW t \in Threads, TransSteps(t) \/ GoSteps(t)
      PROVE  Attended'
  BY <1>5, TransKeepsAttended
<1>6. CASE ServerSteps
  BY <1>6 DEF ServerSteps, Arrive, Halt, Attended, MoveAttended
<1>7. CASE UNCHANGED vars
  BY <1>7 DEF vars, world, Attended, MoveAttended
<1> QED BY <1>1, <1>2, <1>3, <1>4, <1>5, <1>6, <1>7, Labels
        DEF Next, ButtonSteps, MainSteps, RunSteps

\* With a server that answers, a relative motion runs unattended only after two
\* calls of TransForState overlapped, or after the state was switched, while the
\* loop was waiting, to one it leaves without a stop.
THEOREM MoveAttendedHolds ==
  ASSUME "move" \notin Faults
  PROVE  OverlapSpec => []MoveAttendedUnlessLeft
<1> DEFINE Inv == overlapped \/ left \/ Attended
           Base == TypeOK /\ (overlapped \/ Clean)
<1>1. OverlapInit => Inv
  BY DEF OverlapInit, Init, Attended, MoveAttended, Threads, TransPending
<1>2. Base /\ Base' /\ Inv /\ [OverlapNext]_<<vars, overlapped, left>> => Inv'
  <2> SUFFICES ASSUME Base, Base', Inv, [OverlapNext]_<<vars, overlapped, left>> PROVE Inv'
    OBVIOUS
  <2>1. CASE OverlapNext
    <3>1. CASE overlapped \/ left \/ Overlap' \/ Leave'
      BY <2>1, <3>1 DEF OverlapNext
    <3>2. CASE ~overlapped /\ ~left /\ ~Overlap' /\ ~Leave'
      BY <2>1, <3>2, NextKeepsMove DEF OverlapNext
    <3> QED BY <3>1, <3>2
  <2>2. CASE UNCHANGED <<vars, overlapped, left>>
    BY <2>2 DEF vars, world, Attended, MoveAttended
  <2> QED BY <2>1, <2>2
<1>3. Inv => MoveAttendedUnlessLeft
  BY DEF MoveAttendedUnlessLeft, Attended
<1> QED BY <1>1, <1>2, <1>3, OverlapInvariant, PTL DEF OverlapSpec
-----------------------------------------------------------------------------
\* What a step does to the labels, as far as the liveness proofs below need it.
OthersKeep(t) ==
  \A s \in Threads : s # t => pc'[s] = pc[s] /\ after'[s] = after[s] /\ target'[s] = target[s]
Hop(t, from, to) == pc[t] = from /\ pc'[t] = to /\ after'[t] = after[t]
Back(t, from) == pc[t] = from /\ pc'[t] = after[t]
Calmer == nav' \in {nav, Halted(nav)}

LEMMA TransMoves ==
  ASSUME TypeOK, NEW t \in Threads, TransSteps(t)
  PROVE  /\ OthersKeep(t) /\ UNCHANGED <<way, op>> /\ Calmer
         /\ target'[t] \in {target[t], "Idle"}
         /\ name' = IF pc[t] = "t_name" THEN target[t] ELSE name
         /\ \/ Hop(t, "t_stop", "t_cur") /\ target'[t] = target[t]
            \/ Hop(t, "t_cur", "t_name") /\ target'[t] = target[t]
            \/ Hop(t, "t_name", "t_start")
            \/ Hop(t, "t_start", "i_nav") \/ Back(t, "t_start")
            \/ Hop(t, "i_nav", "i_camera")
            \/ Hop(t, "i_camera", "i_photo") \/ Back(t, "i_camera") \/ Back(t, "i_photo")
<1> USE DEF TypeOK, ControlOK, OthersKeep, Hop, Back, Calmer, At, Goto, Return, flags, world
<1>1. CASE TransStop(t)
  BY <1>1 DEF TransStop
<1>2. CASE TransCur(t)
  BY <1>2 DEF TransCur
<1>3. CASE TransName(t)
  BY <1>3 DEF TransName
<1>4. CASE TransStart(t)
  BY <1>4 DEF TransStart
<1>5. CASE IdleStopsNav(t)
  BY <1>5 DEF IdleStopsNav, StopNav
<1>6. CASE IdleCamera(t)
  BY <1>6 DEF IdleCamera
<1>7. CASE IdlePhoto(t)
  BY <1>7 DEF IdlePhoto
<1> QED BY <1>1, <1>2, <1>3, <1>4, <1>5, <1>6, <1>7 DEF TransSteps

LEMMA GoMoves ==
  ASSUME TypeOK, NEW t \in Threads, GoSteps(t)
  PROVE  /\ OthersKeep(t) /\ UNCHANGED <<way, op, name, target>>
         /\ \/ Hop(t, "go_hw", "go_goal") /\ nav' = nav
            \/ Hop(t, "go_goal", "go_wait") /\ nav' \in {nav, "busy"}
            \/ Hop(t, "go_wait", "n_stop") /\ Calmer
            \/ Back(t, "go_wait") /\ nav' = nav /\ nav = "free"
            \/ Hop(t, "n_stop", "n_wait") /\ Calmer
            \/ Back(t, "n_wait") /\ nav' = nav
         /\ "nav" \notin Faults /\ pc[t] \in Watching => nav' # "busy"
<1> USE DEF TypeOK, ControlOK, OthersKeep, Hop, Back, Calmer, At, Goto, Return, flags, world, Watching
<1>1. CASE GoMode(t)
  BY <1>1 DEF GoMode
<1>2. CASE GoGoal(t)
  BY <1>2 DEF GoGoal
<1>3. CASE GoWait(t)
  BY <1>3 DEF GoWait, StopNav, Halted
<1>4. CASE NavStop(t)
  BY <1>4 DEF NavStop, StopNav, Halted
<1>5. CASE NavWait(t)
  BY <1>5 DEF NavWait
<1> QED BY <1>1, <1>2, <1>3, <1>4, <1>5 DEF GoSteps

\* The button thread outside of TransForState and the AutoState events.
ButtonOwn == StopSend \/ StopRobot \/ Unlock \/ GrabReset \/ Grip \/ TaskGo
HwPcs == {"s_hw", "u_hw", "r_hw", "g_hw"}

LEMMA ButtonMoves ==
  ASSUME TypeOK, ButtonOwn
  PROVE  /\ OthersKeep("button") /\ UNCHANGED <<way, op, name, nav>>
         /\ \/ pc["button"] = "s_send" /\ pc'["button"] = "n_stop" /\ after'["button"] = "s_hw"
            \/ pc["button"] = "s_send" /\ pc'["button"] = "s_hw"
            \/ pc["button"] \in HwPcs /\ pc'["button"] = "t_stop" /\ after'["button"] = "b_idle"
            \/ pc["button"] \in HwPcs /\ pc'["button"] = "b_idle"
            \/ pc["button"] = "k_go" /\ pc'["button"] = "go_hw" /\ after'["button"] = "b_idle"
            \/ pc["button"] = "k_go" /\ pc'["button"] = "b_idle"
<1> USE Labels DEF TypeOK, ControlOK, OthersKeep, HwPcs, At, Goto, Call, Trans, flags, world
<1>1. CASE StopSend
  BY <1>1 DEF StopSend
<1>2. CASE StopRobot \/ Unlock \/ GrabReset \/ Grip
  BY <1>2 DEF StopRobot, Unlock, GrabReset, Grip, RobotThen
<1>3. CASE TaskGo
  BY <1>3 DEF TaskGo
<1> QED BY <1>1, <1>2, <1>3 DEF ButtonOwn

\* No button asks for the state Idle at once: the stop calls the robot first.
LEMMA PressMoves ==
  ASSUME TypeOK, Press
  PROVE  /\ OthersKeep("button") /\ UNCHANGED <<way, op, name, nav>> /\ pc["button"] = "b_idle"
         /\ \/ /\ pc'["button"] = "t_stop" /\ after'["button"] \in {"b_idle", "k_go"}
               /\ target'["button"] # "Idle"
            \/ pc'["button"] \in {"s_send", "u_hw", "r_hw", "g_hw"}
<1> USE Labels DEF TypeOK, ControlOK, OthersKeep, At, Goto, Call, Trans, flags, world
<1>1. CASE PressNext
  BY <1>1 DEF Press, PressNext
<1>2. CASE PressTrans("Gohome", "b_idle") \/ PressTrans("Auto", "k_go")
  BY <1>2 DEF Press, PressTrans
<1>3. CASE \E l \in {"s_send", "u_hw", "r_hw", "g_hw"} : PressGoto(l)
  BY <1>3 DEF Press, PressGoto
<1> QED BY <1>1, <1>2, <1>3 DEF Press

\* The main thread outside of TransForState, the AutoState events and run().
MainOwn ==
  \/ Loop \/ SendGo("send_go", "way_done") \/ SendGo("home_go", "home_idle")
  \/ WayDone \/ HomeIdle \/ SendTask

LEMMA MainMoves ==
  ASSUME TypeOK, MainOwn
  PROVE  /\ OthersKeep("main") /\ UNCHANGED <<op, name, nav>>
         /\ pc["main"] # "way_done" => way' = way
         /\ target'["main"] \in {target["main"], "Auto", "Idle"}
         /\ \/ Hop("main", "loop", "send_go") /\ way /\ name = "Auto"
            \/ Hop("main", "loop", "send_task") /\ name = "Adjust"
            \/ /\ pc["main"] = "loop" /\ pc'["main"] = "t_stop" /\ after'["main"] = "home_go"
               /\ name = "Gohome"
            \/ pc["main"] = "send_go" /\ pc'["main"] = "go_hw" /\ after'["main"] = "way_done"
            \/ Hop("main", "send_go", "way_done")
            \/ pc["main"] = "home_go" /\ pc'["main"] = "go_hw" /\ after'["main"] = "home_idle"
            \/ Hop("main", "home_go", "home_idle")
            \/ Hop("main", "way_done", "loop") /\ ~way'
            \/ pc["main"] = "home_idle" /\ pc'["main"] = "t_stop" /\ after'["main"] = "loop"
            \/ Hop("main", "send_task", "op") \/ Hop("main", "send_task", "loop")
<1> USE Labels DEF TypeOK, ControlOK, OthersKeep, Hop, At, Goto, Call, Trans, flags, world
<1>1. CASE Loop
  BY <1>1 DEF Loop
<1>2. CASE SendGo("send_go", "way_done")
  BY <1>2 DEF SendGo
<1>3. CASE SendGo("home_go", "home_idle")
  BY <1>3 DEF SendGo
<1>4. CASE WayDone \/ HomeIdle
  BY <1>4 DEF WayDone, HomeIdle
<1>5. CASE SendTask
  BY <1>5 DEF SendTask
<1> QED BY <1>1, <1>2, <1>3, <1>4, <1>5 DEF MainOwn

LEMMA RunMoves ==
  ASSUME TypeOK, RunSteps
  PROVE  /\ OthersKeep("main") /\ UNCHANGED <<way, name, nav>>
         /\ pc["main"] \in RunPcs
         /\ \/ pc'["main"] \in RunPcs \cup {"loop"} /\ UNCHANGED <<after, target>>
            \/ /\ pc'["main"] = "t_stop" /\ after'["main"] = "loop"
               /\ target'["main"] = "Auto" /\ name # "Idle"
<1> USE Labels DEF TypeOK, ControlOK, OthersKeep, At, AtOp, Goto, Call, Trans, NextOp, RunReturns,
                   RunPcs, flags, world
<1>1. CASE OpGrip \/ OpCheck \/ OpFeedback
  BY <1>1 DEF OpGrip, OpCheck, OpFeedback
<1>2. CASE FeedbackSend \/ FeedbackPhoto \/ FeedbackCheck
  BY <1>2 DEF FeedbackSend, FeedbackPhoto, FeedbackCheck
<1>3. CASE OpMove \/ MoveCommand \/ MoveWait \/ MoveEnd
  BY <1>3 DEF OpMove, MoveCommand, MoveWait, MoveEnd
<1>4. CASE OpEnd
  BY <1>4 DEF OpEnd
<1> QED BY <1>1, <1>2, <1>3, <1>4 DEF RunSteps

LEMMA OtherMoves ==
  ASSUME TypeOK, ServerSteps \/ UNCHANGED vars
  PROVE  /\ UNCHANGED <<way, op, name, pc, after, target>>
         /\ nav' \in {nav, "free"}
BY DEF ServerSteps, Arrive, Halt, flags, vars, world

\* Every step is one of these.
LEMMA StepCases ==
  /\ [Next]_vars <=> \/ Press \/ ButtonSteps \/ MainSteps
                     \/ ServerSteps \/ UNCHANGED vars
  /\ ButtonSteps <=> ButtonOwn \/ TransSteps("button") \/ GoSteps("button")
  /\ MainSteps <=> MainOwn \/ RunSteps \/ TransSteps("main") \/ GoSteps("main")
BY DEF Next, ButtonSteps, MainSteps, ButtonOwn, MainOwn
-----------------------------------------------------------------------------
\* Where the calls of each thread return to: TransForState never to the end of
\* a go_ event, nor the other way round; the main thread itself never asks for
\* Gohome, and drives to a way point only while there is one.
AfterOK ==
  /\ pc["main"] \in TransPcs => after["main"] \in {"loop", "home_go"}
  /\ pc["main"] \in GoPcs => after["main"] \in {"way_done", "home_idle"}
  /\ pc["button"] \in TransPcs => after["button"] \in {"b_idle", "k_go"}
  /\ pc["button"] \in GoPcs => after["button"] \in {"b_idle", "s_hw"}
  /\ target["main"] \in {"Auto", "Idle"}
  /\ pc["main"] \in {"send_go", "way_done"} => way
  /\ pc["main"] \in GoPcs /\ after["main"] = "way_done" => way

LEMMA AfterStep == TypeOK /\ AfterOK /\ [Next]_vars => AfterOK'
<1> SUFFICES ASSUME TypeOK, AfterOK, [Next]_vars PROVE AfterOK'
  OBVIOUS
<1> USE Labels DEF AfterOK, OthersKeep, Hop, Back, TransPcs, GoPcs
<1>1. CASE Press
  BY <1>1, PressMoves
<1>2. CASE ButtonOwn
  BY <1>2, ButtonMoves
<1>3. CASE MainOwn
  BY <1>3, MainMoves
<1>4. CASE RunSteps
  BY <1>4, RunMoves DEF RunPcs
<1>5. CASE TransSteps("main")
  BY <1>5, TransMoves
<1>6. CASE TransSteps("button")
  BY <1>6, TransMoves
<1>7. CASE GoSteps("main")
  BY <1>7, GoMoves
<1>8. CASE GoSteps("button")
  BY <1>8, GoMoves
<1>9. CASE ServerSteps \/ UNCHANGED vars
  BY <1>9, OtherMoves
<1> QED BY <1>1, <1>2, <1>3, <1>4, <1>5, <1>6, <1>7, <1>8, <1>9, StepCases

Known == TypeInv /\ AfterOK

LEMMA KnownHolds == Spec => []Known
<1>1. Init => AfterOK
  BY DEF Init, AfterOK, Threads, TransPcs, GoPcs
<1>2. TypeInv => TypeOK
  BY DEF TypeInv
<1> QED BY <1>1, <1>2, AfterStep, TypeInvariant, PTL DEF Spec, Known

-----------------------------------------------------------------------------
\* The steps a thread has left on its way to b_idle or to the loop, when it calls
\* nobody anew: by the label, ...
LabelRank(l) ==
  CASE l \in {"loop", "b_idle"} -> 0
    [] l = "way_done" -> 1
    [] l = "i_photo" -> 2
    [] l = "i_camera" -> 3
    [] l = "i_nav" -> 4
    [] l = "t_start" -> 5
    [] l = "t_name" -> 6
    [] l = "t_cur" -> 7
    [] l = "t_stop" -> 8
    [] l \in {"home_idle"} \cup HwPcs -> 9
    [] l = "n_wait" -> 10
    [] l = "n_stop" -> 11
    [] l \in {"go_wait", "s_send"} -> 12
    [] l = "go_goal" -> 13
    [] l = "go_hw" -> 14
    [] l \in {"send_go", "home_go", "k_go"} -> 15
    [] l \in {"f_check", "m_end"} -> 24
    [] l \in {"f_photo", "m_wait"} -> 25
    [] l \in {"f_send", "m_cmd"} -> 26
    [] l = "op" -> 27
    [] l = "send_task" -> 28

\* ... by what follows TransForState, and by the operations of run() to come.
Rank(t) ==
  IF pc[t] \in TransPcs /\ after[t] \in {"home_go", "k_go"} THEN LabelRank(pc[t]) + 16
  ELSE IF pc[t] \in RunPcs THEN LabelRank(pc[t]) + 4 * (RunLen - op)
  ELSE IF pc[t] = "send_task" THEN LabelRank(pc[t]) + 4 * RunLen
  ELSE LabelRank(pc[t])

LEMMA LabelRanks ==
  /\ LabelRank("loop") = 0 /\ LabelRank("b_idle") = 0 /\ LabelRank("way_done") = 1
  /\ LabelRank("i_photo") = 2 /\ LabelRank("i_camera") = 3 /\ LabelRank("i_nav") = 4
  /\ LabelRank("t_start") = 5 /\ LabelRank("t_name") = 6 /\ LabelRank("t_cur") = 7
  /\ LabelRank("t_stop") = 8 /\ LabelRank("home_idle") = 9
  /\ \A l \in HwPcs : LabelRank(l) = 9
  /\ LabelRank("n_wait") = 10 /\ LabelRank("n_stop") = 11 /\ LabelRank("go_wait") = 12
  /\ LabelRank("s_send") = 12 /\ LabelRank("go_goal") = 13 /\ LabelRank("go_hw") = 14
  /\ LabelRank("send_go") = 15 /\ LabelRank("home_go") = 15 /\ LabelRank("k_go") = 15
BY DEF LabelRank, HwPcs

LEMMA RunLabelRanks ==
  /\ LabelRank("f_check") = 24 /\ LabelRank("m_end") = 24
  /\ LabelRank("f_photo") = 25 /\ LabelRank("m_wait") = 25
  /\ LabelRank("f_send") = 26 /\ LabelRank("m_cmd") = 26
  /\ LabelRank("op") = 27 /\ LabelRank("send_task") = 28
BY DEF LabelRank, HwPcs

\* Only b_idle and the loop are without a step to come.
LEMMA RankTypes ==
  ASSUME TypeOK
  PROVE  /\ Rank("button") \in Nat /\ (Rank("button") = 0 <=> pc["button"] = "b_idle")
         /\ Rank("main") \in Nat /\ (Rank("main") = 0 <=> pc["main"] = "loop")
<1>1. RunLen \in Nat /\ RunLen - op \in Nat
  BY RoundsAssumption DEF RunLen, Finish, TypeOK
<1>2. /\ pc["button"] \in TransPcs \cup GoPcs \cup ButtonPcs
      /\ pc["main"] \in TransPcs \cup GoPcs \cup MainPcs
  BY Labels DEF TypeOK, ControlOK, Own
<1>3. Rank("button") \in Nat /\ (Rank("button") = 0 <=> pc["button"] = "b_idle")
  BY <1>1, <1>2, LabelRanks, RunLabelRanks DEF Rank, TransPcs, GoPcs, ButtonPcs, HwPcs, RunPcs
<1>4. Rank("main") \in Nat /\ (Rank("main") = 0 <=> pc["main"] = "loop")
  BY <1>1, <1>2, LabelRanks, RunLabelRanks DEF Rank, TransPcs, GoPcs, MainPcs, HwPcs, RunPcs
<1> QED BY <1>3, <1>4

LEMMA RankTypesNext ==
  TypeOK' =>
    /\ Rank("button")' \in Nat /\ (Rank("button")' = 0 <=> pc'["button"] = "b_idle")
    /\ Rank("main")' \in Nat
<1> DEFINE R == /\ Rank("button") \in Nat /\ (Rank("button") = 0 <=> pc["button"] = "b_idle")
                /\ Rank("main") \in Nat
<1>1. TypeOK => R
  BY RankTypes
<1>2. R' <=> /\ Rank("button")' \in Nat /\ (Rank("button")' = 0 <=> pc'["button"] = "b_idle")
             /\ Rank("main")' \in Nat
  OBVIOUS
<1> HIDE DEF R
<1>3. TypeOK' => R'
  BY <1>1, PTL
<1> QED BY <1>2, <1>3

\* Every step of a call brings the thread closer to the end ...
LEMMA CallFalls ==
  ASSUME TypeOK, AfterOK, NEW t \in Threads, TransSteps(t) \/ GoSteps(t)
  PROVE  Rank(t)' < Rank(t)
<1>1. t = "main" \/ t = "button"
  BY DEF Threads
<1> USE LabelRanks DEF Rank, Hop, Back, AfterOK, TransPcs, GoPcs, RunPcs, HwPcs
<1>2. CASE TransSteps(t)
  BY <1>1, <1>2, TransMoves
<1>3. CASE GoSteps(t)
  BY <1>1, <1>3, GoMoves
<1> QED BY <1>2, <1>3

\* ... and so does every other step of the button thread.
LEMMA ButtonFalls ==
  ASSUME TypeOK, AfterOK, ButtonSteps
  PROVE  Rank("button")' < Rank("button")
<1>1. CASE ButtonOwn
  BY <1>1, ButtonMoves, LabelRanks DEF Rank, Hop, TransPcs, RunPcs, HwPcs
<1> QED BY <1>1, CallFalls, StepCases, Labels
-----------------------------------------------------------------------------
\* ButtonServed.  While the button thread waits, the main thread can send the
\* planner few goals: the one of its way point, if that is still to be sent, ...
Waits == {"go_wait", "n_stop", "n_wait"}
WayGoal ==
  /\ way /\ pc["main"] # "way_done"
  /\ ~(pc["main"] \in Waits /\ after["main"] = "way_done")

\* ... the one of the way home it is on, and one more if it is yet to find the
\* name Gohome: it stores another name itself, and never that one.
HomeGoal ==
  \/ pc["main"] \in TransPcs /\ after["main"] = "home_go"
  \/ pc["main"] = "home_go"
  \/ pc["main"] \in {"go_hw", "go_goal"} /\ after["main"] = "home_idle"
HomeNext == name = "Gohome" /\ pc["main"] \notin TransPending

One(b) == IF b THEN 1 ELSE 0
Goals == One(WayGoal) + One(HomeGoal) + One(HomeNext)

\* The steps of the button thread come first, the goals of the main thread second.
ServeLeft == IF At("button", "b_idle") THEN 0 ELSE 4 * Rank("button") + Goals

\* No step of the main thread adds a goal to come, and a goal that is sent is
\* one less.
LEMMA GoalsFall ==
  ASSUME TypeOK, AfterOK, [Next]_vars, ~(Press \/ ButtonSteps)
  PROVE  /\ WayGoal' => WayGoal
         /\ One(HomeGoal)' + One(HomeNext)' <= One(HomeGoal) + One(HomeNext)
         /\ nav # "busy" /\ nav' = "busy" => Goals' < Goals
<1> USE Labels DEF One, Goals, WayGoal, HomeGoal, HomeNext, Waits, AfterOK, Hop, Back,
                   TransPcs, GoPcs, RunPcs, TransPending, Calmer, Halted
<1>1. CASE MainOwn
  BY <1>1, MainMoves
<1>2. CASE RunSteps
  BY <1>2, RunMoves
<1>3. CASE TransSteps("main")
  BY <1>3, TransMoves
<1>4. CASE GoSteps("main")
  BY <1>4, GoMoves
<1>5. CASE ServerSteps \/ UNCHANGED vars
  <2>1. UNCHANGED name
    BY <1>5 DEF ServerSteps, vars
  <2> QED BY <1>5, <2>1, OtherMoves
<1> QED BY <1>1, <1>2, <1>3, <1>4, <1>5, StepCases

LEMMA GoalsType == Goals \in 0..3 /\ Goals' \in 0..3
BY DEF Goals, One
LEMMA NavSteps ==
  ASSUME TypeOK, [Next]_vars, nav = "free"
  PROVE  nav' \in {"free", "busy"}
BY StepCases, PressMoves, ButtonMoves, MainMoves, RunMoves, TransMoves, GoMoves, OtherMoves, Labels
   DEF Calmer, Halted

\* What is left for the button thread: every step of its own takes away from it,
\* and no other step adds to it, but a press when nothing is left.
LEMMA ServeStep ==
  ASSUME TypeOK, AfterOK, TypeOK', [Next]_vars, ~At("button", "b_idle")
  PROVE  /\ ServeLeft' <= ServeLeft
         /\ ButtonSteps => ServeLeft' < ServeLeft
         /\ nav # "busy" /\ nav' = "busy" => ServeLeft' < ServeLeft
<1>1. /\ Rank("button") \in Nat /\ Rank("button")' \in Nat /\ Rank("button") > 0
      /\ (pc'["button"] = "b_idle" <=> Rank("button")' = 0)
  BY RankTypes, RankTypesNext DEF At
<1>2. ASSUME Rank("button")' < Rank("button")
      PROVE  ServeLeft' < ServeLeft
  <2>1. 4 * Rank("button")' + Goals' < 4 * Rank("button") + Goals
    BY <1>1, <1>2, GoalsType
  <2>2. 4 * Rank("button") + Goals > 0
    BY <1>1, GoalsType
  <2> QED BY <2>1, <2>2 DEF ServeLeft, At
<1>3. ServeLeft \in Nat /\ ServeLeft' \in Nat
  BY <1>1, GoalsType DEF ServeLeft
<1>4. CASE ButtonSteps
  BY <1>2, <1>3, <1>4, ButtonFalls
<1>5. CASE ~(Press \/ ButtonSteps)
  <2>1. pc'["button"] = pc["button"] /\ after'["button"] = after["button"] /\ Rank("button")' = Rank("button")
    <3>1. pc'["button"] = pc["button"] /\ after'["button"] = after["button"]
      BY <1>5, StepCases, MainMoves, RunMoves, TransMoves, GoMoves, OtherMoves, Labels DEF OthersKeep
    <3>2. pc["button"] \notin RunPcs \cup {"send_task"}
      BY LabelSets, Labels DEF TypeOK, ControlOK, Own, ButtonPcs, TransPcs, GoPcs, RunPcs
    <3> QED BY <3>1, <3>2 DEF Rank
  <2>2. Goals' <= Goals /\ (nav # "busy" /\ nav' = "busy" => Goals' < Goals)
    BY <1>5, GoalsFall DEF Goals, One
  <2>3. /\ ServeLeft = 4 * Rank("button") + Goals
        /\ ServeLeft' = 4 * Rank("button") + Goals'
    BY <2>1 DEF ServeLeft, At
  <2> QED BY <1>1, <1>5, <2>2, <2>3, GoalsType
<1>6. ~Press
  BY PressMoves DEF At
<1> QED BY <1>4, <1>5, <1>6

\* What a thread waits for: the planner, or the point-move server.
ButtonReady ==
  /\ pc["button"] # "b_idle"
  /\ pc["button"] = "go_wait" => (name = "Idle" \/ nav = "free")
  /\ pc["button"] = "n_wait" => (nav = "free" \/ "nav" \in Faults)
MainReady ==
  /\ pc["main"] # "loop"
  /\ pc["main"] = "go_wait" => (name = "Idle" \/ nav = "free")
  /\ pc["main"] = "n_wait" => (nav = "free" \/ "nav" \in Faults)
  /\ pc["main"] = "m_wait" => (name # "Adjust" \/ move = "free")
NavHalts == ServerSteps /\ nav = "stopping" /\ nav' = "free"

\* That there is a step when nothing is waited for has no rule in the prover.
Unblocked ==
  /\ [](ButtonReady => ENABLED <<ButtonSteps>>_vars)
  /\ [](MainReady => ENABLED <<MainSteps>>_vars)
  /\ [](nav = "stopping" => ENABLED <<NavHalts>>_vars)
Runs ==
  /\ [][Next]_vars /\ []Known /\ []TypeOK /\ Unblocked
  /\ WF_vars(ButtonSteps) /\ WF_vars(MainSteps) /\ WF_vars(NavHalts)

LEMMA FairRuns == FairSpec /\ Unblocked => Runs
BY KnownHolds, TypeCorrect, PTL DEF FairSpec, Spec, Runs, NavHalts

\* The planner stays free, once it is, as long as nobody sends it a goal.
LEMMA NavHaltSteps == TypeOK /\ <<NavHalts>>_vars => nav' = "free"
BY DEF NavHalts

ServeFalls(n) == (ServeLeft = n) ~> (ServeLeft < n)
AllServeFall == \A n \in Nat \ {0} : ServeFalls(n)

LEMMA ServeGoesOn ==
  ASSUME NEW n \in Nat \ {0}
  PROVE  Runs /\ FreeFloor => ServeFalls(n)
<1> DEFINE E == ServeLeft = n
           L == ServeLeft < n
           B == nav = "busy"
           F == nav = "free"
           T == nav = "stopping"
<1>1. TypeOK /\ TypeOK' /\ Known /\ [Next]_vars /\ E =>
        /\ (E \/ L)'
        /\ ButtonSteps => L'
        /\ E' /\ ~B => ~B'
        /\ E' /\ F => F'
  <2> SUFFICES ASSUME TypeOK, TypeOK', Known, [Next]_vars, E
               PROVE  /\ (E \/ L)'
                      /\ ButtonSteps => L'
                      /\ E' /\ ~B => ~B'
                      /\ E' /\ F => F'
    OBVIOUS
  <2>1. ~At("button", "b_idle")
    BY DEF ServeLeft
  <2>2. ServeLeft \in Nat /\ ServeLeft' \in Nat
    BY RankTypes, RankTypesNext, GoalsType DEF ServeLeft
  <2>3. F /\ ~B' => F'
    BY NavSteps
  <2> QED BY <2>1, <2>2, <2>3, ServeStep DEF Known
<1>2. TypeOK => B \/ F \/ T
  BY DEF TypeOK, Servers
<1>3. E /\ F => ButtonReady
  BY DEF ServeLeft, ButtonReady, At
<1>4. (ServeLeft = n <=> E) /\ (ServeLeft < n <=> L) /\ (nav # "busy" <=> ~B) /\ (nav = "stopping" <=> T)
  OBVIOUS
<1>5. <<NavHalts>>_vars => F'
  BY DEF NavHalts
<1>6. (F => ~B) /\ (T => ~B)
  OBVIOUS
<1> HIDE DEF E, L, B, F, T
<1>7. Runs /\ FreeFloor => (E ~> L)
  BY <1>1, <1>2, <1>3, <1>4, <1>5, <1>6, PTL DEF Runs, Unblocked, FreeFloor
<1> QED BY <1>4, <1>7, PTL DEF ServeFalls

\* The rule of descent for what is left for the button thread.
ServeDescends == [](AllServeFall => <>(ServeLeft = 0))

\* buttonCallback returns, on a free floor, whatever the main thread does to the
\* state meanwhile: for any buttons, failing services and rounds.
THEOREM ButtonServedHolds == FairSpec /\ Unblocked /\ ServeDescends => ButtonServed
<1>1. Runs /\ FreeFloor => AllServeFall
  BY ServeGoesOn DEF AllServeFall
<1>2. TypeOK /\ ServeLeft = 0 => At("button", "b_idle")
  <2>1. ASSUME TypeOK, ~At("button", "b_idle")
        PROVE  4 * Rank("button") + Goals # 0
    <3>1. Rank("button") \in Nat /\ Rank("button") # 0
      BY <2>1, RankTypes DEF At
    <3>2. Goals \in 0..3
      BY GoalsType
    <3> QED BY <3>1, <3>2
  <2> QED BY <2>1 DEF ServeLeft
<1>3. Runs /\ FreeFloor => []AllServeFall
  BY <1>1, PTL DEF Runs, Unblocked, FreeFloor
<1> QED BY <1>2, <1>3, FairRuns, PTL DEF ButtonServed, ServeDescends, Runs
-----------------------------------------------------------------------------
\* IdleIsQuiet.  A goal that a thread is on its way to send:
GoalAhead(t) ==
  \/ pc[t] \in {"send_go", "home_go", "k_go", "go_hw", "go_goal"}
  \/ pc[t] \in TransPcs /\ after[t] \in {"home_go", "k_go"}

\* a transition of the button thread that will take the name away from Idle.
Idle == name = "Idle"
Departs(labels) == pc["button"] \in labels /\ target["button"] # "Idle"

\* Where the state stays Idle there is none.
LEMMA NobodyDeparts == Runs /\ []Idle => []~Departs(TransPending)
<1> DEFINE S == Departs({"t_stop"})
           C == Departs({"t_cur"})
           N == Departs({"t_name"})
<1>1. TypeOK /\ Idle /\ Idle' /\ [Next]_vars => (S => (S \/ C)') /\ (C => (C \/ N)') /\ (N => N')
  <2> SUFFICES ASSUME TypeOK, Idle, Idle', [Next]_vars
               PROVE  (S => (S \/ C)') /\ (C => (C \/ N)') /\ (N => N')
    OBVIOUS
  <2> USE Labels DEF Departs, OthersKeep, Hop, Back, Idle
  <2>1. CASE TransSteps("button")
    BY <2>1, TransMoves
  <2>2. CASE Press \/ ButtonOwn \/ GoSteps("button")
    BY <2>2, PressMoves, ButtonMoves, GoMoves DEF HwPcs
  <2>3. CASE MainSteps
    BY <2>3, StepCases, MainMoves, RunMoves, TransMoves, GoMoves
  <2>4. CASE ServerSteps \/ UNCHANGED vars
    BY <2>4, OtherMoves
  <2> QED BY <2>1, <2>2, <2>3, <2>4, StepCases
<1>2. TypeOK /\ Idle /\ Idle' /\ <<ButtonSteps>>_vars => (S => C') /\ (C => N') /\ ~N
  <2> SUFFICES ASSUME TypeOK, Idle, Idle', ButtonSteps
               PROVE  (S => C') /\ (C => N') /\ ~N
    OBVIOUS
  <2> USE Labels DEF Departs, Hop, Back, Idle
  <2>1. CASE TransSteps("button")
    BY <2>1, TransMoves
  <2>2. CASE ButtonOwn \/ GoSteps("button")
    BY <2>2, ButtonMoves, GoMoves DEF HwPcs
  <2> QED BY <2>1, <2>2, StepCases
<1>3. (S => ButtonReady) /\ (C => ButtonReady) /\ (N => ButtonReady)
      /\ (Departs(TransPending) <=> S \/ C \/ N)
  BY DEF Departs, ButtonReady, TransPending
<1> HIDE DEF S, C, N
<1>4. Runs /\ []Idle => []~N
  BY <1>1, <1>2, <1>3, PTL DEF Runs, Unblocked
<1>5. Runs /\ []Idle => []~C
  BY <1>1, <1>2, <1>3, <1>4, PTL DEF Runs, Unblocked
<1>6. Runs /\ []Idle => []~S
  BY <1>1, <1>2, <1>3, <1>5, PTL DEF Runs, Unblocked
<1> QED BY <1>3, <1>4, <1>5, <1>6, PTL

\* So each thread has at most one goal to send, and then none any more.
LEMMA GoalsEnd ==
  ASSUME TypeOK, AfterOK, Idle, Idle', ~Departs(TransPending)', [Next]_vars
  PROVE  /\ ~GoalAhead("main") => ~GoalAhead("main")'
         /\ ~GoalAhead("button") => ~GoalAhead("button")'
         /\ nav # "busy" /\ nav' = "busy" =>
              \/ GoalAhead("main") /\ ~GoalAhead("main")'
              \/ GoalAhead("button") /\ ~GoalAhead("button")'
<1> USE Labels DEF GoalAhead, AfterOK, Idle, OthersKeep, Hop, Back, Calmer, Halted,
                   TransPcs, GoPcs
<1>1. CASE Press
  BY <1>1, PressMoves DEF Departs, TransPending
<1>2. CASE ButtonOwn
  BY <1>2, ButtonMoves DEF HwPcs
<1>3. CASE MainOwn
  BY <1>3, MainMoves
<1>4. CASE RunSteps
  BY <1>4, RunMoves DEF RunPcs
<1>5. CASE TransSteps("main")
  BY <1>5, TransMoves
<1>6. CASE TransSteps("button")
  BY <1>6, TransMoves
<1>7. CASE GoSteps("main")
  BY <1>7, GoMoves
<1>8. CASE GoSteps("button")
  BY <1>8, GoMoves
<1>9. CASE ServerSteps \/ UNCHANGED vars
  BY <1>9, OtherMoves
<1> QED BY <1>1, <1>2, <1>3, <1>4, <1>5, <1>6, <1>7, <1>8, <1>9, StepCases

\* A thread that watches a busy planner stops it when it sees Idle.
WatchesBusy(t) == nav = "busy" /\ pc[t] \in Watching

LEMMA WatcherStops ==
  ASSUME TypeOK, "nav" \notin Faults
  PROVE  /\ WatchesBusy("main") /\ MainSteps => nav' # "busy"
         /\ WatchesBusy("button") /\ ButtonSteps => nav' # "busy"
<1> USE DEF WatchesBusy, Watching
<1>1. ASSUME NEW t \in Threads, TransSteps(t)
      PROVE  ~WatchesBusy(t)
  BY <1>1, TransMoves DEF Hop, Back
<1>2. ASSUME NEW t \in Threads, GoSteps(t)
      PROVE  WatchesBusy(t) => nav' # "busy"
  BY <1>2, GoMoves
<1>3. ASSUME WatchesBusy("main"), MainSteps
      PROVE  nav' # "busy"
  BY <1>1, <1>2, <1>3, StepCases, MainMoves, RunMoves, Labels DEF Hop, RunPcs
<1>4. ASSUME WatchesBusy("button"), ButtonSteps
      PROVE  nav' # "busy"
  BY <1>1, <1>2, <1>4, StepCases, ButtonMoves, Labels DEF HwPcs
<1> QED BY <1>3, <1>4

LEMMA WatcherKeeps ==
  ASSUME TypeOK, [Next]_vars, "nav" \notin Faults
  PROVE  /\ WatchesBusy("main") => WatchesBusy("main")' \/ nav' # "busy"
         /\ WatchesBusy("button") => WatchesBusy("button")' \/ nav' # "busy"
<1> USE Labels DEF WatchesBusy, Watching, OthersKeep, Hop, Back, Calmer, Halted
<1>1. CASE Press
  BY <1>1, PressMoves
<1>2. CASE ButtonOwn
  BY <1>2, ButtonMoves DEF HwPcs
<1>3. CASE MainOwn
  BY <1>3, MainMoves
<1>4. CASE RunSteps
  BY <1>4, RunMoves DEF RunPcs
<1>5. CASE TransSteps("main")
  BY <1>5, TransMoves
<1>6. CASE TransSteps("button")
  BY <1>6, TransMoves
<1>7. CASE GoSteps("main")
  BY <1>7, GoMoves
<1>8. CASE GoSteps("button")
  BY <1>8, GoMoves
<1>9. CASE ServerSteps \/ UNCHANGED vars
  BY <1>9, OtherMoves
<1> QED BY <1>1, <1>2, <1>3, <1>4, <1>5, <1>6, <1>7, <1>8, <1>9, StepCases

LEMMA QuietInIdle ==
  ASSUME "nav" \notin Faults
  PROVE  Runs /\ []NavAttended /\ []Idle => <>[](nav = "free")
<1> DEFINE B == nav = "busy"
           F == nav = "free"
           T == nav = "stopping"
           M == GoalAhead("main")
           N == GoalAhead("button")
           WM == WatchesBusy("main")
           WB == WatchesBusy("button")
           D == Departs(TransPending)
<1>1. TypeOK /\ Known /\ Idle /\ Idle' /\ ~D' /\ [Next]_vars =>
        /\ ~M => ~M'
        /\ ~N => ~N'
        /\ ~B /\ B' => (M /\ ~M') \/ (N /\ ~N')
        /\ F => F' \/ B'
        /\ WM => WM' \/ ~B'
        /\ WB => WB' \/ ~B'
  BY GoalsEnd, WatcherKeeps, NavSteps DEF Known
<1>2. TypeOK /\ Idle /\ [Next]_vars =>
        /\ WM /\ <<MainSteps>>_vars => ~B'
        /\ WB /\ <<ButtonSteps>>_vars => ~B'
  BY WatcherStops
<1>3. TypeOK => B \/ F \/ T
  BY DEF TypeOK, Servers
<1>4. NavAttended /\ B => WM \/ WB
  BY DEF NavAttended, WatchesBusy, Watching, Threads
<1>5. (WM /\ Idle => MainReady) /\ (WB /\ Idle => ButtonReady)
  BY DEF WatchesBusy, Watching, MainReady, ButtonReady, Idle
<1>6. <<NavHalts>>_vars => F'
  BY DEF NavHalts
<1>7. (F => ~B) /\ (T => ~B) /\ (nav = "stopping" <=> T) /\ (nav = "free" <=> F)
  OBVIOUS
<1> HIDE DEF B, F, T, M, N, WM, WB, D
<1> DEFINE Fair == Runs /\ []Idle /\ []NavAttended
<1>8. Fair => []~D
  BY NobodyDeparts, PTL DEF D
<1>9. Fair => (<>[]M \/ <>[]~M) /\ (<>[]N \/ <>[]~N)
  BY <1>1, <1>8, PTL DEF Runs
<1>10. Fair => (WM ~> ~B) /\ (WB ~> ~B)
  BY <1>1, <1>2, <1>5, <1>8, PTL DEF Runs, Unblocked
<1>11. Fair => []<>~B
  BY <1>3, <1>4, <1>10, PTL DEF Runs
<1>12. Fair => <>[]~B
  BY <1>1, <1>8, <1>9, <1>11, PTL DEF Runs
<1>13. Fair => <>[]F
  BY <1>1, <1>3, <1>6, <1>7, <1>8, <1>12, PTL DEF Runs, Unblocked
<1> QED BY <1>7, <1>13, PTL

\* Once the state stays Idle the planner comes to rest for good, whoever was
\* still on the way to send it a goal: for any buttons and rounds, and any
\* failures but those of the planner's own service.
THEOREM IdleIsQuietHolds ==
  ASSUME "nav" \notin Faults
  PROVE  FairSpec /\ Unblocked => IdleIsQuiet
<1>1. Spec => []NavAttended
  BY NavAttendedHolds
<1>2. name = "Idle" <=> Idle
  BY DEF Idle
<1> QED BY <1>1, <1>2, FairRuns, QuietInIdle, PTL DEF FairSpec, IdleIsQuiet, Runs, Unblocked
-----------------------------------------------------------------------------
\* IdleEndsTask.  In the state Idle the next operation of run() is one less: no
\* photo is taken again, and no motion is waited for.
LEMMA RunFalls ==
  ASSUME TypeInv, Idle, RunSteps
  PROVE  Rank("main")' < Rank("main")
<1> DEFINE base == 4 * (RunLen - op)
<1>1. RunLen \in Nat /\ op \in 1..RunLen /\ TypeOK
  BY RoundsAssumption DEF RunLen, Finish, TypeInv, TypeOK
<1>2. pc["main"] \in RunPcs /\ TransPcs \cap RunPcs = {}
      /\ \A l \in RunPcs : l # "loop" /\ l # "send_task" /\ LabelRank(l) \in 24..27
  BY RunMoves, <1>1, RunLabelRanks DEF RunPcs, TransPcs
<1>3. Rank("main") = LabelRank(pc["main"]) + base
  BY <1>2 DEF Rank
<1>4. ASSUME pc'["main"] \in RunPcs
      PROVE  Rank("main")' = LabelRank(pc'["main"]) + 4 * (RunLen - op')
  BY <1>2, <1>4 DEF Rank
<1>5. ASSUME pc'["main"] \in RunPcs, op' \in {op + 1, op + 2}
      PROVE  Rank("main")' < Rank("main")
  <2>1. LabelRank(pc["main"]) \in 24..27 /\ LabelRank(pc'["main"]) \in 24..27
    BY <1>2, <1>5
  <2>2. op' \in 1..RunLen
    BY NextKeepsType DEF Next, MainSteps, TypeInv, TypeOK
  <2> QED BY <1>1, <1>3, <1>4, <1>5, <2>1, <2>2
<1>6. ASSUME pc'["main"] \in RunPcs, op' = op, LabelRank(pc'["main"]) < LabelRank(pc["main"])
      PROVE  Rank("main")' < Rank("main")
  BY <1>1, <1>2, <1>3, <1>4, <1>6
<1>7. ASSUME pc'["main"] = "loop"
      PROVE  Rank("main")' < Rank("main")
  <2>1. Rank("main")' = 0
    BY <1>7, LabelRanks DEF Rank, RunPcs, TransPcs
  <2> QED BY <1>1, <1>2, <1>3, <2>1
<1>8. \/ pc'["main"] \in RunPcs /\ op' \in {op + 1, op + 2}
      \/ pc'["main"] \in RunPcs /\ op' = op /\ LabelRank(pc'["main"]) < LabelRank(pc["main"])
      \/ pc'["main"] = "loop"
  <2> USE <1>1, RunLabelRanks, Labels DEF TypeOK, ControlOK, At, AtOp, Goto, NextOp, RunReturns, RunPcs, Idle
  <2>1. CASE OpGrip
    BY <2>1 DEF OpGrip
  <2>2. CASE OpCheck \/ OpFeedback
    BY <2>2 DEF OpCheck, OpFeedback
  <2>3. CASE FeedbackSend \/ FeedbackPhoto \/ FeedbackCheck
    BY <2>3 DEF FeedbackSend, FeedbackPhoto, FeedbackCheck
  <2>4. CASE OpMove
    BY <2>4 DEF OpMove
  <2>5. CASE MoveCommand \/ MoveWait \/ MoveEnd
    BY <2>5 DEF MoveCommand, MoveWait, MoveEnd
  <2>6. CASE OpEnd
    BY <2>6 DEF OpEnd
  <2> QED BY <2>1, <2>2, <2>3, <2>4, <2>5, <2>6 DEF RunSteps
<1> QED BY <1>5, <1>6, <1>7, <1>8

LEMMA MainFalls ==
  ASSUME TypeInv, AfterOK, Idle, [Next]_vars
  PROVE  /\ MainSteps => Rank("main")' < Rank("main")
         /\ ~MainSteps => Rank("main")' = Rank("main")
<1>1. TypeOK /\ RunLen \in Nat /\ op \in 1..RunLen
  BY RoundsAssumption DEF RunLen, Finish, TypeInv, TypeOK
<1>2. CASE MainOwn
  BY <1>1, <1>2, MainMoves, LabelRanks, RunLabelRanks
     DEF Rank, Hop, Idle, AfterOK, TransPcs, RunPcs, MainSteps, MainOwn
<1>3. ASSUME ~MainSteps
      PROVE  Rank("main")' = Rank("main")
  <2>1. UNCHANGED op /\ pc'["main"] = pc["main"] /\ after'["main"] = after["main"]
    BY <1>1, <1>3, StepCases, PressMoves, ButtonMoves, TransMoves, GoMoves, OtherMoves, Labels
       DEF OthersKeep
  <2> QED BY <2>1 DEF Rank
<1> QED BY <1>1, <1>2, <1>3, RunFalls, CallFalls, StepCases, Labels

\* The planner keeps no thread waiting.
NavLetsGo == nav = "free" \/ "nav" \in Faults

TaskFalls(n) == (Rank("main") = n) ~> (Rank("main") < n)
AllTaskFall == \A n \in Nat \ {0} : TaskFalls(n)

LEMMA TaskGoesOn ==
  ASSUME NEW n \in Nat \ {0}
  PROVE  Runs /\ []Idle /\ []NavLetsGo => TaskFalls(n)
<1> DEFINE E == Rank("main") = n
           L == Rank("main") < n
<1>1. Known /\ Idle /\ [Next]_vars /\ E => (E \/ L)' /\ (MainSteps => L')
  BY MainFalls DEF Known
<1>2. TypeOK /\ E /\ Idle /\ NavLetsGo => MainReady
  BY RankTypes DEF MainReady, Idle, NavLetsGo
<1>3. (Rank("main") = n <=> E) /\ (Rank("main") < n <=> L)
  OBVIOUS
<1> HIDE DEF E, L
<1> QED BY <1>1, <1>2, <1>3, PTL DEF Runs, Unblocked, TaskFalls

\* The rule of descent for what is left of the task.
TaskDescends == [](AllTaskFall => <>(Rank("main") = 0))

\* Once the state stays Idle the task ends for good, wherever it was: for any
\* buttons, failing services and number of rounds.
THEOREM IdleEndsTaskHolds == FairSpec /\ Unblocked /\ TaskDescends => IdleEndsTask
<1> DEFINE Z == Rank("main") = 0
           L == At("main", "loop")
<1>1. Runs /\ []Idle /\ []NavLetsGo => AllTaskFall
  BY TaskGoesOn DEF AllTaskFall
<1>2. (name = "Idle" <=> Idle) /\ (nav = "free" => NavLetsGo) /\ (Rank("main") = 0 <=> Z)
  BY DEF Idle, NavLetsGo
<1>3. (TypeOK => (Z <=> L)) /\ (At("main", "loop") <=> L)
  BY RankTypes DEF At
<1>4. TypeOK /\ TypeOK' /\ Known /\ Idle /\ [Next]_vars => (Z => Z')
  BY MainFalls, RankTypesNext DEF Known
<1> HIDE DEF Z, L
<1>5. FairSpec /\ Unblocked /\ <>[]Idle => <>[]NavLetsGo
  <2>1. CASE "nav" \in Faults
    <3>1. NavLetsGo
      BY <2>1 DEF NavLetsGo
    <3> QED BY <3>1, PTL
  <2>2. CASE "nav" \notin Faults
    <3>1. FairSpec /\ Unblocked => IdleIsQuiet
      BY <2>2, IdleIsQuietHolds
    <3> QED BY <1>2, <3>1, PTL DEF IdleIsQuiet
  <2> QED BY <2>1, <2>2
<1>6. Runs /\ []Idle /\ []NavLetsGo /\ TaskDescends => <>[]L
  BY <1>1, <1>2, <1>3, <1>4, PTL DEF Runs, Unblocked, TaskDescends
<1> QED BY <1>2, <1>3, <1>5, <1>6, FairRuns, PTL DEF FairSpec, Spec, IdleEndsTask, Runs, Unblocked, TaskDescends
=============================================================================
