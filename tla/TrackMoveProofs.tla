--------------------------- MODULE TrackMoveProofs ---------------------------
(***************************************************************************)
(* Proofs about the AR and the visual motion server, for any callers and   *)
(* any limits on the passes of the control loop.                           *)
(***************************************************************************)
EXTENDS TrackMove, TLAPS

USE BoundsAssumption

\* TypeOK with the tests that keep the counters of the control loop in range.
TypeInv ==
  /\ TypeOK
  /\ pc = "await" => tries < MaxTries
  /\ pc \in {"check", "look"} => good < MaxGood

LEMMA InitType == Init => TypeInv
<1> SUFFICES ASSUME Init PROVE TypeInv
  OBVIOUS
<1>1. zeros \in 0..2
  BY DEF Init
<1>2. tries \in 0..MaxTries /\ good \in 0..MaxGood /\ lost \in 0..MaxLost
  BY DEF Init
<1>3. spc \in [Clients -> CallPcs] /\ pc \in LoopPcs /\ pc = "start"
  BY DEF Init, LoopPcs, CallPcs
<1>4. velocity \in {"none", "zero", "move"} /\ crossed \in BOOLEAN
  BY DEF Init
<1> QED BY <1>1, <1>2, <1>3, <1>4 DEF Init, TypeInv, TypeOK

LEMMA CallsKeepType ==
  ASSUME TypeInv, NEW c \in Clients, Calls(c)
  PROVE  TypeInv'
<1> USE DEF TypeInv, TypeOK, States, CallPcs, Become, Goto, counts
<1>1. ASSUME NEW which \in {"ar", "visual"}, StopRequest(c, which) \/ StopAccept(c, which)
      PROVE  TypeInv'
  BY <1>1 DEF StopRequest, StopAccept
<1>2. CASE ArCommand(c) \/ ArAccept(c)
  BY <1>2 DEF ArCommand, ArAccept
<1>3. CASE VisualCommand(c) \/ GetTarget(c)
  BY <1>3 DEF VisualCommand, GetTarget
<1> QED BY <1>1, <1>2, <1>3 DEF Calls, Accept

LEMMA LoopKeepsType ==
  ASSUME TypeInv, Loop
  PROVE  TypeInv'
<1> USE ModesAssumption DEF TypeInv, TypeOK, States, LoopPcs, Become, counts
<1>1. CASE Start
  BY <1>1 DEF Start
<1>2. CASE Poll
  <2>1. zeros' \in 0..2 /\ tries' \in 0..MaxTries /\ (pc' = "await" => tries' < MaxTries)
    BY <1>2 DEF Poll
  <2>2. pc' \in {"await", "zero"}
    BY <1>2 DEF Poll
  <2>3. seen' \in BOOLEAN /\ flag' \in BOOLEAN
    BY <1>2, Zenon DEF Poll
  <2> QED BY <1>2, <2>1, <2>2, <2>3 DEF Poll
<1>3. CASE Await
  BY <1>3 DEF Await
<1>4. CASE Found
  BY <1>4 DEF Found
<1>5. CASE Check
  BY <1>5 DEF Check
<1>6. CASE Look
  BY <1>6 DEF Look
<1>7. CASE Drive
  BY <1>7 DEF Drive
<1>8. CASE Leave
  BY <1>8 DEF Leave
<1>9. CASE Zero
  BY <1>9 DEF Zero
<1>10. CASE Pause
  BY <1>10 DEF Pause
<1> QED BY <1>1, <1>2, <1>3, <1>4, <1>5, <1>6, <1>7, <1>8, <1>9, <1>10 DEF Loop

LEMMA NextKeepsType ==
  ASSUME TypeInv, [Next]_vars
  PROVE  TypeInv'
<1>1. CASE Feedback \/ UNCHANGED vars
  BY <1>1 DEF Feedback, vars, counts, TypeInv, TypeOK
<1> QED BY <1>1, LoopKeepsType, CallsKeepType DEF Next

\* Type correctness for any callers, programs and limits.
THEOREM TypeCorrect == Spec => []TypeOK
<1>1. TypeInv => TypeOK
  BY DEF TypeInv
<1> QED BY <1>1, InitType, NextKeepsType, PTL DEF Spec

-----------------------------------------------------------------------------
\* Why the counted zeros are enough: RUN sets the count to zero before the loop
\* can drive, so the first zero after a motion is always sent.
ZeroDue ==
  /\ pc \in {"start", "poll", "await", "found", "pause"} => velocity # "move"
  /\ pc \in {"await", "found", "check", "look", "drive", "leave"} => zeros = 0
  /\ pc = "zero" /\ velocity = "move" => zeros = 0

LEMMA LoopKeepsZeroDue ==
  ASSUME TypeOK, ZeroDue, Loop
  PROVE  ZeroDue'
<1> USE DEF ZeroDue, counts
<1>1. CASE Start \/ Poll
  BY <1>1 DEF Start, Poll
<1>2. CASE Await \/ Found
  BY <1>2 DEF Await, Found
<1>3. CASE Check \/ Look
  BY <1>3 DEF Check, Look
<1>4. CASE Drive \/ Leave
  BY <1>4 DEF Drive, Leave
<1>5. CASE Zero \/ Pause
  BY <1>5 DEF Zero, Pause
<1> QED BY <1>1, <1>2, <1>3, <1>4, <1>5 DEF Loop

\* No other step looks at the velocity or the count.
LEMMA OthersLeaveLoop ==
  ASSUME Feedback \/ (\E c \in Clients : Calls(c)) \/ UNCHANGED vars
  PROVE  UNCHANGED <<mode, velocity, pc, counts>>
<1>1. CASE Feedback \/ UNCHANGED vars
  BY <1>1 DEF Feedback, vars
<1>2. ASSUME NEW c \in Clients, Calls(c)
      PROVE  UNCHANGED <<mode, velocity, pc, counts>>
  BY <1>2 DEF Calls, Accept, StopRequest, StopAccept, ArCommand, ArAccept, VisualCommand, GetTarget
<1> QED BY <1>1, <1>2

\* The robot stands while the server waits for a command or for its target,
\* for any callers and limits, and whatever pub_count_zero began with.
THEOREM StandsUntilFoundHolds == Spec => []StandsUntilFound
<1>1. Init => ZeroDue
  BY DEF Init, ZeroDue
<1>2. TypeOK /\ ZeroDue /\ [Next]_vars => ZeroDue'
  <2> SUFFICES ASSUME TypeOK, ZeroDue, [Next]_vars PROVE ZeroDue'
    OBVIOUS
  <2>1. CASE Loop
    BY <2>1, LoopKeepsZeroDue
  <2>2. CASE ~Loop
    BY <2>2, OthersLeaveLoop DEF Next, ZeroDue, counts
  <2> QED BY <2>1, <2>2
<1>3. ZeroDue => StandsUntilFound
  BY DEF ZeroDue, StandsUntilFound
<1> QED BY <1>1, <1>2, <1>3, TypeCorrect, PTL DEF Spec

-----------------------------------------------------------------------------
\* DrivesBySight for one caller, from the start of the wait on: a command has
\* switched the reception of markers on, or is overtaken by the stop that
\* switched it off.
Tracking == {"await", "found", "check", "look", "drive"}
Sighted(c) ==
  (mode = "ar" /\ pc \in Tracking /\ ~crossed) =>
    /\ state["ar"] = "RUN" => flag \/ spc[c] = "stop_ar"
    /\ spc[c] = "run_ar" => flag

LEMMA CallsKeepSighted ==
  ASSUME TypeOK, NEW c \in Clients, Sighted(c), Calls(c)
  PROVE  Sighted(c)'
<1> USE DEF TypeOK, Sighted, Become, Goto
<1>1. CASE StopRequest(c, "ar") \/ StopRequest(c, "visual")
  BY <1>1 DEF StopRequest
<1>2. CASE StopAccept(c, "ar") \/ StopAccept(c, "visual")
  BY <1>2 DEF StopAccept
<1>3. CASE ArCommand(c) \/ ArAccept(c)
  BY <1>3 DEF ArCommand, ArAccept
<1>4. CASE VisualCommand(c) \/ GetTarget(c)
  BY <1>4 DEF VisualCommand, GetTarget
<1> QED BY <1>1, <1>2, <1>3, <1>4 DEF Calls, Accept

LEMMA LoopKeepsSighted ==
  ASSUME TypeOK, NEW c \in Clients, Sighted(c), Loop
  PROVE  Sighted(c)'
<1> USE DEF TypeOK, Sighted, Tracking, Become
<1>1. CASE Start \/ Poll
  BY <1>1 DEF Start, Poll
<1>2. CASE Await
  BY <1>2 DEF Await
<1>3. CASE Found
  BY <1>3 DEF Found
<1>4. CASE Check
  BY <1>4 DEF Check
<1>5. CASE Look
  BY <1>5 DEF Look
<1>6. CASE Drive \/ Leave
  BY <1>6 DEF Drive, Leave
<1>7. CASE Zero \/ Pause
  BY <1>7 DEF Zero, Pause
<1> QED BY <1>1, <1>2, <1>3, <1>4, <1>5, <1>6, <1>7 DEF Loop

\* With one caller, who never stops the other program, move() always drives on
\* markers that are being received.
THEOREM DrivesBySightHolds ==
  ASSUME NEW c, Clients = {c}
  PROVE  Spec => []DrivesBySight
<1>1. Init => Sighted(c)
  BY DEF Init, Sighted, Tracking
<1>2. TypeOK /\ Sighted(c) /\ [Next]_vars => Sighted(c)'
  <2> SUFFICES ASSUME TypeOK, Sighted(c), [Next]_vars PROVE Sighted(c)'
    OBVIOUS
  <2>1. CASE Feedback \/ UNCHANGED vars
    BY <2>1 DEF Feedback, vars, Sighted
  <2> QED BY <2>1, CallsKeepSighted, LoopKeepsSighted DEF Next
<1>3. Sighted(c) => DrivesBySight
  BY DEF Sighted, DrivesBySight, Tracking
<1> QED BY <1>1, <1>2, <1>3, TypeCorrect, PTL DEF Spec

-----------------------------------------------------------------------------
\* The robot is driving with the main thread at one of the labels.
Driving(labels) == velocity = "move" /\ pc \in labels
Standing == velocity # "move"

\* WAIT and OUT are not stored before the way out of the wait or of the control
\* loop, where the zero is due.
WayOut ==
  /\ pc \in {"await", "check", "look", "drive"} => state[mode] \in {"RUN", "INTE_STOP"}
  /\ pc = "found" => state[mode] \in {"RUN", "INTE_STOP", "OUT"}

LEMMA WayOutStep == TypeOK /\ WayOut /\ [Next]_vars => WayOut'
<1> SUFFICES ASSUME TypeOK, WayOut, [Next]_vars PROVE WayOut'
  OBVIOUS
<1> USE ModesAssumption DEF TypeOK, WayOut, Become
<1>1. CASE Start \/ Poll
  <2>1. pc' = "await" => state' = state /\ state[mode] = "RUN"
    BY <1>1 DEF Start, Poll
  <2>2. pc' \in {"poll", "await", "zero"} /\ mode' = mode
    BY <1>1 DEF Start, Poll
  <2> QED BY <2>1, <2>2
<1>2. CASE Await
  <2>1. pc = "await" /\ mode' = mode
    BY <1>2 DEF Await
  <2>2. \/ state' = state /\ pc' \in {pc, "found"}
        \/ state' = [state EXCEPT ![mode] = "OUT"] /\ pc' = "found"
    BY <1>2 DEF Await
  <2> QED BY <2>1, <2>2
<1>3. CASE Found
  BY <1>3 DEF Found
<1>4. CASE Check \/ Look \/ Drive
  BY <1>4 DEF Check, Look, Drive
<1>5. CASE Leave \/ Zero \/ Pause
  BY <1>5 DEF Leave, Zero, Pause
<1>6. ASSUME NEW c \in Clients, NEW which \in {"ar", "visual"},
             StopRequest(c, which) \/ StopAccept(c, which)
      PROVE  WayOut'
  BY <1>6 DEF StopRequest, StopAccept
<1>7. ASSUME NEW c \in Clients, ArCommand(c) \/ ArAccept(c) \/ VisualCommand(c) \/ GetTarget(c)
      PROVE  WayOut'
  BY <1>7 DEF ArCommand, ArAccept, VisualCommand, GetTarget
<1>8. CASE Feedback \/ UNCHANGED vars
  BY <1>8 DEF Feedback, vars
<1> QED BY <1>1, <1>2, <1>3, <1>4, <1>5, <1>6, <1>7, <1>8 DEF Next, Loop, Calls, Accept

\* What the liveness proofs below know of every state.
Known == TypeOK /\ ZeroDue /\ WayOut

LEMMA KnownHolds == Spec => []Known
<1>1. Init => ZeroDue /\ WayOut
  BY DEF Init, ZeroDue, WayOut
<1>2. TypeOK /\ ZeroDue /\ [Next]_vars => ZeroDue'
  <2> SUFFICES ASSUME TypeOK, ZeroDue, [Next]_vars PROVE ZeroDue'
    OBVIOUS
  <2>1. CASE Loop
    BY <2>1, LoopKeepsZeroDue
  <2>2. CASE ~Loop
    BY <2>2, OthersLeaveLoop DEF Next, ZeroDue, counts
  <2> QED BY <2>1, <2>2
<1> QED BY <1>1, <1>2, WayOutStep, TypeCorrect, PTL DEF Spec, Known

\* The way out of the control loop takes two steps, and the second sends the zero.
LEMMA WayOutSteps ==
  /\ Known /\ [Next]_vars =>
       /\ Driving({"leave"}) => (Driving({"leave", "zero"}) \/ Standing)'
       /\ Driving({"zero"}) => (Driving({"zero"}) \/ Standing)'
  /\ Known /\ <<Loop>>_vars =>
       /\ Driving({"leave"}) => (Driving({"zero"}) \/ Standing)'
       /\ Driving({"zero"}) => Standing'
<1> USE DEF Known, Driving, Standing
<1>1. ASSUME Known, Loop
      PROVE  /\ Driving({"leave"}) => (Driving({"zero"}) \/ Standing)'
             /\ Driving({"zero"}) => Standing'
  BY <1>1 DEF Loop, Start, Poll, Await, Found, Check, Look, Drive, Leave, Zero, Pause, ZeroDue
<1>2. ASSUME [Next]_vars, ~Loop
      PROVE  UNCHANGED <<velocity, pc>>
  BY <1>2, OthersLeaveLoop DEF Next
<1> QED BY <1>1, <1>2

LEMMA LeavingHalts ==
  [][Next]_vars /\ []Known /\ WF_vars(Loop) /\ []ENABLED <<Loop>>_vars
    => (Driving({"leave", "zero"}) ~> Standing)
<1> DEFINE L == Driving({"leave"})
           Z == Driving({"zero"})
<1>1. Known /\ [Next]_vars =>
        (L => (L \/ Z \/ Standing)') /\ (Z => (Z \/ Standing)')
  BY WayOutSteps DEF Driving
<1>2. Known /\ <<Loop>>_vars =>
        (L => (Z \/ Standing)') /\ (Z => Standing')
  BY WayOutSteps
<1>3. Driving({"leave", "zero"}) => L \/ Z
  BY DEF Driving
<1> HIDE DEF L, Z
<1>4. [][Next]_vars /\ []Known /\ WF_vars(Loop) /\ []ENABLED <<Loop>>_vars => (Z ~> Standing)
  BY <1>1, <1>2, PTL
<1>5. [][Next]_vars /\ []Known /\ WF_vars(Loop) /\ []ENABLED <<Loop>>_vars => (L ~> Z \/ Standing)
  BY <1>1, <1>2, PTL
<1> QED BY <1>3, <1>4, <1>5, PTL

\* A server that has given its motion up or ended it halts, for any callers and
\* limits, whatever commands and stops come in between.  That the main thread
\* can always step is left to TLC.
THEOREM FreeHaltsHolds == FairSpec /\ []ENABLED <<Loop>>_vars => FreeHalts
<1>1. Known /\ state[mode] \in {"WAIT", "OUT"} => Driving({"leave", "zero"}) \/ Standing
  BY DEF Known, TypeOK, LoopPcs, ZeroDue, WayOut, Driving, Standing
<1>2. velocity # "move" <=> Standing
  BY DEF Standing
<1> QED BY <1>1, <1>2, KnownHolds, LeavingHalts, PTL DEF FairSpec, Spec, FreeHalts

-----------------------------------------------------------------------------
\* StopHalts: until a new target is taken, no step of a service or a topic takes
\* the stop away, and the pass that had begun leads to the next test.
Stopped(labels) == mode = "ar" /\ state["ar"] = "INTE_STOP" /\ Driving(labels)
Taken == state["ar"] = "RUN"

LEMMA OthersKeepStopped ==
  ASSUME TypeOK, [Next]_vars, ~Loop, NEW labels, Stopped(labels)
  PROVE  (Stopped(labels) \/ Taken)'
<1>1. UNCHANGED <<mode, velocity, pc>>
  BY OthersLeaveLoop DEF Next
<1>2. state'["ar"] \in {"INTE_STOP", "RUN"}
  <2> USE DEF TypeOK, Stopped, Become
  <2>1. CASE Feedback \/ UNCHANGED vars
    BY <2>1 DEF Feedback, vars
  <2>2. ASSUME NEW c \in Clients, Calls(c)
        PROVE  state'["ar"] \in {"INTE_STOP", "RUN"}
    BY <2>2 DEF Calls, Accept, StopRequest, StopAccept, ArCommand, ArAccept, VisualCommand, GetTarget
  <2> QED BY <2>1, <2>2 DEF Next
<1> QED BY <1>1, <1>2 DEF Stopped, Taken, Driving

LEMMA LoopLeaves ==
  ASSUME Known, Loop
  PROVE  /\ Stopped({"look"}) => (Stopped({"drive", "check"}) \/ Driving({"leave"}))'
         /\ Stopped({"drive"}) => (Stopped({"check"}) \/ Driving({"leave"}))'
         /\ Stopped({"check"}) => Driving({"leave"})'
<1> USE DEF Known, TypeOK, Stopped, Driving, Become
<1>1. CASE Look
  BY <1>1 DEF Look
<1>2. CASE Drive
  BY <1>2 DEF Drive
<1>3. CASE Check
  BY <1>3 DEF Check
<1>4. CASE ~(Look \/ Drive \/ Check)
  BY <1>4 DEF Loop, Start, Poll, Await, Found, Leave, Zero, Pause
<1> QED BY <1>1, <1>2, <1>3, <1>4

\* A stop of the AR server halts the robot unless a new target is taken, for any
\* callers, stops and limits, wherever the control loop is.
THEOREM StopHaltsHolds == FairSpec /\ []ENABLED <<Loop>>_vars => StopHalts
<1> DEFINE L == Stopped({"look"})
           D == Stopped({"drive"})
           C == Stopped({"check"})
           W == Driving({"leave", "zero"})
           Goal == Standing \/ Taken
<1>1. Known /\ mode = "ar" /\ state["ar"] = "INTE_STOP" => L \/ D \/ C \/ W \/ Goal
  BY DEF Known, TypeOK, LoopPcs, ZeroDue, Stopped, Driving, Standing
<1>2. Known /\ [Next]_vars =>
        /\ L => (L \/ D \/ C \/ W \/ Goal)'
        /\ D => (D \/ C \/ W \/ Goal)'
        /\ C => (C \/ W \/ Goal)'
  <2> SUFFICES ASSUME Known, [Next]_vars
               PROVE  /\ L => (L \/ D \/ C \/ W \/ Goal)'
                      /\ D => (D \/ C \/ W \/ Goal)'
                      /\ C => (C \/ W \/ Goal)'
    OBVIOUS
  <2>1. CASE Loop
    BY <2>1, LoopLeaves DEF Stopped, Driving
  <2>2. CASE ~Loop
    BY <2>2, OthersKeepStopped DEF Known
  <2> QED BY <2>1, <2>2
<1>3. Known /\ <<Loop>>_vars =>
        /\ L => (D \/ C \/ W)'
        /\ D => (C \/ W)'
        /\ C => W'
  BY LoopLeaves DEF Stopped, Driving
<1>4. (velocity # "move" \/ state["ar"] = "RUN") <=> Goal
  BY DEF Standing, Taken
<1> HIDE DEF L, D, C, W, Goal
<1> DEFINE Fair == [][Next]_vars /\ []Known /\ WF_vars(Loop) /\ []ENABLED <<Loop>>_vars
<1>5. Fair => (C ~> W \/ Goal)
  BY <1>2, <1>3, PTL
<1>6. Fair => (D ~> C \/ W \/ Goal)
  BY <1>2, <1>3, PTL
<1>7. Fair => (L ~> D \/ C \/ W \/ Goal)
  BY <1>2, <1>3, PTL
<1>8. Fair => (W ~> Goal)
  <2>1. Standing => Goal
    BY DEF Goal
  <2> QED BY <2>1, LeavingHalts, PTL DEF W
<1> QED
  BY <1>1, <1>4, <1>5, <1>6, <1>7, <1>8, KnownHolds, PTL DEF FairSpec, Spec, StopHalts
-----------------------------------------------------------------------------
\* LostTargetHalts: without the target no pass drives, so what is left are the
\* passes that may still be lost before the robot stands.
Blind == ~seen /\ pc # "drive"
Left == IF Standing THEN 0 ELSE MaxLost - lost + 1

LEMMA LeftInNat == TypeOK => Left \in Nat /\ (Left = 0 <=> Standing)
  BY DEF TypeOK, Left

LEMMA BlindLoop ==
  ASSUME Known, ~seen, Loop
  PROVE  /\ pc' # "drive"
         /\ Standing /\ Blind => Standing'
         /\ Driving({"check"}) => Driving({"look", "leave"})' /\ Left' = Left
         /\ Driving({"look"}) => \/ Driving({"leave"})' /\ Left' = Left
                                 \/ Left' < Left
<1> USE DEF Known, TypeOK, Driving, Standing, Blind, Become
<1>1. CASE Look
  <2>1. /\ pc = "look" /\ pc' \in {"check", "leave"} /\ velocity' = velocity
        /\ \/ pc' = "leave" /\ lost' = lost
           \/ lost' = lost + 1
    BY <1>1 DEF Look
  <2> QED BY <2>1 DEF Left
<1>2. CASE Check
  <2>1. pc = "check" /\ pc' \in {"look", "leave"} /\ velocity' = velocity /\ lost' = lost
    BY <1>2 DEF Check, counts
  <2> QED BY <2>1 DEF Left
<1>3. CASE ~(Look \/ Check)
  BY <1>3 DEF Loop, Start, Poll, Await, Found, Drive, Leave, Zero, Pause
<1> QED BY <1>1, <1>2, <1>3

LEMMA BlindStep ==
  ASSUME Known, [Next]_vars, ~Loop
  PROVE  UNCHANGED <<velocity, pc>> /\ Left' = Left
<1>1. UNCHANGED <<velocity, pc, lost>>
  BY OthersLeaveLoop DEF Next, counts
<1> QED BY <1>1 DEF Left, Standing

Runs == [][Next]_vars /\ []Known /\ WF_vars(Loop) /\ []ENABLED <<Loop>>_vars

LEMMA Blinded ==
  Runs /\ []~seen => <>[]Blind
<1> DEFINE D == pc = "drive"
<1>1. Known /\ ~seen /\ [Next]_vars => (Blind => ~D')
  BY BlindLoop, BlindStep DEF Blind
<1>2. Known /\ ~seen /\ <<Loop>>_vars => ~D'
  BY BlindLoop
<1>3. Blind <=> ~seen /\ ~D
  BY DEF Blind
<1> HIDE DEF D
<1> QED BY <1>1, <1>2, <1>3, PTL DEF Runs

\* Either the robot stands or fewer lost passes are left, before long.
LeftFalls(n) == (Left = n) ~> (Left < n)
AllLeftFall == \A n \in Nat \ {0} : LeftFalls(n)

LEMMA PassesRunOut ==
  ASSUME NEW n \in Nat \ {0}
  PROVE  Runs /\ []Blind => LeftFalls(n)
<1> DEFINE C == Driving({"check"}) /\ Left = n
           L == Driving({"look"}) /\ Left = n
           W == Driving({"leave", "zero"})
           G == Left < n
           E == Left = n
<1>1. Known /\ Blind /\ E => C \/ L \/ W
  BY DEF Known, TypeOK, LoopPcs, ZeroDue, Blind, Left, Standing, Driving
<1>2. Known /\ Blind /\ [Next]_vars =>
        /\ C => (C \/ L \/ W)'
        /\ L => (L \/ W \/ G)'
  BY BlindLoop, BlindStep DEF Driving, Blind
<1>3. Known /\ Blind /\ <<Loop>>_vars =>
        /\ C => (L \/ W)'
        /\ L => (W \/ G)'
  BY BlindLoop DEF Driving, Blind
<1>4. Standing => G
  BY DEF Left
<1>5. (Left = n <=> E) /\ (Left < n <=> G)
  OBVIOUS
<1> DEFINE Fair == Runs /\ []Blind
<1>6. Fair => (W ~> G)
  BY <1>4, LeavingHalts, PTL DEF Runs
<1> HIDE DEF C, L, W, G, E
<1>7. Fair => (L ~> W \/ G)
  BY <1>2, <1>3, PTL DEF Runs
<1>8. Fair => (C ~> L \/ W)
  BY <1>2, <1>3, PTL DEF Runs
<1> QED BY <1>1, <1>5, <1>6, <1>7, <1>8, PTL DEF Runs, LeftFalls

\* The rule of descent for the passes that are left, from any moment on.
PassesDescend == [](AllLeftFall => <>(Left = 0))

\* A target that is out of sight for good brings the robot to a halt for good,
\* for any callers and limits, whatever commands and stops come in meanwhile.
THEOREM LostTargetHaltsHolds ==
  FairSpec /\ []ENABLED <<Loop>>_vars /\ PassesDescend => LostTargetHalts
<1>1. Runs /\ []Blind => AllLeftFall
  BY PassesRunOut DEF AllLeftFall
<1>2. Known /\ Blind /\ [Next]_vars => (Standing => Standing')
  BY BlindLoop, BlindStep DEF Blind, Standing
<1>3. Known => (Left = 0 <=> Standing)
  BY LeftInNat DEF Known
<1>4. velocity # "move" <=> Standing
  BY DEF Standing
<1>5. Runs /\ []Blind /\ PassesDescend => <>[]Standing
  BY <1>1, <1>2, <1>3, PTL DEF Runs, PassesDescend
<1> QED BY <1>4, <1>5, Blinded, KnownHolds, PTL DEF Runs, FairSpec, Spec, LostTargetHalts, PassesDescend
=============================================================================
