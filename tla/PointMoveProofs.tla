--------------------------- MODULE PointMoveProofs ---------------------------
(***************************************************************************)
(* Theorems about PointMove, for any set of clients, wherever the robot    *)
(* moves.                                                                  *)
(***************************************************************************)
EXTENDS PointMove, TLAPS

\* While the main thread is inside the RUN case the service threads can only
\* store RUN or INTE_STOP; once it has published zero, nothing drives until it
\* polls again.  This is what makes the late writes of COMPLATE and WAIT safe.
LoopOwnsVelocity ==
  /\ lpc \in {"lookup", "drive", "arrive", "done"}
       => state \in {"RUN", "INTE_STOP"}
  /\ lpc \in {"done", "settle"} => velocity # "move"
  /\ lpc = "brake" => state # "WAIT"

IndInv == TypeOK /\ StillWhenFree /\ LoopOwnsVelocity

\* Every variable keeps its type in every reachable state.
THEOREM TypeCorrect == Spec => []TypeOK
<1>1. Init => TypeOK
  BY DEF Init, TypeOK, States, LoopPcs
<1>2. TypeOK /\ [Next]_vars => TypeOK'
  <2> SUFFICES ASSUME TypeOK, [Next]_vars PROVE TypeOK'
    OBVIOUS
  <2> USE DEF TypeOK, States, LoopPcs
  <2>1. ASSUME NEW c \in Clients,
               StopRequest(c) \/ CommandRequest(c) \/ Query(c) \/ Serve(c)
        PROVE  TypeOK'
    BY <2>1 DEF StopRequest, CommandRequest, Query, Serve, StoreTarget,
                CommandLookupFails, AcceptCommand
  <2>2. CASE Poll
    BY <2>2 DEF Poll
  <2>3. CASE Track \/ TrackLookupFails
    BY <2>3 DEF Track, TrackLookupFails
  <2>4. CASE PublishDrive
    BY <2>4 DEF PublishDrive
  <2>5. CASE PublishArrived \/ Complete \/ PublishBrake \/ Settle
    BY <2>5 DEF PublishArrived, Complete, PublishBrake, Settle
  <2>6. CASE RobotMoves \/ UNCHANGED vars
    BY <2>6 DEF RobotMoves, vars
  <2> QED
    BY <2>1, <2>2, <2>3, <2>4, <2>5, <2>6 DEF Next, Loop
<1> QED
  BY <1>1, <1>2, PTL DEF Spec

\* The invariant that carries both safety theorems below is inductive.
LEMMA Inductive == Spec => []IndInv
<1>1. Init => IndInv
  BY DEF Init, IndInv, TypeOK, States, LoopPcs, StillWhenFree, LoopOwnsVelocity
<1>2. IndInv /\ TypeOK' /\ [Next]_vars => IndInv'
  <2> SUFFICES ASSUME IndInv, TypeOK', [Next]_vars PROVE IndInv'
    OBVIOUS
  <2> USE DEF IndInv, TypeOK, States, LoopPcs, StillWhenFree, LoopOwnsVelocity
  <2>1. ASSUME NEW c \in Clients,
               StopRequest(c) \/ CommandRequest(c) \/ Query(c) \/ Serve(c)
        PROVE  IndInv'
    BY <2>1 DEF StopRequest, CommandRequest, Query, Serve, StoreTarget,
                CommandLookupFails, AcceptCommand
  <2>2. CASE Poll
    BY <2>2 DEF Poll
  <2>3. CASE Track \/ TrackLookupFails
    BY <2>3 DEF Track, TrackLookupFails
  <2>4. CASE PublishDrive
    BY <2>4 DEF PublishDrive
  <2>5. CASE PublishArrived \/ PublishBrake
    BY <2>5 DEF PublishArrived, PublishBrake
  <2>6. CASE Complete \/ Settle
    BY <2>6 DEF Complete, Settle
  <2>7. CASE RobotMoves \/ UNCHANGED vars
    BY <2>7 DEF RobotMoves, vars
  <2> QED
    BY <2>1, <2>2, <2>3, <2>4, <2>5, <2>6, <2>7 DEF Next, Loop
<1> QED
  BY <1>1, <1>2, TypeCorrect, PTL DEF Spec

\* A server that answers "you may send me a command" has halted the robot.
THEOREM StillWhenFreeHolds == Spec => []StillWhenFree
  BY Inductive, PTL DEF IndInv

\* The two threads implement the contract of a motion server: a step that
\* frees it starts from a standstill, and only a busy server drives.
THEOREM ContractImplemented == Spec => ImplementsContract
<1>1. Init => Contract!Init
  BY DEF Init, Contract!Init
<1>2. IndInv /\ [Next]_vars => [Contract!Next]_(Contract!vars)
  <2> SUFFICES ASSUME IndInv, [Next]_vars
               PROVE  [Contract!Next]_(Contract!vars)
    OBVIOUS
  <2> USE DEF Contract!Next, Contract!vars
  <2>1. ASSUME NEW c \in Clients,
               StopRequest(c) \/ CommandRequest(c) \/ Query(c) \/ Serve(c)
        PROVE  Contract!Accept \/ UNCHANGED Contract!vars
    BY <2>1 DEF StopRequest, CommandRequest, Query, Serve, StoreTarget,
                CommandLookupFails, AcceptCommand, Contract!Accept
  <2>2. CASE Poll \/ Track
    BY <2>2 DEF Poll, Track
  <2>3. CASE TrackLookupFails \/ Complete
    BY <2>3 DEF TrackLookupFails, Complete, Contract!Accept
  <2>4. CASE PublishDrive
    BY <2>4 DEF PublishDrive, IndInv, LoopOwnsVelocity, Contract!Drive
  <2>5. CASE PublishArrived \/ PublishBrake
    BY <2>5 DEF PublishArrived, PublishBrake, Contract!Halt
  <2>6. CASE Settle
    BY <2>6 DEF Settle, IndInv, LoopOwnsVelocity, Contract!Release
  <2>7. CASE RobotMoves \/ UNCHANGED vars
    BY <2>7 DEF RobotMoves, vars
  <2> QED
    BY <2>1, <2>2, <2>3, <2>4, <2>5, <2>6, <2>7 DEF Next, Loop
<1> QED
  BY <1>1, <1>2, Inductive, PTL DEF Spec, ImplementsContract, Contract!Spec
-----------------------------------------------------------------------------
\* A client that commands on a true answer finds the control thread at rest:
\* a call in progress and an answer given mean WAIT, WAIT means the thread
\* polls, and an unfinished target keeps it in the RUN case.
Orderly ==
  /\ \A c \in Clients : ready[c] \/ spc[c] # "idle" => state = "WAIT"
  /\ \A c, d \in Clients : spc[c] # "idle" => ~ready[d] /\ (spc[d] # "idle" => c = d)
  /\ state = "WAIT" => lpc = "poll"
  /\ pending => state = "RUN" /\ lpc \in {"poll", "lookup", "drive"}

OrderlyUnlessRushed == rushed \/ Orderly

\* No accepted target is swallowed while the callers keep to the protocol of
\* the service: for any clients, wherever the robot moves.
THEOREM NoCommandLostHolds == Spec => []NoCommandLostUnlessRushed
<1>1. Init => OrderlyUnlessRushed
  BY DEF Init, OrderlyUnlessRushed, Orderly
<1>2. TypeOK /\ OrderlyUnlessRushed /\ [Next]_vars => OrderlyUnlessRushed'
  <2> SUFFICES ASSUME TypeOK, OrderlyUnlessRushed, [Next]_vars, ~rushed'
               PROVE  Orderly'
    BY DEF OrderlyUnlessRushed
  <2>0. ~rushed /\ Orderly
    BY DEF TypeOK, OrderlyUnlessRushed, Next, Loop, vars, StopRequest, CommandRequest, Query, Serve,
           StoreTarget, CommandLookupFails, AcceptCommand, Poll, Track, TrackLookupFails,
           PublishDrive, PublishArrived, Complete, PublishBrake, Settle, RobotMoves
  <2> USE <2>0 DEF Orderly, TypeOK
  <2>1. ASSUME NEW c \in Clients, StopRequest(c)
        PROVE  Orderly'
    BY <2>1 DEF StopRequest, Overlapping
  <2>2. ASSUME NEW c \in Clients, CommandRequest(c)
        PROVE  Orderly'
    BY <2>2 DEF CommandRequest, Overlapping
  <2>3. ASSUME NEW c \in Clients, Query(c)
        PROVE  Orderly'
    BY <2>3 DEF Query, Overlapping
  <2>4. ASSUME NEW c \in Clients, StoreTarget(c) \/ CommandLookupFails(c)
        PROVE  Orderly'
    BY <2>4 DEF StoreTarget, CommandLookupFails
  <2>5. ASSUME NEW c \in Clients, AcceptCommand(c)
        PROVE  Orderly'
    BY <2>5 DEF AcceptCommand
  <2>6. CASE Loop
    BY <2>6 DEF Loop, Poll, Track, TrackLookupFails, PublishDrive, PublishArrived, Complete,
                PublishBrake, Settle
  <2>7. CASE RobotMoves \/ UNCHANGED vars
    BY <2>7 DEF RobotMoves, vars
  <2> QED BY <2>1, <2>2, <2>3, <2>4, <2>5, <2>6, <2>7 DEF Next, Serve
<1>3. OrderlyUnlessRushed => NoCommandLostUnlessRushed
  BY DEF OrderlyUnlessRushed, Orderly, NoCommandLostUnlessRushed, NoCommandLost
<1> QED BY <1>1, <1>2, <1>3, TypeCorrect, PTL DEF Spec
-----------------------------------------------------------------------------
\* StopHalts, by the steps of the control thread that are left.  It is driving
\* after a stop at label ...
Stopping(at) == state = "INTE_STOP" /\ velocity = "move" /\ lpc \in at
Halted == velocity # "move" \/ state = "RUN"

\* Between two passes it waits for something to do; elsewhere, and after a
\* request, the main thread has a step to take.
Awake == lpc # "poll" \/ state \in {"RUN", "INTE_STOP", "COMPLATE", "OUT"}

\* Nobody but the control thread moves it on, and no request but a new target
\* takes the stop away while it drives.
LEMMA OthersKeepStopping ==
  ASSUME TypeOK, [Next]_vars, ~Loop, NEW at, Stopping(at)
  PROVE  Stopping(at)' \/ Halted'
<1> USE DEF Stopping, Halted
<1>1. ASSUME NEW c \in Clients,
             StopRequest(c) \/ CommandRequest(c) \/ Query(c) \/ Serve(c)
      PROVE  Stopping(at)' \/ Halted'
  BY <1>1 DEF StopRequest, CommandRequest, Query, Serve, StoreTarget,
              CommandLookupFails, AcceptCommand
<1>2. CASE RobotMoves \/ UNCHANGED vars
  BY <1>2 DEF RobotMoves, vars
<1> QED BY <1>1, <1>2 DEF Next

\* Its steps: a pass that began before the stop publishes at most one velocity
\* more, then the switch sees the stop and the zero goes out.
LEMMA LoopHalts ==
  ASSUME TypeOK, Loop
  PROVE  /\ Stopping({"lookup"}) => (Stopping({"drive", "poll", "arrive"}) \/ Halted)'
         /\ Stopping({"drive"}) => (Stopping({"poll"}) \/ Halted)'
         /\ Stopping({"poll"}) => (Stopping({"brake"}) \/ Halted)'
         /\ Stopping({"arrive", "brake"}) => Halted'
<1> USE DEF Stopping, Halted, TypeOK
<1>1. CASE Poll \/ Track \/ TrackLookupFails
  BY <1>1 DEF Poll, Track, TrackLookupFails
<1>2. CASE PublishDrive
  BY <1>2 DEF PublishDrive
<1>3. CASE PublishArrived \/ Complete \/ PublishBrake \/ Settle
  BY <1>3 DEF PublishArrived, Complete, PublishBrake, Settle
<1> QED BY <1>1, <1>2, <1>3 DEF Loop

\* A stop halts the robot unless a new target is taken, for any clients and
\* targets, wherever the control pass is: it takes four steps of the main thread
\* at most.  When the main thread can step is left to TLC.
THEOREM StopHaltsHolds ==
  FairSpec /\ [](Awake => ENABLED <<Loop>>_vars) => StopHalts
<1> DEFINE L == Stopping({"lookup"})
           D == Stopping({"drive"})
           P == Stopping({"poll"})
           Z == Stopping({"arrive", "brake"})
<1>1. IndInv /\ state = "INTE_STOP" => L \/ D \/ P \/ Z \/ Halted
  BY DEF IndInv, TypeOK, LoopPcs, LoopOwnsVelocity, Stopping, Halted
<1>2. (L => Awake) /\ (D => Awake) /\ (P => Awake) /\ (Z => Awake)
  BY DEF Stopping, Awake
<1>3. TypeOK /\ [Next]_vars =>
        /\ L => (L \/ D \/ P \/ Z \/ Halted)'
        /\ D => (D \/ P \/ Halted)'
        /\ P => (P \/ Z \/ Halted)'
        /\ Z => (Z \/ Halted)'
  <2> SUFFICES ASSUME TypeOK, [Next]_vars
               PROVE  /\ L => (L \/ D \/ P \/ Z \/ Halted)'
                      /\ D => (D \/ P \/ Halted)'
                      /\ P => (P \/ Z \/ Halted)'
                      /\ Z => (Z \/ Halted)'
    OBVIOUS
  <2>1. CASE Loop
    BY <2>1, LoopHalts DEF Stopping
  <2>2. CASE ~Loop
    BY <2>2, OthersKeepStopping
  <2> QED BY <2>1, <2>2
<1>4. TypeOK /\ <<Loop>>_vars =>
        /\ L => (D \/ P \/ Z \/ Halted)'
        /\ D => (P \/ Halted)'
        /\ P => (Z \/ Halted)'
        /\ Z => Halted'
  BY LoopHalts DEF Stopping
<1>5. (velocity # "move" \/ state = "RUN") <=> Halted
  BY DEF Halted
<1> HIDE DEF L, D, P, Z
<1>6. [](IndInv /\ TypeOK) /\ [][Next]_vars /\ WF_vars(Loop) /\ [](Awake => ENABLED <<Loop>>_vars)
        => (Z ~> Halted)
  BY <1>2, <1>3, <1>4, PTL
<1>7. [](IndInv /\ TypeOK) /\ [][Next]_vars /\ WF_vars(Loop) /\ [](Awake => ENABLED <<Loop>>_vars)
        => (P ~> Z \/ Halted)
  BY <1>2, <1>3, <1>4, PTL
<1>8. [](IndInv /\ TypeOK) /\ [][Next]_vars /\ WF_vars(Loop) /\ [](Awake => ENABLED <<Loop>>_vars)
        => (D ~> P \/ Halted)
  BY <1>2, <1>3, <1>4, PTL
<1>9. [](IndInv /\ TypeOK) /\ [][Next]_vars /\ WF_vars(Loop) /\ [](Awake => ENABLED <<Loop>>_vars)
        => (L ~> D \/ P \/ Z \/ Halted)
  BY <1>2, <1>3, <1>4, PTL
<1> QED
  BY <1>1, <1>5, <1>6, <1>7, <1>8, <1>9, TypeCorrect, Inductive, PTL DEF FairSpec, Spec, StopHalts
-----------------------------------------------------------------------------
\* ReachedEnds: at its target, with nothing asked for, the robot is not driven any
\* more and the pass under way, or the next, ends the motion.
Quiet == ~far /\ ~Overlapping
Driving == velocity = "move"

\* Only a server in RUN, or stopped a moment ago, drives.
DrivenInRun == IndInv /\ (velocity = "move" => state \in {"RUN", "INTE_STOP"})

LEMMA DrivenInRunHolds == Spec => []DrivenInRun
<1>1. Init => (velocity = "move" => state \in {"RUN", "INTE_STOP"})
  BY DEF Init
<1>2. IndInv /\ (velocity = "move" => state \in {"RUN", "INTE_STOP"}) /\ [Next]_vars
        => (velocity = "move" => state \in {"RUN", "INTE_STOP"})'
  <2> SUFFICES ASSUME IndInv, velocity = "move" => state \in {"RUN", "INTE_STOP"}, [Next]_vars
               PROVE  velocity' = "move" => state' \in {"RUN", "INTE_STOP"}
    OBVIOUS
  <2> USE DEF IndInv, TypeOK, LoopPcs, LoopOwnsVelocity
  <2>1. ASSUME NEW c \in Clients,
               StopRequest(c) \/ CommandRequest(c) \/ Query(c) \/ Serve(c)
        PROVE  velocity' = "move" => state' \in {"RUN", "INTE_STOP"}
    BY <2>1 DEF StopRequest, CommandRequest, Query, Serve, StoreTarget,
                CommandLookupFails, AcceptCommand
  <2>2. CASE Poll \/ Track \/ TrackLookupFails
    BY <2>2 DEF Poll, Track, TrackLookupFails
  <2>3. CASE PublishDrive \/ PublishArrived \/ PublishBrake
    BY <2>3 DEF PublishDrive, PublishArrived, PublishBrake
  <2>4. CASE Complete \/ Settle
    BY <2>4 DEF Complete, Settle
  <2>5. CASE RobotMoves \/ UNCHANGED vars
    BY <2>5 DEF RobotMoves, vars
  <2> QED BY <2>1, <2>2, <2>3, <2>4, <2>5 DEF Next, Loop
<1> DEFINE InRun == velocity = "move" => state \in {"RUN", "INTE_STOP"}
<1>3. DrivenInRun <=> IndInv /\ InRun
  BY DEF DrivenInRun
<1>4. (Init => InRun) /\ (IndInv /\ InRun /\ [Next]_vars => InRun')
  BY <1>1, <1>2
<1> HIDE DEF InRun
<1> QED BY <1>3, <1>4, Inductive, PTL DEF Spec

\* From now on.
Runs ==
  /\ [][Next]_vars /\ []DrivenInRun /\ WF_vars(Loop) /\ [](Awake => ENABLED <<Loop>>_vars)
  /\ []Quiet

\* Nobody but the control thread moves it on or stores RUN.
LEMMA OthersWhileQuiet ==
  ASSUME TypeOK, Quiet, Quiet', [Next]_vars, ~Loop
  PROVE  /\ UNCHANGED <<lpc, velocity>>
         /\ state # "RUN" => state' # "RUN"
<1>1. ASSUME NEW c \in Clients,
             StopRequest(c) \/ CommandRequest(c) \/ Query(c) \/ Serve(c)
      PROVE  UNCHANGED <<lpc, velocity>> /\ (state # "RUN" => state' # "RUN")
  <2>1. spc[c] = "idle"
    BY DEF Quiet, Overlapping
  <2> QED BY <1>1, <2>1 DEF StopRequest, CommandRequest, Query, Serve, StoreTarget,
                          CommandLookupFails, AcceptCommand
<1>2. CASE RobotMoves \/ UNCHANGED vars
  BY <1>2 DEF RobotMoves, vars
<1> QED BY <1>1, <1>2 DEF Next

LEMMA LoopWhileQuiet ==
  ASSUME TypeOK, Quiet, Loop
  PROVE  /\ lpc' # "drive" /\ (lpc # "drive" /\ ~Driving => ~Driving')
         /\ state # "RUN" => state' # "RUN"
         /\ state = "RUN" /\ state' = "RUN" =>
              \/ lpc = "poll" /\ lpc' = "lookup"
              \/ lpc = "lookup" /\ lpc' = "arrive"
              \/ lpc = "drive" /\ lpc' = "poll"
              \/ lpc = "arrive" /\ lpc' = "done"
              \/ lpc = "brake" /\ lpc' = "settle"
<1> USE DEF TypeOK, Quiet, Driving
<1>1. CASE Poll \/ PublishArrived \/ PublishBrake
  BY <1>1 DEF Poll, PublishArrived, PublishBrake
<1>2. CASE Track \/ PublishDrive
  BY <1>2 DEF Track, PublishDrive
<1>3. CASE TrackLookupFails \/ Complete \/ Settle
  BY <1>3 DEF TrackLookupFails, Complete, Settle
<1> QED BY <1>1, <1>2, <1>3 DEF Loop

\* The pass that drives is the last one that does.
LEMMA DrivesNoMore == Runs => <>[](lpc # "drive")
<1> DEFINE D == lpc = "drive"
<1>1. DrivenInRun => TypeOK
  BY DEF DrivenInRun, IndInv
<1>2. TypeOK /\ Quiet /\ Quiet' /\ [Next]_vars => (~D => ~D')
  BY OthersWhileQuiet, LoopWhileQuiet
<1>3. TypeOK /\ Quiet /\ Quiet' /\ <<Loop>>_vars => ~D'
  BY LoopWhileQuiet
<1>4. D => Awake
  BY DEF Awake
<1>5. lpc # "drive" <=> ~D
  OBVIOUS
<1> HIDE DEF D
<1> QED BY <1>1, <1>2, <1>3, <1>4, <1>5, PTL DEF Runs

\* From RUN the next steps of the pass lead to the state that is written.
LEMMA RunEnds == Runs => <>[](state # "RUN")
<1> DEFINE R == state = "RUN"
           A == R /\ lpc = "drive"
           B == R /\ lpc = "poll"
           C == R /\ lpc = "lookup"
           E == R /\ lpc \in {"arrive", "brake"}
           F == R /\ lpc \in {"done", "settle"}
<1>1. DrivenInRun => TypeOK
  BY DEF DrivenInRun, IndInv
<1>2. TypeOK /\ Quiet /\ Quiet' /\ [Next]_vars =>
        /\ ~R => ~R'
        /\ A => (~R \/ A \/ B)'
        /\ B => (~R \/ B \/ C)'
        /\ C => (~R \/ C \/ E)'
        /\ E => (~R \/ E \/ F)'
        /\ F => (~R \/ F)'
  BY OthersWhileQuiet, LoopWhileQuiet
<1>3. TypeOK /\ Quiet /\ Quiet' /\ <<Loop>>_vars =>
        /\ A => (~R \/ B)'
        /\ B => (~R \/ C)'
        /\ C => (~R \/ E)'
        /\ E => (~R \/ F)'
        /\ F => ~R'
  BY LoopWhileQuiet
<1>4. (A => Awake) /\ (B => Awake) /\ (C => Awake) /\ (E => Awake) /\ (F => Awake)
  BY DEF Awake
<1>5. TypeOK => ~R \/ A \/ B \/ C \/ E \/ F
  BY DEF TypeOK, LoopPcs
<1>6. state # "RUN" <=> ~R
  OBVIOUS
<1> HIDE DEF R, A, B, C, E, F
<1>7. Runs => (F ~> ~R)
  BY <1>1, <1>2, <1>3, <1>4, PTL DEF Runs
<1>8. Runs => (E ~> ~R \/ F)
  BY <1>1, <1>2, <1>3, <1>4, PTL DEF Runs
<1>9. Runs => (C ~> ~R \/ E)
  BY <1>1, <1>2, <1>3, <1>4, PTL DEF Runs
<1>10. Runs => (B ~> ~R \/ C)
  BY <1>1, <1>2, <1>3, <1>4, PTL DEF Runs
<1>11. Runs => (A ~> ~R \/ B)
  BY <1>1, <1>2, <1>3, <1>4, PTL DEF Runs
<1>12. Runs => <>~R
  BY <1>1, <1>5, <1>7, <1>8, <1>9, <1>10, <1>11, PTL DEF Runs
<1> QED BY <1>1, <1>2, <1>6, <1>12, PTL DEF Runs

\* A robot at its target, with no more targets on their way, ends its motion for
\* good and stands: for any clients, whatever stops and queries they send.  What is
\* needed is that the main thread goes on, and nothing about how the robot moves.
THEOREM ReachedEndsHolds ==
  FairSpec /\ [](Awake => ENABLED <<Loop>>_vars) => ReachedEnds
<1> DEFINE Run == state = "RUN"
           Stopped == state = "INTE_STOP"
           Late == lpc = "drive"
           Ended == state # "RUN" /\ velocity # "move"
<1>1. /\ DrivenInRun => TypeOK
      /\ DrivenInRun /\ Driving => Run \/ Stopped
  BY DEF DrivenInRun, IndInv, Driving
<1>2. TypeOK /\ Quiet /\ Quiet' /\ [Next]_vars => (~Late /\ ~Driving => ~Driving')
  BY OthersWhileQuiet, LoopWhileQuiet DEF Driving
<1>3. (Ended <=> ~Run /\ ~Driving) /\ (state = "INTE_STOP" <=> Stopped)
      /\ ((velocity # "move" \/ state = "RUN") <=> ~Driving \/ Run)
      /\ (state # "RUN" <=> ~Run) /\ (lpc # "drive" <=> ~Late)
      /\ (~far /\ ~Overlapping <=> Quiet)
      /\ (state # "RUN" /\ velocity # "move" <=> Ended)
  BY DEF Driving, Quiet
<1> HIDE DEF Run, Stopped, Late, Ended
<1>4. Runs /\ StopHalts => <>[]Ended
  BY <1>1, <1>2, <1>3, DrivesNoMore, RunEnds, PTL DEF Runs, StopHalts
<1> QED
  BY <1>3, <1>4, DrivenInRunHolds, StopHaltsHolds, PTL DEF Runs, FairSpec, Spec, StopHalts,
                                                           ReachedEnds
=============================================================================
