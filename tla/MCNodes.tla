------------------------------ MODULE MCNodes ------------------------------
(* Instances for TLC of the nodes around the core: joystick driver and     *)
(* teleoperation, wheel controller, pose estimation, scan merging and IMU  *)
(* driver.  The modules share no variable, so the instance is their union  *)
(* and not their product: the first state says which of them moves.        *)
EXTENDS Teleop, Drive, JoyNode, PoseEkf, ScanMerger, ImuSerial

VARIABLE part  \* the node that moves

nodesVars == <<part, teleopVars, driveVars, joyVars, ekfVars, mergerVars, imuVars>>

Still(p, v) == part # p => UNCHANGED v

NodesTypeOK ==
  /\ TeleopTypeOK /\ DriveTypeOK /\ JoyTypeOK
  /\ EkfTypeOK /\ MergerTypeOK /\ ImuTypeOK

NodesInit ==
  /\ part \in {"teleop", "drive", "joy", "ekf", "merger", "imu"}
  /\ TeleopInit /\ DriveInit /\ JoyInit /\ EkfInit /\ MergerInit /\ ImuInit
  /\ part # "joy" => ~pad.button /\ ~pad.axis
  /\ part # "drive" => xyw_cmd = {}

NodesNext ==
  /\ UNCHANGED part
  /\ Still("teleop", teleopVars) /\ Still("drive", driveVars) /\ Still("joy", joyVars)
  /\ Still("ekf", ekfVars) /\ Still("merger", mergerVars) /\ Still("imu", imuVars)
  /\ \/ part = "teleop" /\ TeleopNext
     \/ part = "drive" /\ DriveNext
     \/ part = "joy" /\ JoyNext
     \/ part = "ekf" /\ EkfNext
     \/ part = "merger" /\ MergerNext
     \/ part = "imu" /\ ImuNext

\* The fairness of FairDriveSpec and FairJoySpec, each for its own part.
FairNodesSpec ==
  /\ NodesInit /\ [][NodesNext]_nodesVars
  /\ WF_driveVars(part = "drive" /\ Subscriber)
  /\ WF_driveVars(part = "drive" /\ MainLoop)
  /\ WF_joyVars(part = "joy" /\ Driver)
=============================================================================
