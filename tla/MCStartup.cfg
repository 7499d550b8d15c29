CONSTANTS
  Clients = {"main", "button"}
  Modes = {"stop", "agv_zero", "grab_zero", "agv", "grab"}
  Buttons = {"stop", "unlock", "grab_reset", "grip"}
  Presses = 1
  MaxTries = 3
SPECIFICATION FairStartupSpec
INVARIANTS StartupTypeOK GripperReadyUnlessPressed HomingReadyUnlessPressed
PROPERTIES StartupCallsReturn
