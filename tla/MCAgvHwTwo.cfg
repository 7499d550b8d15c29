CONSTANTS
  Clients = {c1, c2}
  Modes = {"stop", "agv_zero", "grab_zero", "agv", "grab"}
  MaxTries = 2
SPECIFICATION MCSpec
INVARIANTS TypeOK
PROPERTIES StopLatches GripModeHaltsWheels CallsReturn
