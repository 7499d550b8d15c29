CONSTANTS
  Clients = {"main", "button"}
  Modes = {"stop", "agv_zero", "grab_zero", "agv", "grab"}
  Buttons = {}
  Presses = 0
  MaxTries = 2
SPECIFICATION StartupSpec
INVARIANTS SteeringReadyHonest
