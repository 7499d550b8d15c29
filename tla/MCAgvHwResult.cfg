CONSTANTS
  Clients = {c1}
  Modes = {"stop", "grab"}
  MaxTries = 2
SPECIFICATION Spec
INVARIANTS GrabResultHonest
