CONSTANTS
  Buttons = {"next", "stop"}
  Faults = {}
  Rounds = 1
SPECIFICATION Spec
PROPERTIES StopIsLatched
