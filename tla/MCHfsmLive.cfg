CONSTANTS
  Buttons = {"next", "goback", "stop", "task"}
  Faults = {"move"}
  Rounds = 0
SPECIFICATION FairSpec
PROPERTIES ButtonServed IdleIsQuiet IdleEndsTask
