CONSTANTS
  Buttons = {"next", "goback", "stop", "unlock", "grab_reset", "grip", "task"}
  Faults = {"hw", "camera", "detector"}
  Rounds = 1
SPECIFICATION OverlapSpec
INVARIANTS
  TypeOK NavAttended DetectorFollowsUnlessOverlap MoveAttendedUnlessLeft
