CONSTANTS
  Clients = {c1}
  Modes = {"ar", "visual"}
  MaxTries = 2
  MaxGood = 2
  MaxLost = 2
SPECIFICATION FairSpec
INVARIANTS TypeOK StandsUntilFound DrivesBySight
PROPERTIES LostTargetHalts StopHalts FreeHalts
