CONSTANTS
  Clients = {c1}
  Modes = {"visual"}
  MaxTries = 2
  MaxGood = 2
  MaxLost = 2
SPECIFICATION FairSpec
PROPERTIES VisualStopHalts
