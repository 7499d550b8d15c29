CONSTANTS
  Publishers = {"joy", "server"}
  QueueSize = 2
  Window = 2
  DriveModes = {"stop", "agv", "grab_zero"}
  AutoRepeat = FALSE
  MaxEvents = 3
  Used = {"odom", "imu"}
  Timeout = 1
  MaxTime = 3
  Lasers = {"scan_1", "scan_2"}
  Payload = 2
  MaxLen = 12
SPECIFICATION FairNodesSpec
INVARIANTS
  NodesTypeOK ReleasedMeansZero StrayAtMostOnce LastWordCounts
  IncrementsFromEstimate NeverTooEarly ResyncsSoon
PROPERTIES ComesToRest LastStatePublished MergeGoesOn StaysInStep
CHECK_DEADLOCK FALSE
