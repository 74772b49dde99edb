SPECIFICATION FairSpec
CONSTANTS
  Lines = {"G1"}
  Commands = {"RESET"}
  Buttons = {"door"}
  QueueSize = 1
  SegmentSize = 1
PROPERTIES
  ResetHonoured
