SPECIFICATION HoldSpec
CONSTANTS
  Lines <- PauseLines
  Commands = {"CYCLE_START", "RESET", "SAFETY_DOOR"}
  Buttons = {"hold"}
  QueueSize = 1
  SegmentSize = 1
PROPERTIES
  HoldCompletes
  ResetHonoured
