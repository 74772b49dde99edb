SPECIFICATION Spec
CONSTANTS
  Lines = {"G1"}
  Commands = {"CYCLE_START", "FEED_HOLD", "SAFETY_DOOR"}
  Buttons = {"door"}
  QueueSize = 2
  SegmentSize = 1
INVARIANTS
  DoorHonoured
