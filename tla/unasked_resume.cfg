SPECIFICATION Spec
CONSTANTS
  Lines = {"G1", "M3"}
  Commands = {"FEED_HOLD", "CYCLE_START", "RESET"}
  Buttons = {"door"}
  QueueSize = 2
  SegmentSize = 1
PROPERTIES
  NoUnaskedResume
