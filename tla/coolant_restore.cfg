SPECIFICATION Spec
CONSTANTS
  Lines = {"G1", "M7"}
  Commands = {"CYCLE_START"}
  Buttons = {"door"}
  QueueSize = 2
  SegmentSize = 1
PROPERTIES
  CoolantRestored
