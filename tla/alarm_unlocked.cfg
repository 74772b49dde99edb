SPECIFICATION Spec
CONSTANTS
  Lines = {"G1"}
  Commands = {"RESET"}
  Buttons = {}
  QueueSize = 2
  SegmentSize = 1
PROPERTIES
  AlarmLocked
