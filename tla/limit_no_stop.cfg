SPECIFICATION Spec
CONSTANTS
  Lines = {"G1", "G1 far"}
  Commands = {"FEED_HOLD", "RESET"}
  Buttons = {}
  QueueSize = 2
  SegmentSize = 1
PROPERTIES
  SoftLimitStopsFirst
