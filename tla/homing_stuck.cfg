SPECIFICATION Spec
CONSTANTS
  Lines = {"$HQ", "$X"}
  Commands = {}
  Buttons = {}
  QueueSize = 2
  SegmentSize = 1
INVARIANTS
  NotStuckHoming
