SPECIFICATION Spec
CONSTANTS
  Lines = {"$J"}
  Commands = {"JOG_CANCEL"}
  Buttons = {}
  QueueSize = 2
  SegmentSize = 1
INVARIANTS
  CancelOnlyInMotion
