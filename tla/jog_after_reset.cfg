SPECIFICATION Spec
CONSTANTS
  Lines = {"G1 M0", "$J"}
  Commands = {"JOG_CANCEL", "RESET"}
  Buttons = {}
  QueueSize = 2
  SegmentSize = 1
INVARIANTS
  HoldCompleteMeansStopped
