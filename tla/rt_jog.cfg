SPECIFICATION Spec
CONSTANTS
  Lines <- JogLines
  Commands = {"CYCLE_START", "FEED_HOLD", "JOG_CANCEL"}
  Buttons = {"door"}
  QueueSize = 2
  SegmentSize = 1
INVARIANTS
  HoldCompleteMeansStopped
  EndOfMotionSignalled
PROPERTIES
  NoUnaskedResume
