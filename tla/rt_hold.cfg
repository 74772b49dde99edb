SPECIFICATION Spec
CONSTANTS
  Lines <- HoldLines
  Commands = {"CYCLE_START", "SPINDLE_STOP"}
  Buttons = {"hold", "reset"}
  QueueSize = 1
  SegmentSize = 1
INVARIANTS
  HoldCompleteMeansStopped
  EndOfMotionSignalled
  SoftLimitAborts
PROPERTIES
  NoUnaskedResume
  SpindleRestored
