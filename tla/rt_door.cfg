SPECIFICATION Spec
CONSTANTS
  Lines <- ProgramLines
  Commands = {"CYCLE_START", "SPINDLE_SPEED"}
  Buttons = {"door"}
  QueueSize = 2
  SegmentSize = 1
INVARIANTS
  TypeOK
  HoldCompleteMeansStopped
  ParkedIsOff
  RestoreNeedsClosedDoor
  EndOfMotionSignalled
  DoorHonoured
PROPERTIES
  NoSpindleAtOpenDoor
  NoUnaskedResume
  SpindleRestored
