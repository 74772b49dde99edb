SPECIFICATION Spec
CONSTANTS
  Lines <- LockedLines
  Commands = {"CYCLE_START", "FLOOD", "MIST", "RESET", "SAFETY_DOOR"}
  Buttons = {"door"}
  QueueSize = 1
  SegmentSize = 1
INVARIANTS
  SleepIsOff
PROPERTIES
  AlarmLocked
  CheckModeIsInert
