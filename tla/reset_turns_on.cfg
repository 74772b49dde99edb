SPECIFICATION Spec
CONSTANTS
  Lines = {"M3"}
  Commands = {"RESET"}
  Buttons = {}
  QueueSize = 2
  SegmentSize = 1
INVARIANTS
  ResetMeansOff
