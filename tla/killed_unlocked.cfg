SPECIFICATION Spec
CONSTANTS
  Lines = {"G1", "$X"}
  Commands = {"RESET"}
  Buttons = {}
  QueueSize = 2
  SegmentSize = 1
INVARIANTS
  KilledMeansLocked
