SPECIFICATION FairSpec
CONSTANTS
  Lines = {"G1", "G1 M0"}
  Commands = {}
  Buttons = {}
  QueueSize = 1
  SegmentSize = 2
PROPERTIES
  SyncEnds
