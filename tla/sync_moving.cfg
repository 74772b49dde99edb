SPECIFICATION Spec
CONSTANTS
  Lines = {"G1", "M3"}
  Commands = {"FEED_HOLD"}
  Buttons = {}
  QueueSize = 2
  SegmentSize = 1
INVARIANTS
  SyncedMeansStopped
