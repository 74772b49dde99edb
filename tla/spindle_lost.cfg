\* Not one of the project's runs: a feed hold in the pass that would resume the program
\* after the door leads to a resume without the spindle (README, "Divergences").
SPECIFICATION Spec
CONSTANTS
  Lines <- ProgramLines
  Commands = {"CYCLE_START", "FEED_HOLD"}
  Buttons = {"door"}
  QueueSize = 2
  SegmentSize = 1
PROPERTIES
  SpindleRestored
