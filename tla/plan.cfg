SPECIFICATION FairSpec
CONSTANTS
  BlockBufferSize = 4
  StepLength = 4
  MinimumFeedRate = 2
  SegmentBufferSize = 3
  Grain = 2
  NoBlock = NoBlock
  Scenarios <- MCScenarios
  Axes = {x, y}
  Pulloff = 1
  LocateScalar = 2
  SearchTravel = 3
  SeekRate = 4
  LocateRate = 2
  HardStop = 1
INVARIANTS
  MotionType
  PlanIsOptimal
  StepsAreExact
  HomedAtSwitch
PROPERTIES
  SpeedIsContinuous
  StopsAtRest
  MotionEnds
