SPECIFICATION Spec
CONSTANTS
  MmPerInch = 2
  SoftLimits = TRUE
  MaxTravel <- MCMaxTravel
  HomingDirMask <- MCHomingDirMask
  Programs <- MCPrograms
  Resets = 1
  PowerFails = 1
  QueueSize = 1
  ArcPoints <- MCArcPoints
  WcoRefresh = 2
  HomeQueued = FALSE
CHECK_DEADLOCK FALSE
INVARIANTS
  PositionIsKnown
  OffsetIsStored
  HostKnowsOffset
  ProgrammedIsWorkPosition
  StaysInTravel
