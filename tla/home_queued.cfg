SPECIFICATION Spec
CONSTANTS
  MmPerInch = 2
  SoftLimits = TRUE
  MaxTravel <- MCMaxTravel
  HomingDirMask <- MCHomingDirMask
  Programs <- MCPrograms
  Resets = 1
  PowerFails = 1
  QueueSize = 1
  ArcPoints <- MCArcPoints
  WcoRefresh = 2
  HomeQueued = TRUE
CHECK_DEADLOCK FALSE
INVARIANTS
  BufferedPlanIsCorrect
