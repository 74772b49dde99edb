SPECIFICATION FairSpec
CONSTANTS
  RxRing = 4
  TxRing = 3
  LineSize = 3
  Hosts <- MCHosts
  MaxText = 8
  RxChars <- MCRxChars
  TxChars = {"ok", "error", "end", "hello"}
  None = None
  Burst = 1
INVARIANTS
  LineIsCleaned
  LinesAreWhole
  TransmitterRuns
PROPERTIES
  RxKeepsOrder
  TxIsQueue
  Answered
