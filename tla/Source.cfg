SPECIFICATION FairSpec
CONSTANTS
  Limits <- AnyLimit
  MaxLifecycles = 2
  MaxPackets = 2
  MaxFailures = 2
CHECK_DEADLOCK FALSE
INVARIANTS
  MessagesTellTheirSource
PROPERTIES
  NothingAfterFinished
  StopReturns
