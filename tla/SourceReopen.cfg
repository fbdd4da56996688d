SPECIFICATION Spec
CONSTANTS
  Limits <- TwoAttempts
  MaxLifecycles = 1
  MaxPackets = 2
  MaxFailures = 2
CHECK_DEADLOCK FALSE
INVARIANTS
  AttemptsUsedUp
