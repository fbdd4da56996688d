SPECIFICATION MCSpec
CONSTANTS
  Configs <- SomeConfigs
  QueueSize = 1
  ProbeLimit = 2
  MaxParts = 2
  SequenceModulus = 8
  StampModulus = 8
  Threshold = 3
  Sizes = {1, 3}
  Gaps = {3}
  Lags = {0, 1}
  Spreads = {1}
  Jumps <- Forward
  Hints = {TRUE, FALSE}
  Sure = {TRUE}
  MaxPackets = 4
  MaxAudio = 1
  MaxRestarts = 1
  MaxOpens = 2
CHECK_DEADLOCK FALSE
INVARIANTS
  WholeUnits
  SenderTimeKept
  ReaderIsWoken
