SPECIFICATION MCSpec
CONSTANTS
  Streams = {0, 1}
  Selection <- FirstSeen
  Configured = {"none"}
  Capacity = 1
  MaxPackets = 3
  MaxGenerations = 2
  MaxFailures = 1
CHECK_DEADLOCK FALSE
INVARIANTS
  OutputInOrderAndWhole
  PixelsInPlace
  SamplesKept
  TimesKept
PROPERTIES
  KeyframeThenRun
  EndArrives
