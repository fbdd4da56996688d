SPECIFICATION FairSpec
CONSTANTS
  m1 = m1
  m2 = m2
  m3 = m3
  Producers = {p1}
  Workers = {w1, w2}
  Messages = {m1, m2, m3}
  Kind <- MediaKind
  Modes = {"Serialized", "Concurrent"}
  PreferVideo = TRUE
  Capacity = 1
  MaxPending = 2
  BatchSize = 1
  MaxLifecycles = 2
  MaxSent <- FewerAfterRestart
CHECK_DEADLOCK FALSE
INVARIANTS
  WorkIsSeen
  InTurn
PROPERTIES
  NothingStranded
