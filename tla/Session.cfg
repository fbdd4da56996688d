SPECIFICATION Spec
CONSTANTS
  Workers = {w1, w2}
  Starters = {start}
  Stoppers = {stop}
  Modes <- ShortLives
  Capacity = 1
  MaxOpens = 2
  Stamps = {1, 2}
CHECK_DEADLOCK FALSE
INVARIANTS
  ConnectionTended
  Delivery
PROPERTIES
  NoDeadAir
