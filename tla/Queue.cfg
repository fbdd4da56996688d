SPECIFICATION MCSpec
CONSTANTS
  p1 = p1
  p2 = p2
  c1 = c1
  Producers = {p1, p2}
  Consumers = {c1}
  Controller = Controller
  NoThread = NoThread
  Messages <- AllMessages
  Generations = {1, 2}
  Policies = {"Block", "DropNewest", "DropOldest", "PreferVideoKeyframes"}
  MaxItems = 3
  MaxBytes = 4
  MaxSpan = 2
  HighPercent = 80
  LowPercent = 60
  MaxEpoch = 1
  MaxInterrupts = 1
INVARIANTS
  TypeOK
  NoLostWakeup
  BudgetRespected
  BacklogDescribed
PROPERTIES
  WaitersReleased
  RankRespected
  ImplementsMailbox
