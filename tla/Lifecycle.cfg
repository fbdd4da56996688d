SPECIFICATION FairSpec
CONSTANTS
  Callers = {a}
  a = a
  b = b
  Starters = {a}
  Order <- TwoSources
  Edges <- TwoSourcesEdges
  ExecutorOf <- PoolPerStage
  ThreadCount <- OneThread
  Priority <- Priorities
  MayFail = {cam, mic, enc, pub}
  Shared = {net}
  MaxStarts = 2
  cam = cam
  mic = mic
  enc = enc
  pub = pub
  io = io
  work = work
  net = net
CHECK_DEADLOCK FALSE
INVARIANTS
  PhasesAgree
PROPERTIES
  StopReturns
