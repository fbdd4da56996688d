SPECIFICATION FairSpec
CONSTANTS
  Buffer = 1
  Quantum = 1
  Capacity = 2
  Lead = 1
  Early = 1
  Late = 1
  MaxLag = 0
  FrameTime = 3
  MaxJump = 4
  Chunks <- TwoChunks
  Stamps = {1}
  MaxTime = 3
  MaxPosition = 8
  MaxChunks = 1
  MaxPictures = 2
  MaxPauses = 0
CHECK_DEADLOCK FALSE
PROPERTIES
  PicturesGoOn
