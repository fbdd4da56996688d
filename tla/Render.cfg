SPECIFICATION MCSpec
CONSTANTS
  Configs <- Previews
  MaxVideoQueue = 1
  MaxAudioQueue = 1
  MaxFrames = 2
  MaxStamp = 1
  MaxStarts = 2
  MaxPauses = 1
  Buffer = 1
  Quantum = 1
  Capacity = 2
  Lead = 2
  Early = 1
  Late = 1
  MaxLag = 0
  FrameTime = 1
  MaxJump = 4
  Chunks <- MCChunks
  Pictures = {1}
  MaxTime = 4
  MaxPosition = 8
  MaxChunks = 2
  MaxPictures = 2
CHECK_DEADLOCK FALSE
INVARIANTS
  FramesKept
  CallsGetOn
PROPERTIES
  MasterTellsTheSound
  PicturesFollowTheSound
