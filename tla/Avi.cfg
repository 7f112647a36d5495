CONSTANTS
  FrameSizes = {1, 2}
  VideoSize = 3
  AudioSize = 3
  AudioChunkSize = 2
  StopTimesOut = TRUE
  MaxFrames = 3
SPECIFICATION Spec
INVARIANTS
  TypeOK
  NothingLost
  PicturesWhole
  Served
PROPERTY FrameEnds
