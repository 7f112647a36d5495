CONSTANTS
  SndSize = 4
  CallbackLen = 2
  FrameLen = 3
  Unit = 2
  Speeds <- MCSpeeds
  SampleIds = 5
  MaxIn = 6
SPECIFICATION Spec
INVARIANTS
  TypeOK
  CursorsAgree
PROPERTIES
  FirstInFirstOut
  OverrunOnlyWhenSlow
  WriteEnds
