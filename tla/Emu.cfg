CONSTANT NoThread = NoThread
SPECIFICATION Spec
INVARIANTS
  TypeOK
  Exclusive
PROPERTIES
  ClosedBetweenFrames
  RequestEnds
CHECK_DEADLOCK FALSE
