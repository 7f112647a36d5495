CONSTANT NoThread = NoThread
SPECIFICATION Spec
PROPERTY CloseEnds
CHECK_DEADLOCK FALSE
