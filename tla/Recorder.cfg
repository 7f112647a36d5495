CONSTANTS
  Configs <- MCSameSize
  Answers = {TRUE, FALSE}
  NextWhenEmpty = FALSE
  OutsideLoads = TRUE
  ReloadWindow = 2
  NoSnap = NoSnap
  MaxFrame = 5
SPECIFICATION Spec
INVARIANTS
  TypeOK
  SlotsSaved
PROPERTIES
  KeepsHistory
  Directions
  OrderedSteps
