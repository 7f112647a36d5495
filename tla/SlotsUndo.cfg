CONSTANTS
  nes = nes
  gba = gba
  tape = tape
  now = now
  then = then
  newer = newer
  user = user
  NoBinding = NoBinding
  NoGame = NoGame
  NoFile = NoFile
  Damaged = Damaged
  NoUndo = NoUndo
  NoName = NoName
  MaxFiles = 9
  NoChunks = NoChunks
  Games <- MCOneGame
  GbaGames <- MCNone
  Bindings <- MCNone
  SlotCount = 2
  UserFiles <- MCNone
  Machines <- MCMachines
  Chunks <- MCNone
  Given <- MCEmpty
  Outcomes <- MCFails
  Verdicts <- MCTaken
  CutShort <- MCSaving
  AutoResumePlay = FALSE
  GameGenie = FALSE
  Scripts = FALSE
SPECIFICATION Spec
PROPERTIES
  KeepsUndo
  UndoRestores
SYMMETRY MCSymmetry
