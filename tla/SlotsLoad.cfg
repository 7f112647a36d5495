CONSTANTS
  nes = nes
  gba = gba
  tape = tape
  now = now
  then = then
  newer = newer
  user = user
  NoBinding = NoBinding
  NoGame = NoGame
  NoFile = NoFile
  Damaged = Damaged
  NoUndo = NoUndo
  NoName = NoName
  MaxFiles = 2
  NoChunks = NoChunks
  Games <- MCOneGame
  GbaGames <- MCNone
  Bindings <- MCNone
  SlotCount = 2
  UserFiles <- MCUser
  Machines <- MCMachines
  Chunks <- MCNewer
  Given <- MCGiven
  Outcomes <- MCWritten
  Verdicts <- MCAnyVerdict
  CutShort <- MCNone
  AutoResumePlay = FALSE
  GameGenie = TRUE
  Scripts = FALSE
SPECIFICATION Spec
CONSTRAINT MCFewFiles
SYMMETRY MCSymmetry
PROPERTIES
  PlaceKept
  ChunksFollow
