CONSTANTS
  nes = nes
  gba = gba
  tape = tape
  now = now
  then = then
  newer = newer
  user = user
  NoBinding = NoBinding
  NoGame = NoGame
  NoFile = NoFile
  Damaged = Damaged
  NoUndo = NoUndo
  NoName = NoName
  MaxFiles = 2
  NoChunks = NoChunks
  Games <- MCGames
  GbaGames <- MCGba
  Bindings <- MCTape
  SlotCount = 2
  UserFiles <- MCNone
  Machines <- MCNow
  Chunks <- MCNone
  Given <- MCEmpty
  Outcomes <- MCFails
  Verdicts <- MCUnfit
  CutShort <- MCCut
  AutoResumePlay = TRUE
  GameGenie = FALSE
  Scripts = TRUE
SPECIFICATION Spec
CONSTRAINT MCFewFiles
INVARIANT TypeOK
PROPERTIES
  RowGoesStale
  NeverLosesSlot
