CONSTANTS
  nes = nes
  gba = gba
  tape = tape
  now = now
  then = then
  newer = newer
  user = user
  NoBinding = NoBinding
  NoGame = NoGame
  NoFile = NoFile
  Damaged = Damaged
  NoUndo = NoUndo
  NoName = NoName
  MaxFiles = 9
  NoChunks = NoChunks
  Games <- MCGames
  GbaGames <- MCGba
  Bindings <- MCNone
  SlotCount = 2
  UserFiles <- MCNone
  Machines <- MCNow
  Chunks <- MCNone
  Given <- MCEmpty
  Outcomes <- MCWritten
  Verdicts <- MCTaken
  CutShort <- MCNone
  AutoResumePlay = FALSE
  GameGenie = FALSE
  Scripts = FALSE
SPECIFICATION Spec
INVARIANT UndoSinceOpen
