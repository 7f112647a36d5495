CONSTANTS
  Inputs <- MCInputs
  Blank = "-"
  UserCommands <- MCCommands
  Seeds <- MCSeeds
  ZeroSeed = "s0"
  Guids <- MCGuids
  ZeroGuid = "g0"
  NewGuid = "new"
  Names <- MCNames
  ForeignMovies <- MCMovies
  ForeignStates <- MCStates
  Garbled = Garbled
  Absent = Absent
  NoMovie = NoMovie
  NoFile = NoFile
  NoState = NoState
  RecordModes <- MCTruncateOnly
  Settings <- MCSettings
  MaxFrames = 2
  MaxLen = 2
  MaxRerecords = 1
  MaxPending = 0
  MaxSaveFrame = 0
  OpenMayFail = FALSE
SPECIFICATION Spec
INVARIANT RecordingReadable
