CONSTANTS
  Inputs <- MCInputs
  Blank = "-"
  UserCommands <- MCCommands
  Seeds <- MCSeeds
  ZeroSeed = "s0"
  Guids <- MCGuids
  ZeroGuid = "g0"
  NewGuid = "new"
  Names <- MCNames
  ForeignMovies <- MCSyncMovies
  ForeignStates <- MCStates
  Garbled = Garbled
  Absent = Absent
  NoMovie = NoMovie
  NoFile = NoFile
  NoState = NoState
  RecordModes <- MCRecordModes
  Settings <- MCSettings
  MaxFrames = 3
  MaxLen = 2
  MaxRerecords = 2
  MaxPending = 2
  MaxSaveFrame <- MCNever
  OpenMayFail = FALSE
SPECIFICATION Spec
CONSTRAINT InSync
PROPERTY SyncSteps
