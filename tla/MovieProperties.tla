-------------------------- MODULE MovieProperties ---------------------------
(***************************************************************************)
(* What the movie engine promises.                                         *)
(***************************************************************************)
EXTENDS MovieEngine

(* Type invariant: every variable holds a value of its declared kind.      *)
TypeOK ==
  /\ movieMode \in {"INACTIVE", "RECORD", "PLAY", "FINISHED"}
  /\ movie_readonly \in BOOLEAN
  /\ currFrameCounter \in Nat
  /\ currMovieData \in Movie
  /\ currRerecordCount \in Nat
  /\ osRecordingMovie \in {"null", "open", "failed"}
  /\ curMovieFilename \in Names \cup {NoFile}
  /\ currCommand \subseteq Commands
  /\ movieRecordMode \in {"TRUNCATE", "OVERWRITE", "INSERT"}
  /\ closeFinishedMovie \in BOOLEAN
  /\ fullSaveStateLoads \in BOOLEAN
  /\ RAMInitSeed \in Seeds
  /\ machine \in Machine
  /\ disk \in [Names -> Movie \cup {Garbled, Absent}]
  /\ slot \in Savestate \cup {NoState}

(* The recording stream is open exactly while a movie is recorded, the     *)
(* assertion of FCEU_DrawMovies, RedumpWholeMovieFile and StopPlayback, as *)
(* long as no open of the movie file has failed; and even then a stream    *)
(* with a file behind it is held only while recording: no way out of a     *)
(* recording leaves the file open for the next one to write over.          *)
StreamMatchesMode ==
  osRecordingMovie # "failed" =>
    ((osRecordingMovie = "open") <=> (movieMode = "RECORD"))

(* A movie that is played, recorded or finished has a file.                *)
ActiveMovieHasFile == Active => curMovieFilename \in Names

(* The rerecord count shown and saved is the count of this session.        *)
RerecordCountKept == Active => currMovieData.rerecordCount = currRerecordCount

(* A movie that is read-only and not being recorded changes neither in     *)
(* memory nor on disk, unless this very step ends the read-only state (as  *)
(* ToggleRecording and SaveMovie do) or starts another playback: no frame, *)
(* edit, savestate or stop may write through it.                           *)
ReadOnlyKeepsMovie ==
  [][movie_readonly /\ movie_readonly' /\ Active /\ movieMode # "RECORD"
       => /\ disk' = disk
          /\ \/ currMovieData' = currMovieData
             \/ \E name \in Names, readonly \in BOOLEAN :
                  StartPlayback(name, disk[name], readonly)]_vars

(* While one movie stays active, input that has been executed already is   *)
(* replaced only by a step that the rerecord count counts, and recording   *)
(* starts again only by such a step.                                       *)
Replayed(md) == {i \in 1 .. currFrameCounter : i <= Len(md.records)}

RerecordsCounted ==
  [][/\ Active /\ Active' /\ currFrameCounter' # 0
     /\ currRerecordCount' = currRerecordCount
     => /\ \A i \in Replayed(currMovieData) :
             /\ i \in DOMAIN currMovieData'.records
             /\ currMovieData'.records[i] = currMovieData.records[i]
        /\ movieMode' = "RECORD" => movieMode = "RECORD"]_vars

-----------------------------------------------------------------------------
(* How the machine of a movie starts.                                      *)
StartOf(md) == [kind |-> md.kind, tag |-> StartTag(md)]

(* The machine m is the one that the movie md, replayed from its start up  *)
(* to a frame, produces; after the end of the movie only its own frames    *)
(* are compared.                                                           *)
Replays(m, md, frame) ==
  /\ m.boot = StartOf(md)
  /\ Len(m.hist) = frame
  /\ \A i \in 1 .. frame :
       i <= Len(md.records)
         => m.hist[i] =
              Executed(PlayedCommands(md.records[i]), md.records[i].in)

(* The machine is the one that the movie replays to at the current frame.  *)
(* While recording, the commands since the last frame are those that the   *)
(* next record will replay.                                                *)
InSync ==
  Active =>
    /\ Replays(machine, currMovieData, currFrameCounter)
    /\ currFrameCounter > Length => movieMode = "FINISHED"
    /\ machine.pend = IF movieMode = "RECORD"
                      THEN PlayedCommands([commands |-> currCommand])
                      ELSE <<>>

(* What other builds of the format are trusted with: a savestate whose     *)
(* movie can be read holds the machine that this movie replays to at the   *)
(* frame of the savestate.                                                 *)
FaithfulStates ==
  \A st \in ForeignStates :
    Readable(st) => /\ st.frame # NoFrame
                    /\ Replays(st.machine, st.movie, st.frame)
                    /\ st.machine.pend = <<>>

(* The steps after which the code cannot keep the machine and the movie    *)
(* together, each recognised by what it does.                              *)

(* A savestate without a readable movie chunk is applied to the machine.   *)
ForeignMachineLoaded ==
  \E st \in States : /\ ~Readable(st)
                     /\ machine' = st.machine
                     /\ UNCHANGED <<movieMode, currMovieData>>

(* In Read-Only mode, a savestate of a movie with another start is loaded. *)
OtherStartLoaded ==
  \E st \in States : /\ Readable(st)
                     /\ StartOf(st.movie) # StartOf(currMovieData)
                     /\ machine' = st.machine
                     /\ UNCHANGED currMovieData

(* Commands staged for the next record are not those the machine has       *)
(* executed: they outlive a load or the end of the recording, or were      *)
(* given in an order or number that one record cannot express.             *)
StagedCommandsStale ==
  /\ "RECORD" \in {movieMode, movieMode'}
  /\ currCommand' # {}
  /\ currCommand' = currCommand \/ Len(machine'.pend) > 1

(* A frame after the end of the playback, in the middle of the records.    *)
FinishedInsideMovie ==
  movieMode = "FINISHED" /\ currFrameCounter < Length

(* The power-on of PlayFromBeginning is not the start of the movie.        *)
OtherPowerOn ==
  /\ currFrameCounter' = 0 /\ movieMode' = "PLAY"
  /\ UNCHANGED currMovieData
  /\ \/ currMovieData.kind = "battery"
     \/ currMovieData.seed # RAMInitSeed

(* A recording from battery memory is powered on with another seed.        *)
ReseededAtStart ==
  /\ movieMode' = "RECORD" /\ currMovieData'.kind = "battery"
  /\ currFrameCounter' = 0
  /\ RAMInitSeed' # RAMInitSeed

(* The steps that are exempt from SyncSteps.                               *)
MayDrift ==
  \/ ForeignMachineLoaded
  \/ OtherStartLoaded
  \/ StagedCommandsStale
  \/ FinishedInsideMovie
  \/ OtherPowerOn
  \/ ReseededAtStart

(* Every other step keeps the machine and the movie together.              *)
SyncSteps == [][InSync => InSync' \/ MayDrift]_vars

-----------------------------------------------------------------------------
(* What comments and assertions of the source say of the program, and the  *)
(* program does not do.                                                    *)

(* A movie that is being recorded can be read back from its file: SaveMovie*)
(* has dumped the header and frames are only appended to it.               *)
RecordingReadable ==
  movieMode = "RECORD" => disk[curMovieFilename] # Garbled

=============================================================================
