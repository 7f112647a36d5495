---------------------------- MODULE MovieEngine ----------------------------
(***************************************************************************)
(* The movie engine: recording, playback and editing of an input movie,    *)
(* and the savestate plug-in that lets a savestate carry a movie.  Sources *)
(* are movie.cpp, movie_io.cpp, movie_record.cpp, movie_playback.cpp,      *)
(* movie_settings.cpp, movie_fm2.cpp and the loader of state.cpp.          *)
(*                                                                         *)
(* The emulated machine is represented by what determines it: how it was   *)
(* started (boot), the frames it has executed since (hist) and the         *)
(* commands executed since the last frame (pend).  Two machines with equal *)
(* representations are equal machines.  What a machine does is not tracked *)
(* while no movie is active: it is then FreeMachine.                       *)
(*                                                                         *)
(* backupSavestates is true and assigned nowhere, and the message box      *)
(* callback of the Qt driver answers 0, so the branches that need another  *)
(* value (a load refused on a guid mismatch, StopMovie inside a load) are  *)
(* not reachable and have no action.  The TASEDITOR mode belongs to the    *)
(* TAS Editor and is not part of this module.                              *)
(***************************************************************************)
EXTENDS Integers, Sequences, FiniteSets

CONSTANTS
  Inputs,         \* what the controllers may hold during a frame
  Blank,          \* the input of a default MovieRecord
  UserCommands,   \* commands the user gives
  Seeds,          \* values of RAMInitSeed
  ZeroSeed,       \* RAMInitSeed of a default MovieData
  Guids,          \* movie identities
  ZeroGuid,       \* identity of a default MovieData
  NewGuid,        \* identity of a movie started by SaveMovie
  Names,          \* movie file names
  ForeignMovies,  \* movie files written by other builds of the format
  ForeignStates,  \* savestates written by other builds of the format
  Garbled,        \* what LoadFM2 rejects, in a file or in a movie chunk
  Absent,         \* the content of a missing file
  NoMovie,        \* in place of the movie chunk a savestate does not have
  NoFile,         \* the empty curMovieFilename
  NoState,        \* the savestate slot before the first save
  RecordModes,    \* the record modes the user selects
  Settings,       \* the movie options the user selects
  MaxFrames,      \* bound on currFrameCounter
  MaxLen,         \* bound on the length of a movie
  MaxRerecords,   \* bound on the rerecord count
  MaxPending,     \* bound on the commands given between two frames
  MaxSaveFrame,   \* bound on the frame the slot is saved at, -1 for none
  OpenMayFail     \* whether opening the movie file for writing may fail

Commands == {"power", "reset", "fds_insert", "fds_select", "vs_insertcoin",
             "vs_insertcoin2", "vs_service"}

Record == [commands : SUBSET Commands, in : Inputs]
Step == [cmds : Seq(Commands), in : Inputs]

(* How a movie starts: at a power-on, at a power-on with the battery       *)
(* memory it embeds, or at the savestate it embeds.  What an unfit movie   *)
(* embeds does not fit the game.                                           *)
Kinds == {"clean", "battery", "state"}
Boot == [kind : Kinds \cup {"free"}, tag : Seeds \cup Guids]
Machine == [boot : Boot, hist : Seq(Step), pend : Seq(Commands)]
Movie == [kind : Kinds \cup {"unfit"}, seed : Seeds, guid : Guids, records : Seq(Record),
          rerecordCount : Nat, tasProject : BOOLEAN]

NoFrame == -1             \* a savestate without the entries FRAM and FCNT

Savestate == [machine : Machine, frame : Nat \cup {NoFrame},
              movie : Movie \cup {Garbled, NoMovie}, legacy : BOOLEAN]

ASSUME EngineAssumption ==
  /\ Blank \in Inputs
  /\ UserCommands \subseteq Commands
  /\ ZeroSeed \in Seeds
  /\ {ZeroGuid, NewGuid} \subseteq Guids
  /\ ForeignMovies \subseteq Movie
  /\ ForeignStates \subseteq Savestate
  /\ Garbled \notin Movie /\ Absent \notin Movie \cup {Garbled}
  /\ NoMovie \notin Movie \cup {Garbled}
  /\ NoFile \notin Names
  /\ NoState \notin Savestate
  /\ "TRUNCATE" \in RecordModes
  /\ RecordModes \subseteq {"TRUNCATE", "OVERWRITE", "INSERT"}
  /\ Settings \subseteq [close : BOOLEAN, full : BOOLEAN]
  /\ MaxFrames \in Nat /\ MaxLen \in Nat
  /\ MaxRerecords \in Nat /\ MaxPending \in Nat /\ MaxSaveFrame \in Nat \cup {-1}
  /\ OpenMayFail \in BOOLEAN

VARIABLES
  movieMode, movie_readonly, currFrameCounter, currMovieData,
  currRerecordCount,
  osRecordingMovie,     \* "null", "open", or "failed": a stream without file
  curMovieFilename,
  currCommand,          \* _currCommand, the commands staged for the next frame
  movieRecordMode,
  closeFinishedMovie, fullSaveStateLoads,
  RAMInitSeed,
  machine,              \* the emulated machine
  disk,                 \* the movie files
  slot                  \* a savestate made by this build

movieVars == <<movieMode, movie_readonly, currFrameCounter, currMovieData,
               currRerecordCount>>
fileVars == <<osRecordingMovie, curMovieFilename, disk>>
optionVars == <<movieRecordMode, closeFinishedMovie, fullSaveStateLoads>>
vars == <<movieVars, fileVars, optionVars, currCommand, RAMInitSeed, machine,
          slot>>

Active == movieMode \in {"PLAY", "RECORD", "FINISHED"}
Length == Len(currMovieData.records)

-----------------------------------------------------------------------------
(* The machine.                                                            *)

Started(kind, tag) ==
  [boot |-> [kind |-> kind, tag |-> tag], hist |-> <<>>, pend |-> <<>>]

FreeMachine == Started("free", ZeroSeed)

(* The next machine m, if a movie is active then.                          *)
Tracked(m) == IF movieMode' = "INACTIVE" THEN FreeMachine ELSE m

(* The frame the machine executes when it has been given cmds and input.   *)
Executed(cmds, input) == [cmds |-> cmds, in |-> input]

RunFrame(m, cmds, input) ==
  [boot |-> m.boot,
   hist |-> Append(m.hist, Executed(m.pend \o cmds, input)),
   pend |-> <<>>]

(* Playback executes the commands of a record in a fixed order, once each. *)
Given(r, c) == IF c \in r.commands THEN <<c>> ELSE <<>>

PlayedCommands(r) ==
  Given(r, "power") \o Given(r, "reset")
    \o Given(r, "fds_insert") \o Given(r, "fds_select")
    \o Given(r, "vs_insertcoin") \o Given(r, "vs_insertcoin2")
    \o Given(r, "vs_service")

(* The tag that identifies the initial machine of a movie: its RAM seed,   *)
(* or the movie itself when it embeds a savestate.                         *)
StartTag(md) == IF md.kind = "state" THEN md.guid ELSE md.seed

-----------------------------------------------------------------------------
(* Movie data.                                                             *)

DefaultMovie ==
  [kind |-> "clean", seed |-> ZeroSeed, guid |-> ZeroGuid, records |-> <<>>,
   rerecordCount |-> 0, tasProject |-> FALSE]

BlankRecord == [commands |-> {}, in |-> Blank]

TruncatedAt(md, frame) == [md EXCEPT !.records = SubSeq(@, 1, frame)]

InsertedAt(md, frame, r) ==
  [md EXCEPT !.records =
     SubSeq(@, 1, frame) \o <<r>> \o SubSeq(@, frame + 1, Len(@))]

ErasedAt(md, frame) ==
  [md EXCEPT !.records =
     SubSeq(@, 1, frame) \o SubSeq(@, frame + 2, Len(@))]

(* MovieData::dump serialises into a memory file, leaves its position at   *)
(* the end (or at the current frame) and reads it back from there without  *)
(* seeking to the start: what reaches the file or the savestate is a block *)
(* of zero bytes (or a tail of records and zero bytes) without the header  *)
(* "version 3" that LoadFM2 insists on.                                    *)
Dump(md) == Garbled

(* LoadFM2; LoadMovie ignores a failure and keeps the default MovieData.   *)
LoadFM2(content) == IF content = Garbled THEN DefaultMovie ELSE content

(* Mutants of the next definition: the count is not stored in the movie;   *)
(* a load is not counted.                                                  *)
CountNotStored(md) ==
  /\ currRerecordCount < MaxRerecords
  /\ currRerecordCount' = currRerecordCount + 1
  /\ currMovieData' = md

NotCounted(md) ==
  /\ currRerecordCount' = currRerecordCount
  /\ currMovieData' = md

(* FCEUMOV_IncrementRerecordCount, after md has replaced currMovieData.    *)
IncrementRerecordCount(md) ==
  /\ currRerecordCount < MaxRerecords
  /\ currRerecordCount' = currRerecordCount + 1
  /\ currMovieData' = [md EXCEPT !.rerecordCount = currRerecordCount + 1]

(* Index of the first record two movies disagree on, below end_frame.      *)
SameTimeline(stateMovie, currMovie, frame) ==
  \A x \in 1 .. frame :
    (x <= Len(stateMovie.records) /\ x <= Len(currMovie.records))
      => stateMovie.records[x] = currMovie.records[x]

-----------------------------------------------------------------------------
(* The movie file.                                                         *)

(* openRecordingMovie(name), the dump of md into it, and the stream left   *)
(* behind: kept when recording, deleted otherwise.  A failed open leaves a *)
(* stream object without a file, and the file as it was.                   *)
WriteMovieFile(files, name, md, keepOpen) ==
  \/ /\ disk' = [files EXCEPT ![name] = Dump(md)]
     /\ osRecordingMovie' = IF keepOpen THEN "open" ELSE "null"
  \/ /\ OpenMayFail
     /\ disk' = files
     /\ osRecordingMovie' = "failed"

(* Mutant of the next definition: the stream is kept in every mode.        *)
RedumpKeepingStream ==
  WriteMovieFile(disk, curMovieFilename, currMovieData', TRUE)

RedumpWholeMovieFile ==
  WriteMovieFile(disk, curMovieFilename, currMovieData', movieMode' = "RECORD")

(* Mutant of the next definition: StopPlayback dumps the movie as well.    *)
StopAlwaysRedumps ==
  {[disk |-> [disk EXCEPT ![curMovieFilename] = Dump(currMovieData)],
    stream |-> "null"]}

(* What StopPlayback, or StopRecording with its redump, leaves of the      *)
(* files and of the stream.                                                *)
StoppedFiles ==
  LET redumped == [disk EXCEPT ![curMovieFilename] = Dump(currMovieData)]
  IN  IF movieMode = "RECORD"
      THEN {[disk |-> redumped, stream |-> "null"]}
             \cup (IF OpenMayFail THEN {[disk |-> disk, stream |-> "failed"]}
                                  ELSE {})
      ELSE {[disk |-> disk, stream |-> osRecordingMovie]}

FinishedMode == IF closeFinishedMovie THEN "INACTIVE" ELSE "FINISHED"

(* Mutant of the next definition: the movie is closed in both cases.       *)
AlwaysForget ==
  /\ movieMode' = FinishedMode
  /\ curMovieFilename' = NoFile

(* The end of the movie reached by an edit: it may be closed as well.      *)
CloseOrFinish ==
  /\ movieMode' = FinishedMode
  /\ curMovieFilename' =
       IF closeFinishedMovie THEN NoFile ELSE curMovieFilename

-----------------------------------------------------------------------------
(* Frames: FCEU_UpdateInput and FCEUMOV_AddInputState.                     *)

NextFrame ==
  /\ currFrameCounter < MaxFrames
  /\ currFrameCounter' = currFrameCounter + 1

(* MovieAddInputState_Playback inside the movie.                           *)
PlaybackFrame ==
  /\ movieMode = "PLAY"
  /\ currFrameCounter < Length
  /\ NextFrame
  /\ LET mr == currMovieData.records[currFrameCounter + 1]
     IN  machine' = RunFrame(machine, PlayedCommands(mr), mr.in)
  /\ UNCHANGED <<movieMode, movie_readonly, currMovieData, currRerecordCount,
                 fileVars, optionVars, currCommand, RAMInitSeed, slot>>

(* MovieAddInputState_Playback at the end: FinishPlayback, then the        *)
(* controllers are polled for this frame.                                  *)
FinishPlaybackFrame(input) ==
  /\ movieMode = "PLAY"
  /\ currFrameCounter >= Length
  /\ movieMode' = FinishedMode
  /\ NextFrame
  /\ machine' = Tracked(RunFrame(machine, <<>>, input))
  /\ UNCHANGED <<movie_readonly, currMovieData, currRerecordCount, fileVars,
                 optionVars, currCommand, RAMInitSeed, slot>>

(* Mutant of the next definition: the movie is cut one frame too late.     *)
RecordedOneLate(md, r) ==
  IF currFrameCounter >= Len(md.records)
  THEN [md EXCEPT !.records = Append(@, r)]
  ELSE [md EXCEPT !.records =
          Append(SubSeq(@, 1, currFrameCounter + 1), r)]

(* The records after MovieAddInputState_Record has logged r.               *)
Recorded(md, r) ==
  IF currFrameCounter >= Len(md.records)
  THEN [md EXCEPT !.records = Append(@, r)]
  ELSE CASE movieRecordMode = "OVERWRITE" ->
              [md EXCEPT !.records[currFrameCounter + 1] = r]
         [] movieRecordMode = "INSERT" -> InsertedAt(md, currFrameCounter, r)
         [] OTHER ->
              [md EXCEPT !.records =
                 Append(SubSeq(@, 1, currFrameCounter), r)]

(* MovieAddInputState_Record: the frame's input and the staged commands    *)
(* are logged.  The record is also written to the stream, into a file that *)
(* stays as unreadable as its last dump made it.                           *)
RecordFrame(input) ==
  /\ movieMode = "RECORD"
  /\ osRecordingMovie = "open"
  /\ currMovieData' =
       Recorded(currMovieData, [commands |-> currCommand, in |-> input])
  /\ Len(currMovieData'.records) <= MaxLen
  /\ currCommand' = {}
  /\ NextFrame
  /\ machine' = RunFrame(machine, <<>>, input)
  /\ UNCHANGED <<movieMode, movie_readonly, currRerecordCount, fileVars,
                 optionVars, RAMInitSeed, slot>>

(* A frame that neither plays nor records.                                 *)
LiveFrame(input) ==
  /\ movieMode \in {"INACTIVE", "FINISHED"}
  /\ UNCHANGED movieMode
  /\ NextFrame
  /\ machine' = Tracked(RunFrame(machine, <<>>, input))
  /\ UNCHANGED <<movie_readonly, currMovieData, currRerecordCount, fileVars,
                 optionVars, currCommand, RAMInitSeed, slot>>

(* Reset, power and the disk and coin commands, executed at once and       *)
(* staged for the movie.  FCEU_IsValidUI refuses them while a movie plays. *)
CommandWhileRecording(c) ==
  /\ movieMode = "RECORD"
  /\ Len(machine.pend) < MaxPending
  /\ machine' = [machine EXCEPT !.pend = Append(@, c)]
  /\ currCommand' = currCommand \cup {c}
  /\ UNCHANGED <<movieVars, fileVars, optionVars, RAMInitSeed, slot>>

(* Without a movie PowerNES draws a new RAM seed, and a reset or a power   *)
(* cycle restarts the frame counter (ResetFrameCounter).                   *)
CommandWithoutMovie(c) ==
  /\ movieMode = "INACTIVE"
  /\ machine' = FreeMachine
  /\ IF c = "power" THEN RAMInitSeed' \in Seeds ELSE UNCHANGED RAMInitSeed
  /\ currFrameCounter' =
       IF c \in {"power", "reset"} THEN 0 ELSE currFrameCounter
  /\ UNCHANGED <<movieMode, movie_readonly, currMovieData, currRerecordCount,
                 fileVars, optionVars, currCommand, slot>>

-----------------------------------------------------------------------------
(* Switches of the user.                                                   *)

MovieToggleReadOnly ==
  /\ movie_readonly' = ~movie_readonly
  /\ UNCHANGED <<movieMode, currFrameCounter, currMovieData,
                 currRerecordCount, fileVars, optionVars, currCommand,
                 RAMInitSeed, machine, slot>>

SetRecordMode(m) ==
  /\ movieRecordMode' = m
  /\ UNCHANGED <<movieVars, fileVars, closeFinishedMovie, fullSaveStateLoads,
                 currCommand, RAMInitSeed, machine, slot>>

SetMovieOptions(setting) ==
  /\ closeFinishedMovie' = setting.close
  /\ fullSaveStateLoads' = setting.full
  /\ UNCHANGED <<movieVars, fileVars, movieRecordMode, currCommand,
                 RAMInitSeed, machine, slot>>

-----------------------------------------------------------------------------
(* FCEUI_MovieToggleRecording, one action per branch.                      *)

ToggleReadOnlyPastEnd ==
  /\ Active
  /\ currFrameCounter > Length
  /\ movie_readonly' = ~movie_readonly
  /\ UNCHANGED <<movieMode, currFrameCounter, currMovieData,
                 currRerecordCount, fileVars, optionVars, currCommand,
                 RAMInitSeed, machine, slot>>

ToggleToRecord ==
  /\ currFrameCounter <= Length
  /\ \/ movieMode = "PLAY"
     \/ movieMode = "FINISHED" /\ currFrameCounter = Length
  /\ movie_readonly' = FALSE
  /\ IncrementRerecordCount(currMovieData)
  /\ movieMode' = "RECORD"
  /\ RedumpWholeMovieFile
  /\ UNCHANGED <<currFrameCounter, curMovieFilename, optionVars, currCommand,
                 RAMInitSeed, machine, slot>>

ToggleToPlay ==
  /\ movieMode = "RECORD"
  /\ currFrameCounter <= Length
  /\ movie_readonly' = TRUE
  /\ IF currFrameCounter >= Length
     THEN CloseOrFinish
     ELSE movieMode' = "PLAY" /\ UNCHANGED curMovieFilename
  /\ WriteMovieFile(disk, curMovieFilename, currMovieData, FALSE)
  /\ machine' = Tracked(machine)
  /\ UNCHANGED <<currFrameCounter, currMovieData, currRerecordCount,
                 optionVars, currCommand, RAMInitSeed, slot>>

-----------------------------------------------------------------------------
(* Frame editing: FCEUI_MovieInsertFrame, DeleteFrame and Truncate.        *)

InsertFrame ==
  /\ Active
  /\ ~movie_readonly
  /\ currFrameCounter <= Length
  /\ Length < MaxLen
  /\ IncrementRerecordCount(
       InsertedAt(currMovieData, currFrameCounter, BlankRecord))
  /\ UNCHANGED movieMode
  /\ RedumpWholeMovieFile
  /\ UNCHANGED <<movie_readonly, currFrameCounter, curMovieFilename,
                 optionVars, currCommand, RAMInitSeed, machine, slot>>

(* The edit is dumped before playback that has reached the end finishes.   *)
EditAtFrame(md) ==
  /\ movieMode \in {"PLAY", "RECORD"}
  /\ ~movie_readonly
  /\ currFrameCounter < Length
  /\ IncrementRerecordCount(md)
  /\ WriteMovieFile(disk, curMovieFilename, md, movieMode = "RECORD")
  /\ IF movieMode # "RECORD" /\ currFrameCounter >= Len(md.records)
     THEN CloseOrFinish
     ELSE UNCHANGED <<movieMode, curMovieFilename>>
  /\ machine' = Tracked(machine)
  /\ UNCHANGED <<movie_readonly, currFrameCounter, optionVars, currCommand,
                 RAMInitSeed, slot>>

DeleteFrame == EditAtFrame(ErasedAt(currMovieData, currFrameCounter))

Truncate == EditAtFrame(TruncatedAt(currMovieData, currFrameCounter))

-----------------------------------------------------------------------------
(* StopMovie, LoadMovie, SaveMovie and MoviePlayFromBeginning.             *)

(* StopMovie, with OnMovieClosed.                                          *)
StopMovie ==
  /\ Active
  /\ \E stop \in StoppedFiles :
       /\ disk' = stop.disk
       /\ osRecordingMovie' = stop.stream
  /\ movieMode' = "INACTIVE"
  /\ curMovieFilename' = NoFile
  /\ machine' = FreeMachine
  /\ UNCHANGED <<movie_readonly, currFrameCounter, currMovieData,
                 currRerecordCount, optionVars, currCommand, RAMInitSeed,
                 slot>>

(* LoadMovie after the current movie has been stopped: the movie starts    *)
(* playing on a machine powered on with its seed, or restored from the     *)
(* battery memory or the savestate it embeds.  A file that cannot be       *)
(* opened, or what it embeds not fitting, leaves no movie active.          *)
StartPlayback(name, content, readonly) ==
  LET md == IF content = Absent THEN DefaultMovie ELSE LoadFM2(content) IN
  /\ curMovieFilename' = name
  /\ currMovieData' = md
  /\ RAMInitSeed' = IF content = Absent THEN RAMInitSeed ELSE md.seed
  /\ IF content = Absent \/ md.kind = "unfit"
     THEN /\ movieMode' = "INACTIVE"
          /\ machine' = FreeMachine
          /\ UNCHANGED <<movie_readonly, currFrameCounter, currRerecordCount>>
     ELSE /\ movieMode' = "PLAY"
          /\ movie_readonly' = readonly
          /\ currFrameCounter' = 0
          /\ currRerecordCount' = md.rerecordCount
          /\ machine' = Started(md.kind, StartTag(md))

LoadMovie(name, readonly) ==
  /\ \E stop \in StoppedFiles :
       /\ disk' = stop.disk
       /\ osRecordingMovie' = stop.stream
       /\ StartPlayback(name, stop.disk[name], readonly)
  /\ UNCHANGED <<optionVars, currCommand, slot>>

(* SaveMovie.  A movie from battery memory is created with the current     *)
(* seed and then powered on without disableBatteryLoading, in INACTIVE     *)
(* mode, so that PowerNES draws another seed.                              *)
SaveMovie(name, kind) ==
  /\ movieMode' = "RECORD"
  /\ \E stop \in StoppedFiles :
       disk' = [stop.disk EXCEPT ![name] = Dump(currMovieData')]
  /\ osRecordingMovie' = "open"
  /\ curMovieFilename' = name
  /\ movie_readonly' = FALSE
  /\ currFrameCounter' = 0
  /\ currRerecordCount' = 0
  /\ currMovieData' = [DefaultMovie EXCEPT !.kind = kind,
                                          !.seed = RAMInitSeed,
                                          !.guid = NewGuid]
  /\ IF kind = "battery"
     THEN RAMInitSeed' \in Seeds
     ELSE UNCHANGED RAMInitSeed
  /\ machine' =
       Started(kind, IF kind = "state" THEN NewGuid ELSE RAMInitSeed')
  /\ currCommand' = {}
  /\ UNCHANGED <<optionVars, slot>>

(* SaveMovie when the file cannot be opened: the movie has been stopped.   *)
SaveMovieOpenFailed ==
  /\ OpenMayFail
  /\ movieMode' = "INACTIVE"
  /\ \E stop \in StoppedFiles : disk' = stop.disk
  /\ osRecordingMovie' = "failed"
  /\ curMovieFilename' = NoFile
  /\ machine' = FreeMachine
  /\ UNCHANGED <<movie_readonly, currFrameCounter, currMovieData,
                 currRerecordCount, optionVars, currCommand, RAMInitSeed,
                 slot>>

(* MoviePlayFromBeginning of a movie without a savestate: the machine is   *)
(* powered on with the current seed and its battery memory cleared.        *)
PlayFromBeginning ==
  /\ Active
  /\ currMovieData.kind # "state"
  /\ \E stop \in StoppedFiles :
       /\ disk' = stop.disk
       /\ osRecordingMovie' = stop.stream
  /\ movie_readonly' = TRUE
  /\ movieMode' = "PLAY"
  /\ machine' = Started("clean", RAMInitSeed)
  /\ currFrameCounter' = 0
  /\ UNCHANGED <<currMovieData, currRerecordCount, curMovieFilename,
                 optionVars, currCommand, RAMInitSeed, slot>>

(* MoviePlayFromBeginning of a movie with a savestate: it is stopped and   *)
(* loaded again from its file, which fitted when it was first loaded.      *)
ReloadFromBeginning ==
  /\ Active
  /\ currMovieData.kind = "state"
  /\ LoadMovie(curMovieFilename, TRUE)

-----------------------------------------------------------------------------
(* Savestates.                                                             *)

(* FCEUSS_SaveMS: the machine is in chunks 1 to 5 and 16, the frame counter*)
(* in chunk 4 (FRAM) and, with a movie, in 6 (FCNT), the movie in chunk 7. *)
SaveState ==
  /\ currFrameCounter <= MaxSaveFrame
  /\ slot' = [machine |-> machine,
              frame |-> currFrameCounter,
              movie |-> IF Active THEN Dump(currMovieData) ELSE NoMovie,
              legacy |-> FALSE]
  /\ UNCHANGED <<movieVars, fileVars, optionVars, currCommand, RAMInitSeed,
                 machine>>

States == ForeignStates \cup (IF slot = NoState THEN {} ELSE {slot})

Readable(st) == ~st.legacy /\ st.movie \notin {Garbled, NoMovie}

(* Mutant of the next definition: a missing entry is not noticed.          *)
StateFrameUnchecked(st) == st.frame

(* The frame counter when chunk 7 is read.                                 *)
StateFrame(st) == IF st.frame = NoFrame THEN currFrameCounter ELSE st.frame

(* A project of the TAS Editor is made read-only by a movie chunk.         *)
ReadOnlyAfter(st) ==
  movie_readonly \/ (currMovieData.tasProject /\ st.movie # NoMovie)

(* A load that FCEUMOV_PostLoad accepts for want of an active movie.       *)
LoadStateWithoutMovie(st) ==
  /\ ~Active
  /\ st.legacy \/ st.movie # Garbled
  /\ movie_readonly' = ReadOnlyAfter(st)
  /\ currFrameCounter' = StateFrame(st)
  /\ UNCHANGED <<movieMode, currMovieData, currRerecordCount, fileVars,
                 optionVars, currCommand, RAMInitSeed, machine, slot>>

(* The movie chunk is unreadable: the load fails and the backup restores   *)
(* the machine and the frame counter; the backup's own movie chunk is      *)
(* unreadable as well, so it does nothing to the movie.                    *)
LoadStateUnreadable(st) ==
  /\ ~st.legacy /\ st.movie = Garbled
  /\ movie_readonly' = ReadOnlyAfter(st)
  /\ UNCHANGED <<movieMode, currFrameCounter, currMovieData,
                 currRerecordCount, fileVars, optionVars, currCommand,
                 RAMInitSeed, machine, slot>>

(* No movie chunk, or one of the old format, while a movie is active: all  *)
(* chunks are applied, FCEUMOV_PostLoad reports failure, and the backup,   *)
(* which FCEUSS_LoadFP uses only when a chunk failed, is not restored.     *)
LoadStateIgnoringMovie(st) ==
  /\ Active
  /\ st.legacy \/ st.movie = NoMovie
  /\ machine' = st.machine
  /\ currFrameCounter' = StateFrame(st)
  /\ movie_readonly' = ReadOnlyAfter(st)
  /\ UNCHANGED <<movieMode, currMovieData, currRerecordCount, fileVars,
                 optionVars, currCommand, RAMInitSeed, slot>>

(* FCEUMOV_ReadState in Read-Only mode: the recording is closed first.     *)
CloseRecordingForReplay ==
  IF movieMode = "RECORD"
  THEN \E stop \in StoppedFiles :
         disk' = stop.disk /\ osRecordingMovie' = "null"
  ELSE UNCHANGED <<disk, osRecordingMovie>>

(* The state is in the timeline of the movie, and when it was made after   *)
(* the end of its own movie it holds enough input to tell.                 *)
StateFitsMovie(st) ==
  /\ SameTimeline(st.movie, currMovieData, StateFrame(st))
  /\ ~(/\ Len(st.movie.records) < StateFrame(st)
       /\ Len(st.movie.records) < Length)

LoadStateReadOnly(st) ==
  /\ Active /\ Readable(st) /\ ReadOnlyAfter(st)
  /\ StateFitsMovie(st)
  /\ movie_readonly' = TRUE
  /\ CloseRecordingForReplay
  /\ movieMode' = IF StateFrame(st) < Length THEN "PLAY" ELSE FinishedMode
  /\ machine' = Tracked(st.machine)
  /\ currFrameCounter' = StateFrame(st)
  /\ UNCHANGED <<currMovieData, currRerecordCount, curMovieFilename,
                 optionVars, currCommand, RAMInitSeed, slot>>

(* Refused, but the recording has been closed and the mode changed.        *)
LoadStateWrongTimeline(st) ==
  /\ Active /\ Readable(st) /\ ReadOnlyAfter(st)
  /\ ~StateFitsMovie(st)
  /\ movie_readonly' = TRUE
  /\ CloseRecordingForReplay
  /\ movieMode' = IF movieMode = "RECORD" THEN "PLAY" ELSE movieMode
  /\ UNCHANGED <<currFrameCounter, currMovieData, currRerecordCount,
                 curMovieFilename, optionVars, currCommand, RAMInitSeed,
                 machine, slot>>

(* FCEUMOV_ReadState in Read+Write mode: the movie of the state replaces   *)
(* the current one and recording continues, or, past its end, it finishes. *)
LoadStateToRecord(st) ==
  /\ Active /\ Readable(st) /\ ~ReadOnlyAfter(st)
  /\ StateFrame(st) <= Len(st.movie.records)
  /\ movieMode' = "RECORD"
  /\ IncrementRerecordCount(
       IF fullSaveStateLoads THEN st.movie
       ELSE TruncatedAt(st.movie, StateFrame(st)))
  /\ RedumpWholeMovieFile
  /\ machine' = st.machine
  /\ currFrameCounter' = StateFrame(st)
  /\ UNCHANGED <<movie_readonly, curMovieFilename, optionVars, currCommand,
                 RAMInitSeed, slot>>

LoadStatePostMovie(st) ==
  /\ Active /\ Readable(st) /\ ~ReadOnlyAfter(st)
  /\ StateFrame(st) > Len(st.movie.records)
  /\ movieMode' = FinishedMode
  /\ IncrementRerecordCount(st.movie)
  /\ WriteMovieFile(disk, curMovieFilename, st.movie, FALSE)
  /\ machine' = Tracked(st.machine)
  /\ currFrameCounter' = StateFrame(st)
  /\ UNCHANGED <<movie_readonly, curMovieFilename, optionVars, currCommand,
                 RAMInitSeed, slot>>

-----------------------------------------------------------------------------
Init ==
  /\ movieMode = "INACTIVE"
  /\ movie_readonly = TRUE
  /\ currFrameCounter = 0
  /\ currMovieData = DefaultMovie
  /\ currRerecordCount = 0
  /\ osRecordingMovie = "null"
  /\ curMovieFilename = NoFile
  /\ currCommand = {}
  /\ movieRecordMode = "TRUNCATE"
  /\ closeFinishedMovie \in BOOLEAN
  /\ fullSaveStateLoads \in BOOLEAN
  /\ [close |-> closeFinishedMovie, full |-> fullSaveStateLoads] \in Settings
  /\ RAMInitSeed = ZeroSeed
  /\ machine = FreeMachine
  /\ disk \in [Names -> ForeignMovies \cup {Absent}]
  /\ slot = NoState

FrameNext ==
  \/ PlaybackFrame
  \/ \E input \in Inputs :
       \/ FinishPlaybackFrame(input)
       \/ RecordFrame(input)
       \/ LiveFrame(input)

CommandNext ==
  \E c \in UserCommands : CommandWhileRecording(c) \/ CommandWithoutMovie(c)

SwitchNext ==
  \/ MovieToggleReadOnly
  \/ \E m \in RecordModes : SetRecordMode(m)
  \/ \E setting \in Settings : SetMovieOptions(setting)

EditNext ==
  \/ ToggleReadOnlyPastEnd
  \/ ToggleToRecord
  \/ ToggleToPlay
  \/ InsertFrame
  \/ DeleteFrame
  \/ Truncate

MovieNext ==
  \/ StopMovie
  \/ PlayFromBeginning
  \/ ReloadFromBeginning
  \/ SaveMovieOpenFailed
  \/ \E name \in Names :
       \/ \E readonly \in BOOLEAN : LoadMovie(name, readonly)
       \/ \E kind \in Kinds : SaveMovie(name, kind)

StateNext ==
  \/ SaveState
  \/ \E st \in States :
       \/ LoadStateWithoutMovie(st)
       \/ LoadStateUnreadable(st)
       \/ LoadStateIgnoringMovie(st)
       \/ LoadStateReadOnly(st)
       \/ LoadStateWrongTimeline(st)
       \/ LoadStateToRecord(st)
       \/ LoadStatePostMovie(st)

Next ==
  FrameNext \/ CommandNext \/ SwitchNext \/ EditNext \/ MovieNext \/ StateNext

Spec == Init /\ [][Next]_vars

=============================================================================
