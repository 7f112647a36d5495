----------------------------- MODULE MovieProofs -----------------------------
(***************************************************************************)
(* Invariants of the movie engine, for every value of its constants.       *)
(***************************************************************************)
EXTENDS MovieProperties, SequenceTheorems, TLAPS

-----------------------------------------------------------------------------
(* What the operators of the movie data and of the machine return.         *)

(* An edit of the records that yields records yields a movie.              *)
LEMMA EditedMovie ==
  ASSUME NEW md \in Movie, NEW s \in Seq(Record)
  PROVE  [md EXCEPT !.records = s] \in Movie
BY DEF Movie

(* Truncating, inserting and erasing keep a movie a movie.                 *)
LEMMA TruncatedMovie ==
  ASSUME NEW md \in Movie, NEW n \in 0 .. Len(md.records)
  PROVE  TruncatedAt(md, n) \in Movie
<1>1. md.records \in Seq(Record)
  BY DEF Movie
<1>2. SubSeq(md.records, 1, n) \in Seq(Record)
  BY <1>1
<1>3. QED
  BY <1>2, EditedMovie DEF TruncatedAt

LEMMA InsertedMovie ==
  ASSUME NEW md \in Movie, NEW n \in 0 .. Len(md.records), NEW r \in Record
  PROVE  InsertedAt(md, n, r) \in Movie
<1>1. md.records \in Seq(Record)
  BY DEF Movie
<1>2. /\ SubSeq(md.records, 1, n) \in Seq(Record)
      /\ SubSeq(md.records, n + 1, Len(md.records)) \in Seq(Record)
  BY <1>1
<1>3. SubSeq(md.records, 1, n) \o <<r>>
        \o SubSeq(md.records, n + 1, Len(md.records)) \in Seq(Record)
  BY <1>2
<1>4. QED
  BY <1>3, EditedMovie DEF InsertedAt

LEMMA ErasedMovie ==
  ASSUME NEW md \in Movie, NEW n \in 0 .. Len(md.records) - 1
  PROVE  ErasedAt(md, n) \in Movie
<1>1. md.records \in Seq(Record)
  BY DEF Movie
<1>2. /\ SubSeq(md.records, 1, n) \in Seq(Record)
      /\ SubSeq(md.records, n + 2, Len(md.records)) \in Seq(Record)
  BY <1>1
<1>3. SubSeq(md.records, 1, n)
        \o SubSeq(md.records, n + 2, Len(md.records)) \in Seq(Record)
  BY <1>2
<1>4. QED
  BY <1>3, EditedMovie DEF ErasedAt

(* Recording a record keeps a movie a movie, in every record mode.         *)
LEMMA RecordedMovie ==
  ASSUME TypeOK, NEW r \in Record
  PROVE  Recorded(currMovieData, r) \in Movie
<1> DEFINE recs == currMovieData.records
<1>1. /\ currMovieData \in Movie /\ recs \in Seq(Record)
      /\ currFrameCounter \in Nat
  BY DEF TypeOK, Movie
<1>2. CASE currFrameCounter >= Len(recs)
  <2>1. Append(recs, r) \in Seq(Record)
    BY <1>1
  <2>2. QED
    BY <1>1, <1>2, <2>1, EditedMovie DEF Recorded
<1>3. CASE currFrameCounter < Len(recs)
  <2>1. currFrameCounter \in 0 .. Len(recs)
    BY <1>1, <1>3
  <2>2. Append(SubSeq(recs, 1, currFrameCounter), r) \in Seq(Record)
    BY <1>1, <2>1
  <2>3. [recs EXCEPT ![currFrameCounter + 1] = r] \in Seq(Record)
    BY <1>1, <1>3, ExceptSeq
  <2>4. /\ [currMovieData EXCEPT !.records =
              Append(SubSeq(recs, 1, currFrameCounter), r)] \in Movie
        /\ [currMovieData EXCEPT !.records =
              [recs EXCEPT ![currFrameCounter + 1] = r]] \in Movie
        /\ InsertedAt(currMovieData, currFrameCounter, r) \in Movie
    BY <1>1, <2>1, <2>2, <2>3, EditedMovie, InsertedMovie
  <2>5. ~ currFrameCounter >= Len(recs)
    BY <1>1, <1>3
  <2>6. CASE movieRecordMode = "OVERWRITE"
    BY <2>4, <2>5, <2>6 DEF Recorded
  <2>7. CASE movieRecordMode = "INSERT"
    BY <2>4, <2>5, <2>7 DEF Recorded
  <2>8. CASE movieRecordMode = "TRUNCATE"
    BY <2>4, <2>5, <2>8 DEF Recorded
  <2>9. QED
    BY <2>6, <2>7, <2>8 DEF TypeOK
<1>4. QED
  BY <1>1, <1>2, <1>3

(* The commands of a record are replayed as a sequence of commands.        *)
LEMMA PlayedType ==
  ASSUME NEW r
  PROVE  PlayedCommands(r) \in Seq(Commands)
<1>1. \A c \in Commands : Given(r, c) \in Seq(Commands)
  BY DEF Given
<1>2. QED
  BY <1>1 DEF PlayedCommands, Commands

(* A frame leads from a machine to a machine.                              *)
LEMMA RunFrameType ==
  ASSUME NEW m \in Machine, NEW cmds \in Seq(Commands), NEW input \in Inputs
  PROVE  RunFrame(m, cmds, input) \in Machine
<1>1. m.hist \in Seq(Step) /\ m.pend \in Seq(Commands)
  BY DEF Machine
<1>2. Executed(m.pend \o cmds, input) \in Step
  BY <1>1 DEF Executed, Step
<1>3. Append(m.hist, Executed(m.pend \o cmds, input)) \in Seq(Step)
  BY <1>1, <1>2
<1>4. QED
  BY <1>3 DEF RunFrame, Machine

LEMMA StartedType ==
  ASSUME NEW kind \in Kinds \cup {"free"}, NEW tag \in Seeds \cup Guids
  PROVE  Started(kind, tag) \in Machine
BY DEF Started, Machine, Boot

LEMMA FreeMachineType == FreeMachine \in Machine
BY StartedType, EngineAssumption DEF FreeMachine

LEMMA TrackedType ==
  ASSUME NEW m \in Machine
  PROVE  Tracked(m) \in Machine
BY FreeMachineType DEF Tracked

LEMMA DefaultMovieType == DefaultMovie \in Movie
BY EngineAssumption DEF DefaultMovie, Movie, Kinds

(* What a movie that is stopped leaves of its file and of the stream.      *)
LEMMA StoppedFilesType ==
  ASSUME TypeOK, NEW stop \in StoppedFiles
  PROVE  /\ stop.disk \in [Names -> Movie \cup {Garbled, Absent}]
         /\ stop.stream \in {"null", "open", "failed"}
BY DEF TypeOK, StoppedFiles, Dump

(* The redump of a movie file, and the count of a rerecord.                *)
LEMMA WriteMovieFileType ==
  ASSUME TypeOK, NEW files \in [Names -> Movie \cup {Garbled, Absent}],
         NEW name, NEW md, NEW keepOpen,
         WriteMovieFile(files, name, md, keepOpen)
  PROVE  /\ disk' \in [Names -> Movie \cup {Garbled, Absent}]
         /\ osRecordingMovie' \in {"null", "open", "failed"}
BY DEF WriteMovieFile, Dump

LEMMA IncrementType ==
  ASSUME TypeOK, NEW md \in Movie, IncrementRerecordCount(md)
  PROVE  /\ currMovieData' \in Movie
         /\ currRerecordCount' \in Nat
         /\ currMovieData'.rerecordCount = currRerecordCount'
<1>1. currRerecordCount \in Nat
  BY DEF TypeOK
<1>2. currRerecordCount + 1 \in Nat
  BY <1>1
<1>3. [md EXCEPT !.rerecordCount = currRerecordCount + 1] \in Movie
  BY <1>2 DEF Movie
<1>4. [md EXCEPT !.rerecordCount = currRerecordCount + 1].rerecordCount
        = currRerecordCount + 1
  BY DEF Movie
<1>5. QED
  BY <1>2, <1>3, <1>4 DEF IncrementRerecordCount

(* The savestates that can be loaded.                                      *)
LEMMA StatesType ==
  ASSUME TypeOK, NEW st \in States
  PROVE  /\ st \in Savestate
         /\ st.machine \in Machine
         /\ StateFrame(st) \in Nat
         /\ ReadOnlyAfter(st) \in BOOLEAN
<1>1. st \in Savestate
  BY EngineAssumption DEF States, TypeOK
<1>2. currFrameCounter \in Nat /\ movie_readonly \in BOOLEAN
  BY DEF TypeOK
<1>3. currMovieData.tasProject \in BOOLEAN
  BY DEF TypeOK, Movie
<1>4. QED
  BY <1>1, <1>2, <1>3 DEF Savestate, StateFrame, NoFrame, ReadOnlyAfter

LEMMA ReadableMovie ==
  ASSUME NEW st \in Savestate, Readable(st)
  PROVE  st.movie \in Movie
BY DEF Savestate, Readable

-----------------------------------------------------------------------------
(* Type correctness is not inductive: ReloadFromBeginning loads the file   *)
(* named by curMovieFilename.  With ActiveMovieHasFile it is.              *)
LEMMA TypeStep ==
  ASSUME TypeOK, ActiveMovieHasFile, [Next]_vars
  PROVE  TypeOK'
<1> USE DEF movieVars, fileVars, optionVars
<1>0. <<>> \in Seq(Commands) /\ machine \in Machine
  BY DEF TypeOK
<1>1. CASE PlaybackFrame
  <2> DEFINE mr == currMovieData.records[currFrameCounter + 1]
  <2>1. mr \in Record
    <3>1. currMovieData.records \in Seq(Record)
      BY DEF TypeOK, Movie
    <3>2. currFrameCounter + 1 \in 1 .. Len(currMovieData.records)
      BY <1>1, <3>1 DEF PlaybackFrame, Length, TypeOK
    <3>3. QED
      BY <3>1, <3>2
  <2>2. RunFrame(machine, PlayedCommands(mr), mr.in) \in Machine
    BY <2>1, RunFrameType, PlayedType DEF TypeOK, Record
  <2>3. QED
    BY <1>1, <2>2 DEF PlaybackFrame, NextFrame, TypeOK
<1>2. ASSUME NEW input \in Inputs, FinishPlaybackFrame(input)
      PROVE  TypeOK'
  <2>1. Tracked(RunFrame(machine, <<>>, input)) \in Machine
    BY <1>0, RunFrameType, TrackedType
  <2>2. QED
    BY <1>2, <2>1 DEF FinishPlaybackFrame, FinishedMode, NextFrame, TypeOK
<1>3. ASSUME NEW input \in Inputs, RecordFrame(input)
      PROVE  TypeOK'
  <2>1. RunFrame(machine, <<>>, input) \in Machine
    BY <1>0, RunFrameType
  <2>2. currMovieData' \in Movie
    BY <1>3, RecordedMovie DEF RecordFrame, Record, TypeOK
  <2>3. QED
    BY <1>3, <2>1, <2>2 DEF RecordFrame, NextFrame, TypeOK
<1>4. ASSUME NEW input \in Inputs, LiveFrame(input)
      PROVE  TypeOK'
  <2>1. Tracked(RunFrame(machine, <<>>, input)) \in Machine
    BY <1>0, RunFrameType, TrackedType
  <2>2. QED
    BY <1>4, <2>1 DEF LiveFrame, NextFrame, TypeOK
<1>5. ASSUME NEW c \in UserCommands, CommandWhileRecording(c)
      PROVE  TypeOK'
  <2>1. c \in Commands
    BY EngineAssumption
  <2>2. Append(machine.pend, c) \in Seq(Commands)
    BY <1>0, <2>1 DEF Machine
  <2>3. [machine EXCEPT !.pend = Append(@, c)] \in Machine
    BY <1>0, <2>2 DEF Machine
  <2>4. QED
    BY <1>5, <2>1, <2>3 DEF CommandWhileRecording, TypeOK
<1>6. ASSUME NEW c \in UserCommands, CommandWithoutMovie(c)
      PROVE  TypeOK'
  BY <1>6, FreeMachineType DEF CommandWithoutMovie, TypeOK
<1>7. CASE MovieToggleReadOnly
  BY <1>7 DEF MovieToggleReadOnly, TypeOK
<1>8. ASSUME NEW m \in RecordModes, SetRecordMode(m)
      PROVE  TypeOK'
  BY <1>8, EngineAssumption DEF SetRecordMode, TypeOK
<1>9. ASSUME NEW setting \in Settings, SetMovieOptions(setting)
      PROVE  TypeOK'
  BY <1>9, EngineAssumption DEF SetMovieOptions, TypeOK
<1>10. CASE ToggleReadOnlyPastEnd
  BY <1>10 DEF ToggleReadOnlyPastEnd, TypeOK
<1>11. CASE ToggleToRecord
  <2>1. currMovieData' \in Movie /\ currRerecordCount' \in Nat
    BY <1>11, IncrementType DEF ToggleToRecord, TypeOK
  <2>2. /\ disk' \in [Names -> Movie \cup {Garbled, Absent}]
        /\ osRecordingMovie' \in {"null", "open", "failed"}
    BY <1>11, WriteMovieFileType
    DEF ToggleToRecord, RedumpWholeMovieFile, TypeOK
  <2>3. QED
    BY <1>11, <2>1, <2>2 DEF ToggleToRecord, TypeOK
<1>12. CASE ToggleToPlay
  <2>1. /\ disk' \in [Names -> Movie \cup {Garbled, Absent}]
        /\ osRecordingMovie' \in {"null", "open", "failed"}
    BY <1>12, WriteMovieFileType DEF ToggleToPlay, TypeOK
  <2>2. Tracked(machine) \in Machine
    BY TrackedType DEF TypeOK
  <2>3. QED
    BY <1>12, <2>1, <2>2 DEF ToggleToPlay, CloseOrFinish, FinishedMode, TypeOK
<1>13. CASE InsertFrame
  <2>1. InsertedAt(currMovieData, currFrameCounter, BlankRecord) \in Movie
    <3>1. BlankRecord \in Record
      BY EngineAssumption DEF BlankRecord, Record
    <3>2. currFrameCounter \in 0 .. Len(currMovieData.records)
      BY <1>13 DEF InsertFrame, Length, TypeOK, Movie
    <3>3. QED
      BY <3>1, <3>2, InsertedMovie DEF TypeOK
  <2>2. currMovieData' \in Movie /\ currRerecordCount' \in Nat
    BY <1>13, <2>1, IncrementType DEF InsertFrame
  <2>3. /\ disk' \in [Names -> Movie \cup {Garbled, Absent}]
        /\ osRecordingMovie' \in {"null", "open", "failed"}
    BY <1>13, WriteMovieFileType DEF InsertFrame, RedumpWholeMovieFile, TypeOK
  <2>4. QED
    BY <1>13, <2>2, <2>3 DEF InsertFrame, TypeOK
<1>14. ASSUME NEW md \in Movie, EditAtFrame(md)
       PROVE  TypeOK'
  <2>1. currMovieData' \in Movie /\ currRerecordCount' \in Nat
    BY <1>14, IncrementType DEF EditAtFrame
  <2>2. /\ disk' \in [Names -> Movie \cup {Garbled, Absent}]
        /\ osRecordingMovie' \in {"null", "open", "failed"}
    BY <1>14, WriteMovieFileType DEF EditAtFrame, TypeOK
  <2>3. Tracked(machine) \in Machine
    BY TrackedType DEF TypeOK
  <2>4. QED
    BY <1>14, <2>1, <2>2, <2>3
    DEF EditAtFrame, CloseOrFinish, FinishedMode, TypeOK
<1>15. CASE DeleteFrame
  <2>1. currFrameCounter \in 0 .. Len(currMovieData.records) - 1
    BY <1>15 DEF DeleteFrame, EditAtFrame, Length, TypeOK, Movie
  <2>2. ErasedAt(currMovieData, currFrameCounter) \in Movie
    BY <2>1, ErasedMovie DEF TypeOK
  <2>3. QED
    BY <1>14, <1>15, <2>2 DEF DeleteFrame
<1>16. CASE Truncate
  <2>1. currFrameCounter \in 0 .. Len(currMovieData.records)
    BY <1>16 DEF Truncate, EditAtFrame, Length, TypeOK, Movie
  <2>2. TruncatedAt(currMovieData, currFrameCounter) \in Movie
    BY <2>1, TruncatedMovie DEF TypeOK
  <2>3. QED
    BY <1>14, <1>16, <2>2 DEF Truncate
<1>17. CASE StopMovie
  BY <1>17, StoppedFilesType, FreeMachineType DEF StopMovie, TypeOK
<1>18. ASSUME NEW name \in Names, NEW readonly \in BOOLEAN,
              LoadMovie(name, readonly)
       PROVE  TypeOK'
  <2> PICK stop \in StoppedFiles :
        /\ disk' = stop.disk
        /\ osRecordingMovie' = stop.stream
        /\ StartPlayback(name, stop.disk[name], readonly)
    BY <1>18 DEF LoadMovie
  <2> DEFINE content == stop.disk[name]
             md == IF content = Absent THEN DefaultMovie ELSE LoadFM2(content)
  <2>1. /\ stop.disk \in [Names -> Movie \cup {Garbled, Absent}]
        /\ stop.stream \in {"null", "open", "failed"}
    BY StoppedFilesType
  <2>2. md \in Movie
    BY <2>1, DefaultMovieType DEF LoadFM2
  <2>3. md.kind # "unfit" => Started(md.kind, StartTag(md)) \in Machine
    BY <2>2, StartedType DEF StartTag, Movie
  <2>4. /\ md.seed \in Seeds
        /\ md.rerecordCount \in Nat
    BY <2>2 DEF Movie
  <2>5. QED
    BY <1>18, <2>1, <2>2, <2>3, <2>4, FreeMachineType
    DEF LoadMovie, StartPlayback, TypeOK
<1>19. ASSUME NEW name \in Names, NEW kind \in Kinds, SaveMovie(name, kind)
       PROVE  TypeOK'
  <2>1. disk' \in [Names -> Movie \cup {Garbled, Absent}]
    BY <1>19, StoppedFilesType DEF SaveMovie, Dump
  <2>2. currMovieData' \in Movie
    BY <1>19, DefaultMovieType, EngineAssumption DEF SaveMovie, TypeOK, Movie
  <2>3. RAMInitSeed' \in Seeds
    BY <1>19 DEF SaveMovie, TypeOK
  <2>4. machine' \in Machine
    BY <1>19, <2>3, StartedType, EngineAssumption DEF SaveMovie
  <2>5. QED
    BY <1>19, <2>1, <2>2, <2>3, <2>4 DEF SaveMovie, TypeOK
<1>20. CASE SaveMovieOpenFailed
  BY <1>20, StoppedFilesType, FreeMachineType DEF SaveMovieOpenFailed, TypeOK
<1>21. CASE PlayFromBeginning
  <2>1. Started("clean", RAMInitSeed) \in Machine
    BY StartedType DEF Kinds, TypeOK
  <2>2. QED
    BY <1>21, <2>1, StoppedFilesType DEF PlayFromBeginning, TypeOK
<1>22. CASE ReloadFromBeginning
  BY <1>18, <1>22 DEF ReloadFromBeginning, ActiveMovieHasFile
<1>23. CASE SaveState
  <2>1. slot' \in Savestate
    BY <1>23 DEF SaveState, Savestate, Dump, TypeOK
  <2>2. QED
    BY <1>23, <2>1 DEF SaveState, TypeOK
<1>24. ASSUME NEW st \in States,
              \/ LoadStateWithoutMovie(st)
              \/ LoadStateUnreadable(st)
              \/ LoadStateIgnoringMovie(st)
       PROVE  TypeOK'
  BY <1>24, StatesType
  DEF LoadStateWithoutMovie, LoadStateUnreadable, LoadStateIgnoringMovie,
    TypeOK
<1>25. ASSUME NEW st \in States, CloseRecordingForReplay
       PROVE  /\ disk' \in [Names -> Movie \cup {Garbled, Absent}]
              /\ osRecordingMovie' \in {"null", "open", "failed"}
  BY <1>25, StoppedFilesType DEF CloseRecordingForReplay, TypeOK
<1>26. ASSUME NEW st \in States,
              LoadStateReadOnly(st) \/ LoadStateWrongTimeline(st)
       PROVE  TypeOK'
  <2>1. Tracked(st.machine) \in Machine
    BY StatesType, TrackedType
  <2>2. QED
    BY <1>25, <1>26, <2>1, StatesType
    DEF LoadStateReadOnly, LoadStateWrongTimeline, FinishedMode, TypeOK
<1>27. ASSUME NEW st \in States, LoadStateToRecord(st)
       PROVE  TypeOK'
  <2>1. st.movie \in Movie
    BY <1>27, StatesType, ReadableMovie DEF LoadStateToRecord
  <2>2. StateFrame(st) \in 0 .. Len(st.movie.records)
    BY <1>27, <2>1, StatesType DEF LoadStateToRecord, Movie
  <2>3. currMovieData' \in Movie /\ currRerecordCount' \in Nat
    BY <1>27, <2>1, <2>2, TruncatedMovie, IncrementType DEF LoadStateToRecord
  <2>4. /\ disk' \in [Names -> Movie \cup {Garbled, Absent}]
        /\ osRecordingMovie' \in {"null", "open", "failed"}
    BY <1>27, WriteMovieFileType
    DEF LoadStateToRecord, RedumpWholeMovieFile, TypeOK
  <2>5. QED
    BY <1>27, <2>3, <2>4, StatesType DEF LoadStateToRecord, TypeOK
<1>28. ASSUME NEW st \in States, LoadStatePostMovie(st)
       PROVE  TypeOK'
  <2>1. st.movie \in Movie
    BY <1>28, StatesType, ReadableMovie DEF LoadStatePostMovie
  <2>2. currMovieData' \in Movie /\ currRerecordCount' \in Nat
    BY <1>28, <2>1, IncrementType DEF LoadStatePostMovie
  <2>3. /\ disk' \in [Names -> Movie \cup {Garbled, Absent}]
        /\ osRecordingMovie' \in {"null", "open", "failed"}
    BY <1>28, WriteMovieFileType DEF LoadStatePostMovie, TypeOK
  <2>4. Tracked(st.machine) \in Machine
    BY StatesType, TrackedType
  <2>5. QED
    BY <1>28, <2>2, <2>3, <2>4, StatesType
    DEF LoadStatePostMovie, FinishedMode, TypeOK
<1>29. CASE UNCHANGED vars
  BY <1>29 DEF vars, TypeOK
<1>30. QED
  BY <1>1, <1>2, <1>3, <1>4, <1>5, <1>6, <1>7, <1>8, <1>9, <1>10, <1>11,
    <1>12, <1>13, <1>15, <1>16, <1>17, <1>18, <1>19, <1>20, <1>21, <1>22,
    <1>23, <1>24, <1>26, <1>27, <1>28, <1>29
  DEF Next, FrameNext, CommandNext, SwitchNext, EditNext, MovieNext, StateNext

(* A movie that is active has a file: only operations that end it forget   *)
(* its name.                                                               *)
LEMMA HasFileStep ==
  ASSUME TypeOK, ActiveMovieHasFile, [Next]_vars
  PROVE  ActiveMovieHasFile'
<1> USE DEF ActiveMovieHasFile, Active
<1>1. CASE FrameNext
  BY <1>1 DEF FrameNext, PlaybackFrame, FinishPlaybackFrame, RecordFrame,
    LiveFrame, fileVars
<1>2. CASE CommandNext
  BY <1>2 DEF CommandNext, CommandWhileRecording, CommandWithoutMovie,
    movieVars, fileVars
<1>3. CASE SwitchNext
  BY <1>3 DEF SwitchNext, MovieToggleReadOnly, SetRecordMode, SetMovieOptions,
    movieVars, fileVars
<1>4. CASE ToggleReadOnlyPastEnd
  BY <1>4 DEF ToggleReadOnlyPastEnd, fileVars
<1>5. CASE ToggleToRecord
  BY <1>5 DEF ToggleToRecord
<1>6. CASE ToggleToPlay
  BY <1>6 DEF ToggleToPlay, CloseOrFinish, FinishedMode
<1>7. CASE InsertFrame
  BY <1>7 DEF InsertFrame
<1>8. CASE DeleteFrame \/ Truncate
  BY <1>8 DEF DeleteFrame, Truncate, EditAtFrame, CloseOrFinish, FinishedMode
<1>9. CASE StopMovie \/ SaveMovieOpenFailed
  BY <1>9 DEF StopMovie, SaveMovieOpenFailed
<1>10. ASSUME NEW name \in Names, NEW readonly, LoadMovie(name, readonly)
       PROVE  ActiveMovieHasFile'
  BY <1>10 DEF LoadMovie, StartPlayback
<1>11. ASSUME NEW name \in Names, NEW kind, SaveMovie(name, kind)
       PROVE  ActiveMovieHasFile'
  BY <1>11 DEF SaveMovie
<1>12. CASE PlayFromBeginning
  BY <1>12 DEF PlayFromBeginning
<1>13. CASE ReloadFromBeginning
  BY <1>10, <1>13 DEF ReloadFromBeginning
<1>14. CASE StateNext
  BY <1>14 DEF StateNext, SaveState, LoadStateWithoutMovie,
    LoadStateUnreadable, LoadStateIgnoringMovie, LoadStateReadOnly,
    LoadStateWrongTimeline, LoadStateToRecord, LoadStatePostMovie,
    movieVars, fileVars
<1>15. CASE UNCHANGED vars
  BY <1>15 DEF vars, movieVars, fileVars
<1>16. QED
  BY <1>1, <1>2, <1>3, <1>4, <1>5, <1>6, <1>7, <1>8, <1>9, <1>10, <1>11,
    <1>12, <1>13, <1>14, <1>15
  DEF Next, EditNext, MovieNext

(* Every variable of the engine keeps its kind, and an active movie has a  *)
(* file, under every operation (movie.cpp, movie_io.cpp, movie_record.cpp, *)
(* movie_playback.cpp and movie_settings.cpp).                             *)
THEOREM Typed == Spec => [](TypeOK /\ ActiveMovieHasFile)
<1>1. Init => TypeOK /\ ActiveMovieHasFile
  BY EngineAssumption, DefaultMovieType, FreeMachineType
  DEF Init, TypeOK, ActiveMovieHasFile, Active
<1>2. TypeOK /\ ActiveMovieHasFile /\ [Next]_vars
        => TypeOK' /\ ActiveMovieHasFile'
  BY TypeStep, HasFileStep
<1>3. QED
  BY <1>1, <1>2, PTL DEF Spec

(* Type correctness by itself, of all the variables of the engine.         *)
THEOREM TypeCorrect == Spec => []TypeOK
BY Typed, PTL

-----------------------------------------------------------------------------
(* The recording stream.                                                   *)

(* What is left of the stream when the current movie is stopped.           *)
LEMMA StoppedStream ==
  ASSUME NEW stop \in StoppedFiles
  PROVE  /\ movieMode # "RECORD"
              => stop.stream = osRecordingMovie /\ stop.disk = disk
         /\ movieMode = "RECORD" => stop.stream \in {"null", "failed"}
BY DEF StoppedFiles

(* The relation of stream and mode is kept by every operation.             *)
LEMMA StreamStep ==
  ASSUME StreamMatchesMode, [Next]_vars
  PROVE  StreamMatchesMode'
<1> USE DEF StreamMatchesMode
<1>1. CASE FrameNext
  BY <1>1 DEF FrameNext, PlaybackFrame, FinishPlaybackFrame, RecordFrame,
    LiveFrame, FinishedMode, fileVars
<1>2. CASE CommandNext
  BY <1>2 DEF CommandNext, CommandWhileRecording, CommandWithoutMovie,
    movieVars, fileVars
<1>3. CASE SwitchNext
  BY <1>3 DEF SwitchNext, MovieToggleReadOnly, SetRecordMode, SetMovieOptions,
    movieVars, fileVars
<1>4. CASE ToggleReadOnlyPastEnd
  BY <1>4 DEF ToggleReadOnlyPastEnd, fileVars
<1>5. CASE ToggleToRecord
  BY <1>5 DEF ToggleToRecord, RedumpWholeMovieFile, WriteMovieFile
<1>6. CASE ToggleToPlay
  BY <1>6 DEF ToggleToPlay, WriteMovieFile, CloseOrFinish, FinishedMode
<1>7. CASE InsertFrame
  BY <1>7 DEF InsertFrame, RedumpWholeMovieFile, WriteMovieFile
<1>8. CASE DeleteFrame \/ Truncate
  <2>1. PICK md : EditAtFrame(md)
    BY <1>8 DEF DeleteFrame, Truncate
  <2>2. QED
    BY <2>1 DEF EditAtFrame, WriteMovieFile, CloseOrFinish, FinishedMode
<1>9. CASE StopMovie
  BY <1>9, StoppedStream DEF StopMovie
<1>10. ASSUME NEW name, NEW readonly, LoadMovie(name, readonly)
       PROVE  StreamMatchesMode'
  <2> PICK stop \in StoppedFiles :
        /\ disk' = stop.disk
        /\ osRecordingMovie' = stop.stream
        /\ StartPlayback(name, stop.disk[name], readonly)
    BY <1>10 DEF LoadMovie
  <2>1. movieMode' \in {"PLAY", "INACTIVE"}
    BY DEF StartPlayback
  <2>2. osRecordingMovie' = stop.stream
    OBVIOUS
  <2>3. QED
    BY <2>1, <2>2, StoppedStream
<1>11. ASSUME NEW name, NEW kind, SaveMovie(name, kind)
       PROVE  StreamMatchesMode'
  BY <1>11 DEF SaveMovie
<1>12. CASE SaveMovieOpenFailed
  BY <1>12 DEF SaveMovieOpenFailed
<1>13. CASE PlayFromBeginning
  BY <1>13, StoppedStream DEF PlayFromBeginning
<1>14. CASE ReloadFromBeginning
  BY <1>10, <1>14 DEF ReloadFromBeginning
<1>15. CASE SaveState
  BY <1>15 DEF SaveState, movieVars, fileVars
<1>16. ASSUME NEW st,
              \/ LoadStateWithoutMovie(st)
              \/ LoadStateUnreadable(st)
              \/ LoadStateIgnoringMovie(st)
       PROVE  StreamMatchesMode'
  BY <1>16 DEF LoadStateWithoutMovie, LoadStateUnreadable,
    LoadStateIgnoringMovie, fileVars
<1>17. ASSUME NEW st, LoadStateReadOnly(st) \/ LoadStateWrongTimeline(st)
       PROVE  StreamMatchesMode'
  BY <1>17 DEF LoadStateReadOnly, LoadStateWrongTimeline,
    CloseRecordingForReplay, FinishedMode
<1>18. ASSUME NEW st, LoadStateToRecord(st)
       PROVE  StreamMatchesMode'
  BY <1>18 DEF LoadStateToRecord, RedumpWholeMovieFile, WriteMovieFile
<1>19. ASSUME NEW st, LoadStatePostMovie(st)
       PROVE  StreamMatchesMode'
  BY <1>19 DEF LoadStatePostMovie, WriteMovieFile, FinishedMode
<1>20. CASE UNCHANGED vars
  BY <1>20 DEF vars, movieVars, fileVars
<1>21. QED
  BY <1>1, <1>2, <1>3, <1>4, <1>5, <1>6, <1>7, <1>8, <1>9, <1>10, <1>11,
    <1>12, <1>13, <1>14, <1>15, <1>16, <1>17, <1>18, <1>19, <1>20
  DEF Next, EditNext, MovieNext, StateNext

(* Whatever the user does, and whether or not opening the file fails, the  *)
(* stream is open exactly while the engine records, unless an open failed  *)
(* (openRecordingMovie, closeRecordingMovie and every caller of            *)
(* RedumpWholeMovieFile).                                                  *)
THEOREM Stream == Spec => []StreamMatchesMode
<1>1. Init => StreamMatchesMode
  BY DEF Init, StreamMatchesMode
<1>2. StreamMatchesMode /\ [Next]_vars => StreamMatchesMode'
  BY StreamStep
<1>3. QED
  BY <1>1, <1>2, PTL DEF Spec

-----------------------------------------------------------------------------
(* The rerecord count.                                                     *)

(* A change of the records leaves the count of a movie alone.              *)
LEMMA EditKeepsCount ==
  ASSUME NEW md \in Movie, NEW s
  PROVE  /\ DOMAIN [md EXCEPT !.records = s] = DOMAIN md
         /\ [md EXCEPT !.records = s].rerecordCount = md.rerecordCount
BY DEF Movie

LEMMA RecordedKeepsCount ==
  ASSUME TypeOK, NEW r
  PROVE  Recorded(currMovieData, r).rerecordCount
           = currMovieData.rerecordCount
<1>1. currMovieData \in Movie
  BY DEF TypeOK
<1>2. CASE currFrameCounter >= Len(currMovieData.records)
  BY <1>1, <1>2, EditKeepsCount DEF Recorded
<1>3. CASE ~ currFrameCounter >= Len(currMovieData.records)
  <2>1. CASE movieRecordMode = "OVERWRITE"
    BY <1>1, <1>3, <2>1, EditKeepsCount DEF Recorded
  <2>2. CASE movieRecordMode = "INSERT"
    BY <1>1, <1>3, <2>2, EditKeepsCount DEF Recorded, InsertedAt
  <2>3. CASE movieRecordMode = "TRUNCATE"
    BY <1>1, <1>3, <2>3, EditKeepsCount DEF Recorded
  <2>4. QED
    BY <2>1, <2>2, <2>3 DEF TypeOK
<1>4. QED
  BY <1>2, <1>3

(* A counted rerecord stores the count in the movie it leaves.             *)
LEMMA CountStored ==
  ASSUME NEW md, "rerecordCount" \in DOMAIN md, IncrementRerecordCount(md)
  PROVE  currMovieData'.rerecordCount = currRerecordCount'
BY DEF IncrementRerecordCount

LEMMA EditedCountStored ==
  ASSUME NEW md \in Movie, NEW s,
         IncrementRerecordCount([md EXCEPT !.records = s])
  PROVE  currMovieData'.rerecordCount = currRerecordCount'
<1>1. "rerecordCount" \in DOMAIN md
  BY DEF Movie
<1>2. QED
  BY <1>1, EditKeepsCount, CountStored

LEMMA CountStep ==
  ASSUME TypeOK, RerecordCountKept, [Next]_vars
  PROVE  RerecordCountKept'
<1> USE DEF RerecordCountKept, Active
<1>0. currMovieData \in Movie
  BY DEF TypeOK
<1>1. CASE PlaybackFrame
  BY <1>1 DEF PlaybackFrame
<1>2. ASSUME NEW input \in Inputs,
             FinishPlaybackFrame(input) \/ LiveFrame(input)
      PROVE  RerecordCountKept'
  BY <1>2 DEF FinishPlaybackFrame, LiveFrame
<1>3. ASSUME NEW input \in Inputs, RecordFrame(input)
      PROVE  RerecordCountKept'
  BY <1>3, RecordedKeepsCount DEF RecordFrame
<1>4. CASE CommandNext
  BY <1>4 DEF CommandNext, CommandWhileRecording, CommandWithoutMovie,
    movieVars
<1>5. CASE SwitchNext
  BY <1>5 DEF SwitchNext, MovieToggleReadOnly, SetRecordMode, SetMovieOptions,
    movieVars
<1>6. CASE ToggleReadOnlyPastEnd
  BY <1>6 DEF ToggleReadOnlyPastEnd
<1>7. CASE ToggleToRecord
  BY <1>0, <1>7, IncrementType DEF ToggleToRecord
<1>8. CASE ToggleToPlay
  BY <1>8 DEF ToggleToPlay
<1>9. CASE InsertFrame
  BY <1>0, <1>9, EditedCountStored DEF InsertFrame, InsertedAt
<1>10. CASE DeleteFrame
  BY <1>0, <1>10, EditedCountStored DEF DeleteFrame, EditAtFrame, ErasedAt
<1>11. CASE Truncate
  BY <1>0, <1>11, EditedCountStored DEF Truncate, EditAtFrame, TruncatedAt
<1>12. CASE StopMovie \/ SaveMovieOpenFailed
  BY <1>12 DEF StopMovie, SaveMovieOpenFailed
<1>13. ASSUME NEW name, NEW readonly, LoadMovie(name, readonly)
       PROVE  RerecordCountKept'
  BY <1>13 DEF LoadMovie, StartPlayback
<1>14. ASSUME NEW name, NEW kind, SaveMovie(name, kind)
       PROVE  RerecordCountKept'
  BY <1>14 DEF SaveMovie, DefaultMovie
<1>15. CASE PlayFromBeginning
  BY <1>15 DEF PlayFromBeginning
<1>16. CASE ReloadFromBeginning
  BY <1>13, <1>16 DEF ReloadFromBeginning
<1>17. CASE SaveState
  BY <1>17 DEF SaveState, movieVars
<1>18. ASSUME NEW st,
              \/ LoadStateWithoutMovie(st)
              \/ LoadStateUnreadable(st)
              \/ LoadStateIgnoringMovie(st)
              \/ LoadStateReadOnly(st)
              \/ LoadStateWrongTimeline(st)
       PROVE  RerecordCountKept'
  BY <1>18 DEF LoadStateWithoutMovie, LoadStateUnreadable,
    LoadStateIgnoringMovie, LoadStateReadOnly, LoadStateWrongTimeline
<1>19. ASSUME NEW st \in States,
              LoadStateToRecord(st) \/ LoadStatePostMovie(st)
       PROVE  RerecordCountKept'
  <2>1. st.movie \in Movie
    BY <1>19, StatesType, ReadableMovie
    DEF LoadStateToRecord, LoadStatePostMovie
  <2>2. CASE LoadStateToRecord(st)
    BY <2>1, <2>2, EditedCountStored, IncrementType
    DEF LoadStateToRecord, TruncatedAt
  <2>3. CASE LoadStatePostMovie(st)
    BY <2>1, <2>3, IncrementType DEF LoadStatePostMovie
  <2>4. QED
    BY <1>19, <2>2, <2>3
<1>20. CASE UNCHANGED vars
  BY <1>20 DEF vars, movieVars
<1>21. QED
  BY <1>1, <1>2, <1>3, <1>4, <1>5, <1>6, <1>7, <1>8, <1>9, <1>10, <1>11,
    <1>12, <1>13, <1>14, <1>15, <1>16, <1>17, <1>18, <1>19, <1>20
  DEF Next, FrameNext, EditNext, MovieNext, StateNext

(* The count that FCEUMOV_GetRerecordCount shows, and the one that the     *)
(* movie is saved with, never part while a movie is active: not when a     *)
(* savestate replaces the movie, nor when another movie is loaded.         *)
THEOREM Rerecords == Spec => []RerecordCountKept
<1>1. Init => RerecordCountKept
  BY DEF Init, RerecordCountKept, Active
<1>2. TypeOK /\ RerecordCountKept /\ [Next]_vars => RerecordCountKept'
  BY CountStep
<1>3. Spec => []TypeOK
  BY Typed, PTL
<1>4. QED
  BY <1>1, <1>2, <1>3, PTL DEF Spec

-----------------------------------------------------------------------------
(* A read-only movie.                                                      *)

(* What a step may do to a movie that is read-only before and after it.    *)
MovieUntouched ==
  /\ disk' = disk
  /\ \/ currMovieData' = currMovieData
     \/ \E name \in Names, readonly \in BOOLEAN :
          StartPlayback(name, disk[name], readonly)

LEMMA ReadOnlyStep ==
  ASSUME ActiveMovieHasFile, [Next]_vars,
         movie_readonly = TRUE, movie_readonly' = TRUE, Active,
         movieMode # "RECORD"
  PROVE  MovieUntouched
<1> USE DEF MovieUntouched
<1>1. CASE FrameNext
  BY <1>1 DEF FrameNext, PlaybackFrame, FinishPlaybackFrame, RecordFrame,
    LiveFrame, fileVars
<1>2. CASE CommandNext
  BY <1>2 DEF CommandNext, CommandWhileRecording, CommandWithoutMovie,
    movieVars, fileVars
<1>3. CASE SwitchNext
  BY <1>3 DEF SwitchNext, MovieToggleReadOnly, SetRecordMode, SetMovieOptions,
    movieVars, fileVars
<1>4. CASE EditNext
  BY <1>4 DEF EditNext, ToggleReadOnlyPastEnd, ToggleToRecord, ToggleToPlay,
    InsertFrame, DeleteFrame, Truncate, EditAtFrame
<1>5. CASE StopMovie
  BY <1>5, StoppedStream DEF StopMovie
<1>6. ASSUME NEW name \in Names, NEW readonly \in BOOLEAN,
             LoadMovie(name, readonly)
      PROVE  MovieUntouched
  BY <1>6, StoppedStream DEF LoadMovie
<1>7. ASSUME NEW name, NEW kind, SaveMovie(name, kind)
      PROVE  MovieUntouched
  BY <1>7 DEF SaveMovie
<1>8. CASE SaveMovieOpenFailed
  BY <1>8, StoppedStream DEF SaveMovieOpenFailed
<1>9. CASE PlayFromBeginning
  BY <1>9, StoppedStream DEF PlayFromBeginning
<1>10. CASE ReloadFromBeginning
  BY <1>6, <1>10 DEF ReloadFromBeginning, ActiveMovieHasFile
<1>11. CASE SaveState
  BY <1>11 DEF SaveState, movieVars, fileVars
<1>12. ASSUME NEW st,
              \/ LoadStateWithoutMovie(st)
              \/ LoadStateUnreadable(st)
              \/ LoadStateIgnoringMovie(st)
              \/ LoadStateReadOnly(st)
              \/ LoadStateWrongTimeline(st)
       PROVE  MovieUntouched
  BY <1>12 DEF LoadStateWithoutMovie, LoadStateUnreadable,
    LoadStateIgnoringMovie, LoadStateReadOnly, LoadStateWrongTimeline,
    CloseRecordingForReplay, fileVars
<1>13. ASSUME NEW st, LoadStateToRecord(st) \/ LoadStatePostMovie(st)
       PROVE  MovieUntouched
  BY <1>13 DEF LoadStateToRecord, LoadStatePostMovie, ReadOnlyAfter
<1>14. CASE UNCHANGED vars
  BY <1>14 DEF vars, movieVars, fileVars
<1>15. QED
  BY <1>1, <1>2, <1>3, <1>4, <1>5, <1>6, <1>7, <1>8, <1>9, <1>10, <1>11,
    <1>12, <1>13, <1>14
  DEF Next, MovieNext, StateNext

(* No frame, edit, stop, reload or savestate writes through movie_readonly *)
(* (FCEUI_MovieInsertFrame and its like, FCEUMOV_ReadState, StopPlayback). *)
THEOREM ReadOnly == Spec => ReadOnlyKeepsMovie
<1>1. /\ ActiveMovieHasFile /\ [Next]_vars
      => [movie_readonly /\ movie_readonly' /\ Active /\ movieMode # "RECORD"
            => /\ disk' = disk
               /\ \/ currMovieData' = currMovieData
                  \/ \E name \in Names, readonly \in BOOLEAN :
                       StartPlayback(name, disk[name], readonly)]_vars
  BY ReadOnlyStep DEF MovieUntouched
<1>2. QED
  BY <1>1, Typed, PTL DEF Spec, ReadOnlyKeepsMovie

-----------------------------------------------------------------------------
(* Executed input.                                                         *)

(* Recording a frame leaves the records of the earlier frames in place.    *)
LEMMA RecordedKeepsPast ==
  ASSUME TypeOK, NEW r \in Record, NEW i \in Replayed(currMovieData)
  PROVE  /\ i \in DOMAIN Recorded(currMovieData, r).records
         /\ Recorded(currMovieData, r).records[i] = currMovieData.records[i]
<1> DEFINE recs == currMovieData.records
           f == currFrameCounter
<1>1. /\ currMovieData \in Movie /\ recs \in Seq(Record) /\ f \in Nat
      /\ i \in 1 .. f /\ i \in 1 .. Len(recs)
  BY DEF TypeOK, Movie, Replayed
<1>2. \A s : [currMovieData EXCEPT !.records = s].records = s
  BY <1>1 DEF Movie
<1>3. CASE f >= Len(recs)
  <2>1. Recorded(currMovieData, r).records = Append(recs, r)
    BY <1>2, <1>3 DEF Recorded
  <2>2. QED
    BY <1>1, <2>1
<1>4. CASE ~ f >= Len(recs)
  <2>1. f < Len(recs)
    BY <1>1, <1>4
  <2> DEFINE past == SubSeq(recs, 1, f)
  <2>2. /\ past \in Seq(Record) /\ Len(past) = f
        /\ i \in 1 .. Len(past) /\ past[i] = recs[i]
    BY <1>1, <2>1
  <2>3. CASE movieRecordMode = "OVERWRITE"
    <3>1. Recorded(currMovieData, r).records = [recs EXCEPT ![f + 1] = r]
      BY <1>2, <1>4, <2>3 DEF Recorded
    <3>2. i # f + 1
      BY <1>1
    <3>3. QED
      BY <1>1, <3>1, <3>2
  <2>4. CASE movieRecordMode = "INSERT"
    <3> DEFINE rest == SubSeq(recs, f + 1, Len(recs))
    <3>1. Recorded(currMovieData, r).records = past \o <<r>> \o rest
      BY <1>2, <1>4, <2>4 DEF Recorded, InsertedAt
    <3>2. rest \in Seq(Record)
      BY <1>1, <2>1
    <3>3. QED
      BY <2>2, <3>1, <3>2
  <2>5. CASE movieRecordMode = "TRUNCATE"
    <3>1. Recorded(currMovieData, r).records = Append(past, r)
      BY <1>2, <1>4, <2>5 DEF Recorded
    <3>2. QED
      BY <2>2, <3>1
  <2>6. QED
    BY <2>3, <2>4, <2>5 DEF TypeOK
<1>5. QED
  BY <1>3, <1>4

LEMMA CountedMoves ==
  ASSUME TypeOK, NEW md, IncrementRerecordCount(md)
  PROVE  currRerecordCount' # currRerecordCount
<1>1. currRerecordCount \in Nat
  BY DEF TypeOK
<1>2. QED
  BY <1>1 DEF IncrementRerecordCount

(* What a step that is not counted does to the executed input.             *)
PastKept ==
  /\ \A i \in Replayed(currMovieData) :
       /\ i \in DOMAIN currMovieData'.records
       /\ currMovieData'.records[i] = currMovieData.records[i]
  /\ movieMode' = "RECORD" => movieMode = "RECORD"

LEMMA CountedStep ==
  ASSUME TypeOK, [Next]_vars, Active, Active', currFrameCounter' # 0,
         currRerecordCount' = currRerecordCount
  PROVE  PastKept
<1>1. \A i \in Replayed(currMovieData) : i \in DOMAIN currMovieData.records
  BY DEF Replayed, TypeOK, Movie
<1>2. ASSUME currMovieData' = currMovieData,
             movieMode' = "RECORD" => movieMode = "RECORD"
      PROVE  PastKept
  BY <1>1, <1>2 DEF PastKept
<1>3. CASE PlaybackFrame
  BY <1>2, <1>3 DEF PlaybackFrame
<1>4. ASSUME NEW input \in Inputs,
             FinishPlaybackFrame(input) \/ LiveFrame(input)
      PROVE  PastKept
  BY <1>2, <1>4 DEF FinishPlaybackFrame, LiveFrame, FinishedMode
<1>5. ASSUME NEW input \in Inputs, RecordFrame(input)
      PROVE  PastKept
  <2>1. [commands |-> currCommand, in |-> input] \in Record
    BY DEF TypeOK, Record
  <2>2. QED
    BY <1>5, <2>1, RecordedKeepsPast DEF RecordFrame, PastKept
<1>6. CASE CommandNext
  BY <1>2, <1>6 DEF CommandNext, CommandWhileRecording, CommandWithoutMovie,
    movieVars
<1>7. CASE SwitchNext
  BY <1>2, <1>7 DEF SwitchNext, MovieToggleReadOnly, SetRecordMode,
    SetMovieOptions, movieVars
<1>8. CASE ToggleReadOnlyPastEnd
  BY <1>2, <1>8 DEF ToggleReadOnlyPastEnd
<1>9. CASE ToggleToRecord \/ InsertFrame
  BY <1>9, CountedMoves DEF ToggleToRecord, InsertFrame
<1>10. CASE DeleteFrame \/ Truncate
  BY <1>10, CountedMoves DEF DeleteFrame, Truncate, EditAtFrame
<1>11. CASE ToggleToPlay
  BY <1>2, <1>11 DEF ToggleToPlay, CloseOrFinish, FinishedMode
<1>12. CASE StopMovie \/ SaveMovieOpenFailed
  BY <1>12 DEF StopMovie, SaveMovieOpenFailed, Active
<1>13. ASSUME NEW name, NEW readonly, LoadMovie(name, readonly)
       PROVE  FALSE
  BY <1>13 DEF LoadMovie, StartPlayback, Active
<1>14. ASSUME NEW name, NEW kind, SaveMovie(name, kind)
       PROVE  FALSE
  BY <1>14 DEF SaveMovie
<1>15. CASE PlayFromBeginning
  BY <1>15 DEF PlayFromBeginning
<1>16. CASE ReloadFromBeginning
  BY <1>13, <1>16 DEF ReloadFromBeginning
<1>17. CASE SaveState
  BY <1>2, <1>17 DEF SaveState, movieVars
<1>18. ASSUME NEW st,
              \/ LoadStateWithoutMovie(st)
              \/ LoadStateUnreadable(st)
              \/ LoadStateIgnoringMovie(st)
              \/ LoadStateReadOnly(st)
              \/ LoadStateWrongTimeline(st)
       PROVE  PastKept
  BY <1>2, <1>18 DEF LoadStateWithoutMovie, LoadStateUnreadable,
    LoadStateIgnoringMovie, LoadStateReadOnly, LoadStateWrongTimeline,
    FinishedMode
<1>19. ASSUME NEW st, LoadStateToRecord(st) \/ LoadStatePostMovie(st)
       PROVE  PastKept
  BY <1>19, CountedMoves DEF LoadStateToRecord, LoadStatePostMovie
<1>20. CASE UNCHANGED vars
  BY <1>2, <1>20 DEF vars, movieVars
<1>21. QED
  BY <1>3, <1>4, <1>5, <1>6, <1>7, <1>8, <1>9, <1>10, <1>11, <1>12, <1>13,
    <1>14, <1>15, <1>16, <1>17, <1>18, <1>19, <1>20
  DEF Next, FrameNext, EditNext, MovieNext, StateNext

(* Executed input is rewritten, and a recording resumed, only under a step *)
(* that FCEUMOV_IncrementRerecordCount counts.                             *)
THEOREM Counted == Spec => RerecordsCounted
<1>1. TypeOK /\ [Next]_vars
      => [/\ Active /\ Active' /\ currFrameCounter' # 0
          /\ currRerecordCount' = currRerecordCount
          => /\ \A i \in Replayed(currMovieData) :
                  /\ i \in DOMAIN currMovieData'.records
                  /\ currMovieData'.records[i] = currMovieData.records[i]
             /\ movieMode' = "RECORD" => movieMode = "RECORD"]_vars
  BY CountedStep DEF PastKept
<1>2. QED
  BY <1>1, Typed, PTL DEF Spec, RerecordsCounted

-----------------------------------------------------------------------------
(* The machine and the movie.                                              *)

(* A record of which nothing is replayed has no commands.                  *)
LEMMA PlayedNothing ==
  ASSUME NEW r, r.commands \subseteq Commands, PlayedCommands(r) = <<>>
  PROVE  r.commands = {}
<1> DEFINE g1 == Given(r, "power")
           g2 == Given(r, "reset")
           g3 == Given(r, "fds_insert")
           g4 == Given(r, "fds_select")
           g5 == Given(r, "vs_insertcoin")
           g6 == Given(r, "vs_insertcoin2")
           g7 == Given(r, "vs_service")
<1>1. \A c \in Commands : /\ Given(r, c) \in Seq(Commands)
                          /\ c \in r.commands => Len(Given(r, c)) = 1
  BY DEF Given
<1>2. /\ g1 \in Seq(Commands) /\ g2 \in Seq(Commands)
      /\ g3 \in Seq(Commands) /\ g4 \in Seq(Commands)
      /\ g5 \in Seq(Commands) /\ g6 \in Seq(Commands)
      /\ g7 \in Seq(Commands)
  BY <1>1 DEF Commands
<1>3. g1 \o g2 \o g3 \o g4 \o g5 \o g6 \o g7 = <<>>
  BY DEF PlayedCommands
<1>4. /\ Len(g1) = 0 /\ Len(g2) = 0 /\ Len(g3) = 0 /\ Len(g4) = 0
      /\ Len(g5) = 0 /\ Len(g6) = 0 /\ Len(g7) = 0
  <2> HIDE DEF g1, g2, g3, g4, g5, g6, g7
  <2>1. Len(g1 \o g2 \o g3 \o g4 \o g5 \o g6 \o g7)
          = Len(g1) + Len(g2) + Len(g3) + Len(g4) + Len(g5) + Len(g6) + Len(g7)
    BY <1>2
  <2>2. /\ Len(g1) \in Nat /\ Len(g2) \in Nat /\ Len(g3) \in Nat
        /\ Len(g4) \in Nat /\ Len(g5) \in Nat /\ Len(g6) \in Nat
        /\ Len(g7) \in Nat
    BY <1>2
  <2>3. QED
    BY <1>3, <2>1, <2>2
<1>5. \A c \in Commands : Len(Given(r, c)) = 0
  BY <1>4 DEF Commands
<1>6. \A c \in Commands : c \notin r.commands
  BY <1>1, <1>5
<1>7. QED
  BY <1>6

(* What is replayed of a record without commands, and of one with one.     *)
LEMMA PlayedNone ==
  ASSUME NEW input
  PROVE  /\ PlayedCommands([commands |-> {}, in |-> input]) = <<>>
         /\ PlayedCommands([commands |-> {}]) = <<>>
BY DEF PlayedCommands, Given

LEMMA PlayedOne ==
  ASSUME NEW c \in Commands
  PROVE  PlayedCommands([commands |-> {c}]) = <<c>>
<1> USE DEF PlayedCommands, Given
<1>1. CASE c = "power"
  BY <1>1
<1>2. CASE c = "reset"
  BY <1>2
<1>3. CASE c = "fds_insert"
  BY <1>3
<1>4. CASE c = "fds_select"
  BY <1>4
<1>5. CASE c = "vs_insertcoin"
  BY <1>5
<1>6. CASE c = "vs_insertcoin2"
  BY <1>6
<1>7. CASE c = "vs_service"
  BY <1>7
<1>8. QED
  BY <1>1, <1>2, <1>3, <1>4, <1>5, <1>6, <1>7 DEF Commands

LEMMA PlayedSame ==
  ASSUME NEW cmds, NEW input
  PROVE  PlayedCommands([commands |-> cmds, in |-> input])
           = PlayedCommands([commands |-> cmds])
BY DEF PlayedCommands, Given

(* A frame leads from a machine that replays a movie to the next one, when *)
(* it executes what the movie has for it, or comes after its end.          *)
LEMMA ReplaysNext ==
  ASSUME NEW m \in Machine, NEW md \in Movie, NEW f \in Nat,
         NEW cmds \in Seq(Commands), NEW input,
         Replays(m, md, f),
         f + 1 <= Len(md.records)
           => Executed(m.pend \o cmds, input)
                = Executed(PlayedCommands(md.records[f + 1]),
                           md.records[f + 1].in)
  PROVE  Replays(RunFrame(m, cmds, input), md, f + 1)
<1> DEFINE step == Executed(m.pend \o cmds, input)
           next == RunFrame(m, cmds, input)
<1>1. m.hist \in Seq(Step) /\ Len(m.hist) = f /\ m.boot = StartOf(md)
  BY DEF Machine, Replays
<1>2. next.boot = m.boot /\ next.hist = Append(m.hist, step)
  BY DEF RunFrame
<1> HIDE DEF step, next
<1>3. Len(next.hist) = f + 1
  BY <1>1, <1>2
<1>4. ASSUME NEW i \in 1 .. f + 1, i <= Len(md.records)
      PROVE  next.hist[i]
               = Executed(PlayedCommands(md.records[i]), md.records[i].in)
  <2>1. CASE i = f + 1
    <3>1. next.hist[i] = step
      BY <1>1, <1>2, <2>1
    <3>2. QED
      BY <1>4, <2>1, <3>1 DEF step
  <2>2. CASE i # f + 1
    <3>1. i \in 1 .. f
      BY <2>2
    <3>2. next.hist[i] = m.hist[i]
      BY <1>1, <1>2, <3>1
    <3>3. QED
      BY <1>4, <3>1, <3>2 DEF Replays
  <2>3. QED
    BY <2>1, <2>2
<1>5. QED
  BY <1>1, <1>2, <1>3, <1>4 DEF Replays, next

(* A movie with the same start and, as far as it reaches, the same records *)
(* below the frame is replayed by the same machine.                        *)
LEMMA ReplaysSame ==
  ASSUME NEW m, NEW md, NEW other, NEW f,
         Replays(m, md, f), StartOf(other) = StartOf(md),
         \A i \in 1 .. f :
           i <= Len(other.records)
             => i <= Len(md.records) /\ other.records[i] = md.records[i]
  PROVE  Replays(m, other, f)
BY DEF Replays

(* A machine that has just been started replays any movie of that start.   *)
LEMMA ReplaysStart ==
  ASSUME NEW md
  PROVE  Replays(Started(md.kind, StartTag(md)), md, 0)
BY DEF Replays, Started, StartOf

(* Truncating, inserting and erasing at a frame keep the start of a movie  *)
(* and its records below the frame.                                        *)
KeepsBelow(md, other, f) ==
  /\ StartOf(other) = StartOf(md)
  /\ f <= Len(other.records)
  /\ \A i \in 1 .. f : other.records[i] = md.records[i]

LEMMA NewRecords ==
  ASSUME NEW md \in Movie, NEW s
  PROVE  /\ [md EXCEPT !.records = s].records = s
         /\ StartOf([md EXCEPT !.records = s]) = StartOf(md)
BY DEF Movie, StartOf, StartTag

LEMMA TruncatedBelow ==
  ASSUME NEW md \in Movie, NEW f \in 0 .. Len(md.records)
  PROVE  KeepsBelow(md, TruncatedAt(md, f), f)
<1>1. md.records \in Seq(Record)
  BY DEF Movie
<1>2. /\ TruncatedAt(md, f).records = SubSeq(md.records, 1, f)
      /\ StartOf(TruncatedAt(md, f)) = StartOf(md)
  BY NewRecords DEF TruncatedAt
<1>3. QED
  BY <1>1, <1>2 DEF KeepsBelow

LEMMA InsertedBelow ==
  ASSUME NEW md \in Movie, NEW f \in 0 .. Len(md.records), NEW r \in Record
  PROVE  /\ KeepsBelow(md, InsertedAt(md, f, r), f)
         /\ f + 1 <= Len(InsertedAt(md, f, r).records)
         /\ InsertedAt(md, f, r).records[f + 1] = r
<1> DEFINE past == SubSeq(md.records, 1, f)
           rest == SubSeq(md.records, f + 1, Len(md.records))
<1>1. md.records \in Seq(Record)
  BY DEF Movie
<1>2. /\ past \in Seq(Record) /\ rest \in Seq(Record) /\ Len(past) = f
      /\ \A i \in 1 .. f : past[i] = md.records[i]
  BY <1>1
<1>3. /\ InsertedAt(md, f, r).records = past \o <<r>> \o rest
      /\ StartOf(InsertedAt(md, f, r)) = StartOf(md)
  BY NewRecords DEF InsertedAt
<1> HIDE DEF past, rest
<1>4. QED
  BY <1>2, <1>3 DEF KeepsBelow

LEMMA ErasedBelow ==
  ASSUME NEW md \in Movie, NEW f \in 0 .. Len(md.records) - 1
  PROVE  KeepsBelow(md, ErasedAt(md, f), f)
<1> DEFINE past == SubSeq(md.records, 1, f)
           rest == SubSeq(md.records, f + 2, Len(md.records))
<1>1. md.records \in Seq(Record)
  BY DEF Movie
<1>2. /\ past \in Seq(Record) /\ rest \in Seq(Record) /\ Len(past) = f
      /\ \A i \in 1 .. f : past[i] = md.records[i]
  BY <1>1
<1>3. /\ ErasedAt(md, f).records = past \o rest
      /\ StartOf(ErasedAt(md, f)) = StartOf(md)
  BY NewRecords DEF ErasedAt
<1> HIDE DEF past, rest
<1>4. QED
  BY <1>2, <1>3 DEF KeepsBelow

(* Recording a frame inside or at the end of a movie puts the record at    *)
(* the frame, in every record mode.                                        *)
LEMMA RecordedBelow ==
  ASSUME TypeOK, currFrameCounter <= Length, NEW r \in Record
  PROVE  /\ KeepsBelow(currMovieData, Recorded(currMovieData, r),
                       currFrameCounter)
         /\ currFrameCounter + 1 <= Len(Recorded(currMovieData, r).records)
         /\ Recorded(currMovieData, r).records[currFrameCounter + 1] = r
<1> DEFINE recs == currMovieData.records
           f == currFrameCounter
           md == Recorded(currMovieData, r)
<1>1. /\ currMovieData \in Movie /\ recs \in Seq(Record) /\ f \in Nat
      /\ f \in 0 .. Len(recs)
  BY DEF TypeOK, Movie, Length
<1>2. CASE f >= Len(recs)
  <2>1. f = Len(recs)
    BY <1>1, <1>2
  <2>2. md.records = Append(recs, r) /\ StartOf(md) = StartOf(currMovieData)
    BY <1>1, <1>2, NewRecords DEF Recorded
  <2>3. QED
    BY <1>1, <2>1, <2>2 DEF KeepsBelow
<1>3. CASE ~ f >= Len(recs)
  <2>1. f < Len(recs)
    BY <1>1, <1>3
  <2>2. CASE movieRecordMode = "OVERWRITE"
    <3>1. /\ md.records = [recs EXCEPT ![f + 1] = r]
          /\ StartOf(md) = StartOf(currMovieData)
      BY <1>1, <1>3, <2>2, NewRecords DEF Recorded
    <3>2. /\ Len(md.records) = Len(recs)
          /\ \A i \in 1 .. Len(recs) :
               md.records[i] = IF i = f + 1 THEN r ELSE recs[i]
      BY <1>1, <2>1, <3>1, ExceptSeq
    <3>3. QED
      BY <1>1, <2>1, <3>1, <3>2 DEF KeepsBelow
  <2>3. CASE movieRecordMode = "INSERT"
    BY <1>1, <1>3, <2>3, InsertedBelow DEF Recorded
  <2>4. CASE movieRecordMode = "TRUNCATE"
    <3> DEFINE past == SubSeq(recs, 1, f)
    <3>1. /\ md.records = Append(past, r)
          /\ StartOf(md) = StartOf(currMovieData)
      BY <1>1, <1>3, <2>4, NewRecords DEF Recorded
    <3>2. /\ past \in Seq(Record) /\ Len(past) = f
          /\ \A i \in 1 .. f : past[i] = recs[i]
      BY <1>1
    <3> HIDE DEF past
    <3>3. QED
      BY <1>1, <3>1, <3>2 DEF KeepsBelow
  <2>5. QED
    BY <2>2, <2>3, <2>4 DEF TypeOK
<1>4. QED
  BY <1>2, <1>3

(* The rerecord count of a movie does not matter to its replay.            *)
LEMMA IncrementKeeps ==
  ASSUME NEW md \in Movie, IncrementRerecordCount(md)
  PROVE  /\ currMovieData'.records = md.records
         /\ StartOf(currMovieData') = StartOf(md)
BY DEF IncrementRerecordCount, Movie, StartOf, StartTag

(* A savestate of this build holds no readable movie (MovieData::dump).    *)
SlotUnreadable == slot # NoState => ~Readable(slot)

LEMMA SlotStep ==
  ASSUME SlotUnreadable, [Next]_vars
  PROVE  SlotUnreadable'
<1>1. CASE SaveState
  BY <1>1 DEF SaveState, SlotUnreadable, Readable, Dump
<1>2. CASE UNCHANGED slot
  BY <1>2 DEF SlotUnreadable
<1>3. CASE FrameNext \/ CommandNext \/ SwitchNext \/ EditNext
  BY <1>2, <1>3 DEF FrameNext, CommandNext, SwitchNext, EditNext,
    PlaybackFrame, FinishPlaybackFrame, RecordFrame, LiveFrame,
    CommandWhileRecording, CommandWithoutMovie, MovieToggleReadOnly,
    SetRecordMode, SetMovieOptions, ToggleReadOnlyPastEnd, ToggleToRecord,
    ToggleToPlay, InsertFrame, DeleteFrame, Truncate, EditAtFrame
<1>4. CASE MovieNext
  BY <1>2, <1>4 DEF MovieNext, StopMovie, PlayFromBeginning,
    ReloadFromBeginning, SaveMovieOpenFailed, LoadMovie, SaveMovie
<1>5. CASE StateNext
  BY <1>1, <1>2, <1>5 DEF StateNext, LoadStateWithoutMovie,
    LoadStateUnreadable, LoadStateIgnoringMovie, LoadStateReadOnly,
    LoadStateWrongTimeline, LoadStateToRecord, LoadStatePostMovie
<1>6. QED
  BY <1>2, <1>3, <1>4, <1>5 DEF Next, vars

(* What a readable savestate holds.                                        *)
LEMMA FaithfulState ==
  ASSUME FaithfulStates, TypeOK, SlotUnreadable, NEW st \in States,
         Readable(st)
  PROVE  /\ st.movie \in Movie /\ st.machine \in Machine
         /\ StateFrame(st) \in Nat
         /\ Replays(st.machine, st.movie, StateFrame(st))
         /\ st.machine.pend = <<>>
<1>1. st \in ForeignStates
  BY DEF States, SlotUnreadable
<1>2. /\ st.frame # NoFrame
      /\ Replays(st.machine, st.movie, st.frame)
      /\ st.machine.pend = <<>>
  BY <1>1 DEF FaithfulStates
<1>3. StateFrame(st) = st.frame
  BY <1>2 DEF StateFrame
<1>4. QED
  BY <1>2, <1>3, StatesType, ReadableMovie

(* A step that changes nothing the replay depends on keeps it; so does one *)
(* that ends the movie.                                                    *)
LEMMA SyncUnchanged ==
  ASSUME InSync,
         UNCHANGED <<movieMode, machine, currMovieData, currFrameCounter,
                     currCommand>>
  PROVE  InSync'
BY DEF InSync, Active, Length

LEMMA SyncClosed ==
  ASSUME movieMode' = "INACTIVE"
  PROVE  InSync'
BY DEF InSync, Active

(* Frames.                                                                 *)
LEMMA SyncPlaybackFrame ==
  ASSUME TypeOK, InSync, PlaybackFrame
  PROVE  InSync'
<1> DEFINE mr == currMovieData.records[currFrameCounter + 1]
<1>1. /\ machine \in Machine /\ currMovieData \in Movie
      /\ currFrameCounter \in Nat
  BY DEF TypeOK
<1>2. /\ Replays(machine, currMovieData, currFrameCounter)
      /\ machine.pend = <<>>
  BY DEF InSync, PlaybackFrame, Active
<1>3. PlayedCommands(mr) \in Seq(Commands)
  BY PlayedType
<1>4. machine.pend \o PlayedCommands(mr) = PlayedCommands(mr)
  BY <1>2, <1>3
<1>5. Replays(RunFrame(machine, PlayedCommands(mr), mr.in), currMovieData,
              currFrameCounter + 1)
  BY <1>1, <1>2, <1>3, <1>4, ReplaysNext
<1>6. /\ machine' = RunFrame(machine, PlayedCommands(mr), mr.in)
      /\ currFrameCounter' = currFrameCounter + 1
      /\ currMovieData' = currMovieData /\ movieMode' = "PLAY"
      /\ machine'.pend = <<>>
  BY DEF PlaybackFrame, NextFrame, RunFrame
<1>7. ~ currFrameCounter' > Len(currMovieData'.records)
  BY <1>1, <1>6 DEF PlaybackFrame, Length, Movie
<1>8. QED
  BY <1>5, <1>6, <1>7 DEF InSync, Length

(* The frame after the last one of the movie is its user's.                *)
LEMMA SyncLiveFrame ==
  ASSUME TypeOK, InSync, NEW input \in Inputs, currFrameCounter >= Length,
         movieMode \in {"PLAY", "FINISHED"},
         movieMode' \in {"INACTIVE", "FINISHED"},
         machine' = Tracked(RunFrame(machine, <<>>, input)),
         currFrameCounter' = currFrameCounter + 1,
         currMovieData' = currMovieData
  PROVE  InSync'
<1>1. CASE movieMode' = "INACTIVE"
  BY <1>1, SyncClosed
<1>2. CASE movieMode' = "FINISHED"
  <2>1. /\ machine \in Machine /\ currMovieData \in Movie
        /\ currFrameCounter \in Nat /\ Length \in Nat
    BY DEF TypeOK, Movie, Length
  <2>2. Replays(machine, currMovieData, currFrameCounter)
    BY DEF InSync, Active
  <2>3. ~ currFrameCounter + 1 <= Length /\ <<>> \in Seq(Commands)
    BY <2>1
  <2>4. Replays(RunFrame(machine, <<>>, input), currMovieData,
                currFrameCounter + 1)
    BY <2>1, <2>2, <2>3, ReplaysNext DEF Length
  <2>5. machine' = RunFrame(machine, <<>>, input) /\ machine'.pend = <<>>
    BY <1>2 DEF Tracked, RunFrame
  <2>6. QED
    BY <1>2, <2>4, <2>5 DEF InSync
<1>3. QED
  BY <1>1, <1>2

LEMMA SyncRecordFrame ==
  ASSUME TypeOK, TypeOK', InSync, NEW input \in Inputs, RecordFrame(input)
  PROVE  InSync'
<1> DEFINE r == [commands |-> currCommand, in |-> input]
           f == currFrameCounter
<1>1. /\ machine \in Machine /\ currMovieData \in Movie /\ f \in Nat
      /\ r \in Record /\ currMovieData' \in Movie
      /\ machine.pend \in Seq(Commands) /\ <<>> \in Seq(Commands)
  BY DEF TypeOK, Record, Machine
<1>2. /\ Replays(machine, currMovieData, f)
      /\ f <= Length
      /\ machine.pend = PlayedCommands(r)
  BY <1>1, PlayedSame DEF InSync, Active, RecordFrame, TypeOK, Length, Movie
<1>3. /\ currMovieData' = Recorded(currMovieData, r)
      /\ machine' = RunFrame(machine, <<>>, input)
      /\ f' = f + 1 /\ movieMode' = "RECORD" /\ currCommand' = {}
      /\ machine'.pend = <<>>
  BY DEF RecordFrame, NextFrame, RunFrame
<1>4. /\ KeepsBelow(currMovieData, currMovieData', f)
      /\ f + 1 <= Len(currMovieData'.records)
      /\ currMovieData'.records[f + 1] = r
  BY <1>1, <1>2, <1>3, RecordedBelow
<1>5. Replays(machine, currMovieData', f)
  <2>1. \A i \in 1 .. f : i <= Len(currMovieData.records)
    BY <1>1, <1>2 DEF Length, Movie
  <2>2. QED
    BY <1>2, <1>4, <2>1, ReplaysSame DEF KeepsBelow
<1>6. Executed(machine.pend \o <<>>, input) = Executed(PlayedCommands(r), r.in)
  BY <1>1, <1>2
<1>7. Replays(machine', currMovieData', f')
  BY <1>1, <1>3, <1>4, <1>5, <1>6, ReplaysNext
<1>8. ~ f' > Len(currMovieData'.records)
  BY <1>1, <1>3, <1>4 DEF Movie
<1>9. PlayedCommands([commands |-> currCommand']) = <<>>
  BY <1>3, PlayedNone
<1>10. QED
  BY <1>3, <1>7, <1>8, <1>9 DEF InSync, Length

(* A command is executed at once and staged: the record that follows will  *)
(* replay it, when it is the only one since the last frame.                *)
LEMMA SyncCommand ==
  ASSUME TypeOK, InSync, NEW c \in Commands, CommandWhileRecording(c)
  PROVE  InSync' \/ StagedCommandsStale
<1>1. /\ machine' = [machine EXCEPT !.pend = Append(@, c)]
      /\ currCommand' = currCommand \cup {c}
      /\ UNCHANGED <<movieMode, currMovieData, currFrameCounter>>
      /\ movieMode = "RECORD"
  BY DEF CommandWhileRecording, movieVars
<1>2. /\ machine.pend \in Seq(Commands)
      /\ machine'.pend = Append(machine.pend, c)
      /\ machine'.hist = machine.hist /\ machine'.boot = machine.boot
  BY <1>1 DEF TypeOK, Machine
<1>3. CASE c \in currCommand \/ machine.pend # <<>>
  <2>1. currCommand' # {} /\ (currCommand' = currCommand \/ machine.pend # <<>>)
    BY <1>1, <1>3
  <2>2. machine.pend # <<>> => Len(machine'.pend) > 1
    BY <1>2
  <2>3. QED
    BY <1>1, <2>1, <2>2 DEF StagedCommandsStale
<1>4. CASE machine.pend = <<>>
  <2>1. [commands |-> currCommand].commands \subseteq Commands
    BY DEF TypeOK
  <2>2. PlayedCommands([commands |-> currCommand]) = <<>>
    BY <1>1, <1>4 DEF InSync, Active
  <2>3. [commands |-> currCommand].commands = {}
    BY <2>1, <2>2, PlayedNothing
  <2>4. currCommand' = {c} /\ machine'.pend = <<c>>
    BY <1>1, <1>2, <1>4, <2>3
  <2>5. Replays(machine', currMovieData', currFrameCounter')
    BY <1>1, <1>2 DEF InSync, Active, Replays
  <2>6. QED
    BY <1>1, <2>4, <2>5, PlayedOne DEF InSync, Active, Length
<1>5. QED
  BY <1>3, <1>4

(* Edits and toggles: the machine stays, and so do the start of the movie  *)
(* and the records it has executed.                                        *)
LEMMA SyncEdited ==
  ASSUME TypeOK, InSync, Active, currFrameCounter <= Length, NEW md,
         KeepsBelow(currMovieData, md, currFrameCounter),
         Len(md.records) \in Nat,
         currMovieData'.records = md.records,
         StartOf(currMovieData') = StartOf(md),
         currFrameCounter' = currFrameCounter,
         movieMode' # "INACTIVE"
           => /\ machine' = machine
              /\ machine.pend = IF movieMode' = "RECORD"
                                THEN PlayedCommands([commands |-> currCommand'])
                                ELSE <<>>
  PROVE  InSync'
<1>1. CASE movieMode' = "INACTIVE"
  BY <1>1, SyncClosed
<1>2. CASE movieMode' # "INACTIVE"
  <2>1. /\ currFrameCounter \in Nat
        /\ Replays(machine, currMovieData, currFrameCounter)
    BY DEF TypeOK, InSync
  <2>2. \A i \in 1 .. currFrameCounter : i <= Len(currMovieData.records)
    BY <2>1 DEF Length, TypeOK, Movie
  <2>3. Replays(machine, currMovieData', currFrameCounter)
    BY <2>1, <2>2, ReplaysSame DEF KeepsBelow
  <2>4. ~ currFrameCounter > Len(md.records)
    BY <2>1 DEF KeepsBelow
  <2>5. QED
    BY <1>2, <2>3, <2>4 DEF InSync, Length
<1>3. QED
  BY <1>1, <1>2

(* Staged commands that a toggle or a load leaves behind are stale; when   *)
(* there are none the machine has none to replay either.                   *)
LEMMA NotStaged ==
  ASSUME InSync, Active, UNCHANGED currCommand,
         "RECORD" \in {movieMode, movieMode'}, ~StagedCommandsStale
  PROVE  /\ currCommand' = {} /\ machine.pend = <<>>
         /\ PlayedCommands([commands |-> currCommand']) = <<>>
<1>1. currCommand' = {} /\ currCommand = {}
  BY DEF StagedCommandsStale
<1>2. PlayedCommands([commands |-> currCommand']) = <<>>
  BY <1>1, PlayedNone
<1>3. QED
  BY <1>1, <1>2 DEF InSync

LEMMA SyncToggle ==
  ASSUME TypeOK, InSync, ToggleToRecord \/ ToggleToPlay
  PROVE  InSync' \/ StagedCommandsStale
<1> SUFFICES ASSUME ~StagedCommandsStale PROVE InSync'
  OBVIOUS
<1>1. /\ currMovieData \in Movie /\ Len(currMovieData.records) \in Nat
      /\ Active /\ currFrameCounter <= Length
      /\ currFrameCounter' = currFrameCounter
  <2>1. currMovieData \in Movie /\ Len(currMovieData.records) \in Nat
    BY DEF TypeOK, Movie
  <2>2. CASE ToggleToRecord
    BY <2>1, <2>2 DEF Active, ToggleToRecord
  <2>3. CASE ToggleToPlay
    BY <2>1, <2>3 DEF Active, ToggleToPlay
  <2>4. QED
    BY <2>2, <2>3
<1>2. KeepsBelow(currMovieData, currMovieData, currFrameCounter)
  BY <1>1 DEF KeepsBelow, Length
<1>3. /\ machine.pend = <<>>
      /\ PlayedCommands([commands |-> currCommand']) = <<>>
  BY <1>1, NotStaged DEF ToggleToRecord, ToggleToPlay
<1>4. /\ currMovieData'.records = currMovieData.records
      /\ StartOf(currMovieData') = StartOf(currMovieData)
  BY <1>1, IncrementKeeps DEF ToggleToRecord, ToggleToPlay
<1>5. movieMode' # "INACTIVE" => machine' = machine
  BY DEF ToggleToRecord, ToggleToPlay, Tracked
<1>6. QED
  BY <1>1, <1>2, <1>3, <1>4, <1>5, SyncEdited

LEMMA SyncInsertFrame ==
  ASSUME TypeOK, InSync, InsertFrame
  PROVE  InSync'
<1> DEFINE md == InsertedAt(currMovieData, currFrameCounter, BlankRecord)
<1>1. /\ currMovieData \in Movie /\ BlankRecord \in Record
      /\ currFrameCounter \in 0 .. Len(currMovieData.records)
  BY EngineAssumption
  DEF TypeOK, Movie, InsertFrame, Length, BlankRecord, Record
<1>2. /\ md \in Movie /\ Len(md.records) \in Nat
      /\ KeepsBelow(currMovieData, md, currFrameCounter)
  BY <1>1, InsertedMovie, InsertedBelow DEF Movie
<1>3. /\ currMovieData'.records = md.records
      /\ StartOf(currMovieData') = StartOf(md)
  BY <1>2, IncrementKeeps DEF InsertFrame
<1>4. /\ Active /\ currFrameCounter <= Length
      /\ UNCHANGED <<currFrameCounter, movieMode, machine, currCommand>>
  BY DEF InsertFrame
<1>5. machine.pend = IF movieMode' = "RECORD"
                     THEN PlayedCommands([commands |-> currCommand'])
                     ELSE <<>>
  BY <1>4 DEF InSync
<1> HIDE DEF md
<1>6. QED
  BY <1>2, <1>3, <1>4, <1>5, SyncEdited

LEMMA SyncEditAtFrame ==
  ASSUME TypeOK, InSync, NEW md \in Movie, EditAtFrame(md),
         KeepsBelow(currMovieData, md, currFrameCounter)
  PROVE  InSync'
<1>1. /\ Active /\ currFrameCounter <= Length
      /\ UNCHANGED <<currFrameCounter, currCommand>>
      /\ movieMode' # "INACTIVE" => machine' = machine
      /\ movieMode' # movieMode
           => movieMode # "RECORD" /\ movieMode' # "RECORD"
  BY DEF EditAtFrame, Active, Tracked, CloseOrFinish, FinishedMode, TypeOK,
    Movie, Length
<1>2. /\ currMovieData'.records = md.records
      /\ StartOf(currMovieData') = StartOf(md)
  BY IncrementKeeps DEF EditAtFrame
<1>3. machine.pend = IF movieMode' = "RECORD"
                     THEN PlayedCommands([commands |-> currCommand'])
                     ELSE <<>>
  BY <1>1 DEF InSync
<1>4. Len(md.records) \in Nat
  BY DEF Movie
<1>5. QED
  BY <1>1, <1>2, <1>3, <1>4, SyncEdited

LEMMA SyncEdit ==
  ASSUME TypeOK, InSync, DeleteFrame \/ Truncate
  PROVE  InSync'
<1>1. /\ currMovieData \in Movie
      /\ currFrameCounter \in 0 .. Len(currMovieData.records) - 1
      /\ currFrameCounter \in 0 .. Len(currMovieData.records)
  BY DEF TypeOK, Movie, DeleteFrame, Truncate, EditAtFrame, Length
<1>2. CASE DeleteFrame
  BY <1>1, <1>2, ErasedMovie, ErasedBelow, SyncEditAtFrame DEF DeleteFrame
<1>3. CASE Truncate
  BY <1>1, <1>3, TruncatedMovie, TruncatedBelow, SyncEditAtFrame DEF Truncate
<1>4. QED
  BY <1>2, <1>3

(* A movie that starts: its machine has been started and has executed no   *)
(* frame.                                                                  *)
LEMMA SyncStarted ==
  ASSUME Len(currMovieData'.records) \in Nat,
         machine' = Started(currMovieData'.kind, StartTag(currMovieData')),
         currFrameCounter' = 0,
         \/ movieMode' = "PLAY"
         \/ movieMode' = "RECORD" /\ currCommand' = {}
  PROVE  InSync'
<1>1. Replays(machine', currMovieData', 0)
  BY ReplaysStart
<1>2. machine'.pend = <<>>
  BY DEF Started
<1>3. ~ 0 > Len(currMovieData'.records)
  OBVIOUS
<1>4. CASE movieMode' = "PLAY"
  BY <1>1, <1>2, <1>3, <1>4 DEF InSync, Length
<1>5. CASE movieMode' = "RECORD" /\ currCommand' = {}
  <2>1. PlayedCommands([commands |-> currCommand']) = <<>>
    BY <1>5, PlayedNone
  <2>2. QED
    BY <1>1, <1>2, <1>3, <1>5, <2>1 DEF InSync, Length
<1>6. QED
  BY <1>4, <1>5

LEMMA SyncLoadMovie ==
  ASSUME TypeOK, NEW name \in Names, NEW readonly, LoadMovie(name, readonly)
  PROVE  InSync'
<1> PICK stop \in StoppedFiles : StartPlayback(name, stop.disk[name], readonly)
  BY DEF LoadMovie
<1> DEFINE content == stop.disk[name]
           md == IF content = Absent THEN DefaultMovie ELSE LoadFM2(content)
<1>1. CASE content = Absent \/ md.kind = "unfit"
  BY <1>1, SyncClosed DEF StartPlayback
<1>2. CASE ~(content = Absent \/ md.kind = "unfit")
  <2>1. md \in Movie
    BY <1>2, StoppedFilesType, DefaultMovieType DEF LoadFM2
  <2>2. Len(md.records) \in Nat
    BY <2>1 DEF Movie
  <2>3. /\ currMovieData' = md /\ machine' = Started(md.kind, StartTag(md))
        /\ currFrameCounter' = 0 /\ movieMode' = "PLAY"
    BY <1>2 DEF StartPlayback
  <2> HIDE DEF md
  <2>4. QED
    BY <2>2, <2>3, SyncStarted
<1>3. QED
  BY <1>1, <1>2

LEMMA SyncSaveMovie ==
  ASSUME NEW name, NEW kind \in Kinds, SaveMovie(name, kind)
  PROVE  InSync' \/ ReseededAtStart
<1> DEFINE md == [DefaultMovie EXCEPT !.kind = kind, !.seed = RAMInitSeed,
                                      !.guid = NewGuid]
<1>1. /\ currMovieData' = md /\ movieMode' = "RECORD" /\ currCommand' = {}
      /\ currFrameCounter' = 0
  BY DEF SaveMovie
<1>2. /\ md.kind = kind /\ md.seed = RAMInitSeed /\ md.guid = NewGuid
      /\ Len(md.records) \in Nat
  BY DEF DefaultMovie
<1>3. CASE kind = "battery" /\ RAMInitSeed' # RAMInitSeed
  BY <1>1, <1>2, <1>3 DEF ReseededAtStart
<1>4. CASE ~(kind = "battery" /\ RAMInitSeed' # RAMInitSeed)
  <2>1. machine' = Started(md.kind, StartTag(md))
    BY <1>2, <1>4 DEF SaveMovie, StartTag
  <2> HIDE DEF md
  <2>2. QED
    BY <1>1, <1>2, <2>1, SyncStarted
<1>5. QED
  BY <1>3, <1>4

LEMMA SyncPlayFromBeginning ==
  ASSUME TypeOK, InSync, PlayFromBeginning
  PROVE  InSync' \/ OtherPowerOn
<1>1. /\ currMovieData' = currMovieData /\ currFrameCounter' = 0
      /\ movieMode' = "PLAY" /\ machine' = Started("clean", RAMInitSeed)
      /\ currMovieData.kind # "state" /\ Active
  BY DEF PlayFromBeginning
<1>2. CASE currMovieData.kind = "battery" \/ currMovieData.seed # RAMInitSeed
  BY <1>1, <1>2 DEF OtherPowerOn
<1>3. CASE ~(currMovieData.kind = "battery" \/ currMovieData.seed # RAMInitSeed)
  <2>1. /\ machine.boot.kind = currMovieData.kind
        /\ machine.boot.kind \in Kinds \cup {"free"}
        /\ currMovieData.kind \in Kinds \cup {"unfit"}
        /\ Len(currMovieData.records) \in Nat
    BY <1>1 DEF InSync, Replays, StartOf, TypeOK, Machine, Boot, Movie
  <2>2. currMovieData.kind = "clean"
    BY <1>1, <1>3, <2>1 DEF Kinds
  <2>3. machine' = Started(currMovieData.kind, StartTag(currMovieData))
    BY <1>1, <1>3, <2>2 DEF StartTag
  <2>4. QED
    BY <1>1, <2>1, <2>3, SyncStarted
<1>4. QED
  BY <1>2, <1>3

(* Savestates.                                                             *)
LEMMA SyncLoadReadOnly ==
  ASSUME FaithfulStates, TypeOK, SlotUnreadable, InSync, NEW st \in States,
         LoadStateReadOnly(st)
  PROVE  InSync' \/ OtherStartLoaded
<1> DEFINE f == StateFrame(st)
<1>1. /\ Readable(st) /\ StateFitsMovie(st)
      /\ movieMode' = IF f < Length THEN "PLAY" ELSE FinishedMode
      /\ machine' = Tracked(st.machine) /\ currFrameCounter' = f
      /\ currMovieData' = currMovieData
  BY DEF LoadStateReadOnly
<1>2. /\ st.movie \in Movie /\ f \in Nat
      /\ Replays(st.machine, st.movie, f) /\ st.machine.pend = <<>>
  BY <1>1, FaithfulState
<1>3. CASE movieMode' = "INACTIVE"
  BY <1>3, SyncClosed
<1>4. CASE /\ movieMode' # "INACTIVE"
           /\ StartOf(st.movie) # StartOf(currMovieData)
  <2>1. machine' = st.machine
    BY <1>1, <1>4 DEF Tracked
  <2>2. QED
    BY <1>1, <1>4, <2>1 DEF OtherStartLoaded
<1>5. CASE /\ movieMode' # "INACTIVE"
           /\ StartOf(st.movie) = StartOf(currMovieData)
  <2>1. /\ Len(st.movie.records) \in Nat
        /\ Len(currMovieData.records) \in Nat
    BY <1>2 DEF TypeOK, Movie
  <2>2. ASSUME NEW i \in 1 .. f, i <= Len(currMovieData.records)
        PROVE  /\ i <= Len(st.movie.records)
               /\ currMovieData.records[i] = st.movie.records[i]
    <3>1. i <= Len(st.movie.records)
      BY <1>1, <1>2, <2>1, <2>2 DEF StateFitsMovie, Length
    <3>2. QED
      BY <1>1, <2>2, <3>1 DEF StateFitsMovie, SameTimeline
  <2>3. Replays(st.machine, currMovieData, f)
    BY <1>2, <1>5, <2>2, ReplaysSame
  <2>4. machine' = st.machine
    BY <1>1, <1>5 DEF Tracked
  <2>5. /\ movieMode' # "RECORD"
        /\ currFrameCounter' > Length => movieMode' = "FINISHED"
    BY <1>1, <1>2, <1>5, <2>1 DEF FinishedMode, Length
  <2>6. QED
    BY <1>1, <1>2, <2>3, <2>4, <2>5 DEF InSync, Length
<1>6. QED
  BY <1>3, <1>4, <1>5

(* A load that is refused leaves the machine and the movie; the recording  *)
(* it has closed leaves its staged commands.                               *)
LEMMA SyncWrongTimeline ==
  ASSUME TypeOK, InSync, NEW st \in States, LoadStateWrongTimeline(st)
  PROVE  InSync' \/ StagedCommandsStale
<1> SUFFICES ASSUME ~StagedCommandsStale PROVE InSync'
  OBVIOUS
<1>1. /\ UNCHANGED <<machine, currMovieData, currFrameCounter, currCommand>>
      /\ movieMode' = IF movieMode = "RECORD" THEN "PLAY" ELSE movieMode
      /\ Active
  BY DEF LoadStateWrongTimeline
<1>2. CASE movieMode # "RECORD"
  BY <1>1, <1>2, SyncUnchanged
<1>3. CASE movieMode = "RECORD"
  <2>1. machine.pend = <<>>
    BY <1>1, <1>3, NotStaged
  <2>2. QED
    BY <1>1, <1>3, <2>1 DEF InSync, Length
<1>4. QED
  BY <1>2, <1>3

LEMMA SyncLoadToRecord ==
  ASSUME FaithfulStates, TypeOK, SlotUnreadable, InSync, NEW st \in States,
         LoadStateToRecord(st)
  PROVE  InSync' \/ StagedCommandsStale
<1> SUFFICES ASSUME ~StagedCommandsStale PROVE InSync'
  OBVIOUS
<1> DEFINE f == StateFrame(st)
           md == IF fullSaveStateLoads THEN st.movie
                                       ELSE TruncatedAt(st.movie, f)
<1>1. /\ Readable(st) /\ Active /\ f <= Len(st.movie.records)
      /\ movieMode' = "RECORD" /\ IncrementRerecordCount(md)
      /\ machine' = st.machine /\ currFrameCounter' = f
      /\ UNCHANGED currCommand
  BY DEF LoadStateToRecord
<1>2. /\ st.movie \in Movie /\ f \in Nat
      /\ Replays(st.machine, st.movie, f) /\ st.machine.pend = <<>>
  BY <1>1, FaithfulState
<1>3. f \in 0 .. Len(st.movie.records)
  BY <1>1, <1>2 DEF Movie
<1>4. md \in Movie /\ KeepsBelow(st.movie, md, f)
  BY <1>2, <1>3, TruncatedMovie, TruncatedBelow DEF KeepsBelow
<1>5. /\ currMovieData'.records = md.records
      /\ StartOf(currMovieData') = StartOf(md)
  BY <1>1, <1>4, IncrementKeeps
<1>6. Replays(st.machine, currMovieData', f)
  <2>1. \A i \in 1 .. f : i <= Len(st.movie.records)
    BY <1>2, <1>3
  <2>2. QED
    BY <1>2, <1>4, <1>5, <2>1, ReplaysSame DEF KeepsBelow
<1>7. ~ f > Len(currMovieData'.records)
  BY <1>2, <1>4, <1>5 DEF KeepsBelow, Movie
<1>8. PlayedCommands([commands |-> currCommand']) = <<>>
  BY <1>1, NotStaged
<1>9. QED
  BY <1>1, <1>2, <1>6, <1>7, <1>8 DEF InSync, Length

LEMMA SyncLoadPostMovie ==
  ASSUME FaithfulStates, TypeOK, SlotUnreadable, NEW st \in States,
         LoadStatePostMovie(st)
  PROVE  InSync'
<1> DEFINE f == StateFrame(st)
<1>1. /\ Readable(st) /\ movieMode' = FinishedMode
      /\ IncrementRerecordCount(st.movie)
      /\ machine' = Tracked(st.machine) /\ currFrameCounter' = f
  BY DEF LoadStatePostMovie
<1>2. /\ st.movie \in Movie
      /\ Replays(st.machine, st.movie, f) /\ st.machine.pend = <<>>
  BY <1>1, FaithfulState
<1>3. /\ currMovieData'.records = st.movie.records
      /\ StartOf(currMovieData') = StartOf(st.movie)
  BY <1>1, <1>2, IncrementKeeps
<1>4. Replays(st.machine, currMovieData', f)
  BY <1>2, <1>3, ReplaysSame
<1>5. CASE movieMode' = "INACTIVE"
  BY <1>5, SyncClosed
<1>6. CASE movieMode' = "FINISHED"
  <2>1. machine' = st.machine
    BY <1>1, <1>6 DEF Tracked
  <2>2. QED
    BY <1>1, <1>2, <1>4, <1>6, <2>1 DEF InSync
<1>7. QED
  BY <1>1, <1>5, <1>6 DEF FinishedMode

LEMMA SyncStep ==
  ASSUME FaithfulStates, TypeOK, TypeOK', ActiveMovieHasFile, SlotUnreadable,
         InSync, [Next]_vars
  PROVE  InSync' \/ MayDrift
<1> USE DEF MayDrift
<1>1. CASE FrameNext
  <2>1. CASE PlaybackFrame
    BY <2>1, SyncPlaybackFrame
  <2>2. ASSUME NEW input \in Inputs, FinishPlaybackFrame(input)
        PROVE  InSync'
    BY <2>2, SyncLiveFrame DEF FinishPlaybackFrame, NextFrame, FinishedMode
  <2>3. ASSUME NEW input \in Inputs, RecordFrame(input)
        PROVE  InSync'
    BY <2>3, SyncRecordFrame
  <2>4. ASSUME NEW input \in Inputs, LiveFrame(input)
        PROVE  InSync' \/ MayDrift
    <3>1. CASE movieMode = "INACTIVE"
      BY <2>4, <3>1, SyncClosed DEF LiveFrame
    <3>2. CASE movieMode = "FINISHED" /\ currFrameCounter < Length
      BY <3>2 DEF FinishedInsideMovie
    <3>3. CASE movieMode = "FINISHED" /\ ~ currFrameCounter < Length
      <4>1. currFrameCounter >= Length
        BY <3>3 DEF TypeOK, Movie, Length
      <4>2. QED
        BY <2>4, <3>3, <4>1, SyncLiveFrame DEF LiveFrame, NextFrame
    <3>4. QED
      BY <2>4, <3>1, <3>2, <3>3 DEF LiveFrame
  <2>5. QED
    BY <1>1, <2>1, <2>2, <2>3, <2>4 DEF FrameNext
<1>2. CASE CommandNext
  <2>1. ASSUME NEW c \in UserCommands, CommandWhileRecording(c)
        PROVE  InSync' \/ MayDrift
    BY <2>1, EngineAssumption, SyncCommand
  <2>2. ASSUME NEW c \in UserCommands, CommandWithoutMovie(c)
        PROVE  InSync'
    BY <2>2, SyncClosed DEF CommandWithoutMovie
  <2>3. QED
    BY <1>2, <2>1, <2>2 DEF CommandNext
<1>3. CASE SwitchNext
  BY <1>3, SyncUnchanged DEF SwitchNext, MovieToggleReadOnly, SetRecordMode,
    SetMovieOptions, movieVars
<1>4. CASE EditNext
  BY <1>4, SyncUnchanged, SyncToggle, SyncInsertFrame, SyncEdit
  DEF EditNext, ToggleReadOnlyPastEnd
<1>5. CASE MovieNext
  <2>1. CASE StopMovie \/ SaveMovieOpenFailed
    BY <2>1, SyncClosed DEF StopMovie, SaveMovieOpenFailed
  <2>2. CASE ReloadFromBeginning
    BY <2>2, SyncLoadMovie DEF ReloadFromBeginning, ActiveMovieHasFile
  <2>3. QED
    BY <1>5, <2>1, <2>2, SyncPlayFromBeginning, SyncLoadMovie, SyncSaveMovie
    DEF MovieNext
<1>6. CASE StateNext
  <2>1. CASE SaveState
    BY <2>1, SyncUnchanged DEF SaveState, movieVars
  <2>2. ASSUME NEW st \in States, LoadStateWithoutMovie(st)
        PROVE  InSync'
    BY <2>2, SyncClosed DEF LoadStateWithoutMovie, Active, TypeOK
  <2>3. ASSUME NEW st \in States, LoadStateUnreadable(st)
        PROVE  InSync'
    BY <2>3, SyncUnchanged DEF LoadStateUnreadable
  <2>4. ASSUME NEW st \in States, LoadStateIgnoringMovie(st)
        PROVE  ForeignMachineLoaded
    BY <2>4 DEF LoadStateIgnoringMovie, ForeignMachineLoaded, Readable
  <2>5. QED
    BY <1>6, <2>1, <2>2, <2>3, <2>4, SyncLoadReadOnly, SyncWrongTimeline,
      SyncLoadToRecord, SyncLoadPostMovie
    DEF StateNext
<1>7. CASE UNCHANGED vars
  BY <1>7, SyncUnchanged DEF vars, movieVars
<1>8. QED
  BY <1>1, <1>2, <1>3, <1>4, <1>5, <1>6, <1>7 DEF Next

LEMMA Unreadable == Spec => []SlotUnreadable
<1>1. Init => SlotUnreadable
  BY DEF Init, SlotUnreadable
<1>2. QED
  BY <1>1, SlotStep, PTL DEF Spec

(* When the savestates of other builds are faithful, no operation of the   *)
(* engine but the six that MayDrift names separates the machine from the   *)
(* movie: every frame, edit, toggle, start and load keeps them together    *)
(* (FCEUMOV_AddInputState, FCEUI_MovieToggleRecording, FCEUMOV_ReadState). *)
THEOREM Sync ==
  ASSUME FaithfulStates
  PROVE  Spec => SyncSteps
<1>1. /\ TypeOK /\ TypeOK' /\ ActiveMovieHasFile /\ SlotUnreadable
      /\ [Next]_vars
      => [InSync => InSync' \/ MayDrift]_vars
  BY SyncStep
<1>2. QED
  BY <1>1, Typed, Unreadable, PTL DEF Spec, SyncSteps

(* A run of the engine without those steps stays in sync: what has been    *)
(* recorded replays, whatever the sequence of loads, edits and toggles.    *)
THEOREM AlwaysInSync ==
  ASSUME FaithfulStates
  PROVE  Spec /\ [][~MayDrift]_vars => []InSync
<1>1. Init => InSync
  BY DEF Init, InSync, Active
<1>2. /\ TypeOK /\ TypeOK' /\ ActiveMovieHasFile /\ SlotUnreadable
      /\ InSync /\ [Next]_vars /\ [~MayDrift]_vars
      => InSync'
  <2>1. SUFFICES ASSUME TypeOK, TypeOK', ActiveMovieHasFile, SlotUnreadable,
                        InSync, [Next]_vars, [~MayDrift]_vars
                 PROVE  InSync'
    OBVIOUS
  <2>2. CASE UNCHANGED vars
    BY <2>1, <2>2, SyncUnchanged DEF vars, movieVars
  <2>3. CASE ~MayDrift
    BY <2>1, <2>3, SyncStep
  <2>4. QED
    BY <2>1, <2>2, <2>3
<1>3. QED
  BY <1>1, <1>2, Typed, Unreadable, PTL DEF Spec

=============================================================================
