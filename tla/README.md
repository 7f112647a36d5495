# Verification of FCEUX11

TLA+ models of the parts of FCEUX11 that carry its control logic, the TLC
configurations that check them on small instances, and theorems about them that
TLAPS proves for every value of their constants. Source paths are relative to
the repository (`src/...`).

## 1. Inventory

FCEUX11 is a NES/Famicom emulator (with a GBA session beside it): a core in
`src/*.cpp`, a Qt front end in `src/drivers/Qt`, and Rust crates that the core
calls for file formats, media and debugging.

| Component | State it keeps | Operations | What is hard |
|---|---|---|---|
| Movie engine (`movie*.cpp`) | mode, read-only flag, frame counter, movie data, rerecord count, recording stream and file name, staged commands | record, play, finish, toggle, insert/delete/truncate, load, save, stop, replay; savestate plug-in | long legal sequences; three copies of one truth (machine, movie in memory, movie on disk); partial failure of a load |
| Savestate files, slots (`state.cpp`) | current slot, last save, last load, four undo/redo flags, slot and backup files | save, load, backup, undo/redo of saves and loads | flags and files must agree; a load fails half-way |
| State recorder (`state.cpp`, rewind) | ring of snapshots, head, start, cursor | per-frame update, load previous/next, load by index, reconfigure | indices modulo a size that can change at run time |
| SDL sound ring (`sdl-sound.cpp`) | sample ring, read and write index, fill count, how samples are skipped or repeated | `WriteSound`, callback, open, close | producer and audio callback; a full or empty ring |
| AVI recorder (`AviRecord.cpp`, `AviRecordDiskThread.cpp`) | video and audio ring, flags | add a frame, add audio, disk thread, start, stop | two threads on one ring; stop while frames are pending |
| Emulator thread (`fceuWrapper.cpp`, `ConsoleEmulatorThread.cpp`) | GUI mutex with its lock counter, requests to hand over, the wait at a breakpoint | lock, unlock, try-lock, emulator loop, breakpoint, close, exit | hand-over and starvation between GUI and emulator; the mutex given up half-way |
| Emulation control (`fceu.cpp`, `sdl-throttle.cpp`) | pause and frame-advance flags, speed | pause, frame advance, power, reset | a key held while the mode changes |
| TAS Editor (`drivers/Qt/TasEditor`) | history ring with cursor, greenzone, branches, bookmarks, markers, selection, lag log | edit, undo/redo, jump, record, playback seek | several views of one movie, each invalidated by edits |
| GBA session (`gba_load.cpp`) | active flag, core handle, battery path, saved NES hooks | activate, run a frame, flush, deactivate | one step of several fails; a save lost |
| CPU, PPU, APU, boards | the emulated machine | one instruction, one frame | deterministic; test ROMs reach it better |
| FDS, cheats, debugger, Lua, netplay, loaders, config, video, GUI windows, GBA core, f11qa | see `PROJECT.json` | | not modelled, with the reason in `PROJECT.json` |

How they interact: the emulator thread holds the GUI mutex while it runs a
frame (except at a breakpoint, section 6); the GUI takes the same mutex around every call into the core, so the
operations of the movie engine, of savestates and of the state recorder do not
interleave with a frame: one operation is one atomic action. Each frame first
calls the state recorder's update, then `FCEU_UpdateInput`, which calls the movie
engine (`FCEUMOV_AddInputState`), and ends with the sound ring's `WriteSound` and
the AVI recorder's `aviRecordAddFrame`. The audio callback and the AVI disk thread run
beside it and take only their own locks. A savestate calls back into the movie
engine (`FCEUMOV_ReadState`, `FCEUMOV_PostLoad`) for the movie it carries.

What makes each correct, in a sentence: the movie replays to the machine the
user sees; a loaded state can be undone; the rings give back what was put in,
in order, and never hand out a slot that is being written; the emulator and the
GUI never run the core at once and never wait on each other for good; the TAS
Editor's greenzone never holds a state that its input does not lead to; a GBA
battery save that was made is on disk after the session ends.

## 2. Plan

Order, the most important behaviour first. Every module keeps its parameters in
CONSTANTS with a named assumption, one action per operation, and recursion out
of the modules that proofs reach.

| Module | Models | Abstract promise | Checks | Theorems |
|---|---|---|---|---|
| `MovieEngine` (done) | movie engine with its savestate plug-in | `SyncSteps`: the machine is what the movie replays to | `MCMovie` | types, stream, counts, read-only, `SyncSteps` (done) |
| `SaveSlots` (done) | slot files, backups, undo, loads, the row of slots | `UndoableSlots`: an undo of one step | `MCSaveSlots`, refinement | types, no slot lost, refinement, what a load keeps, the row (done) |
| `StateRecorder` (done) | rewind ring | `BoundedHistory`: oldest dropped first | `MCStateRecorder`, refinement | types, slots, refinement, directions, order (done) |
| `EmuThread` (done) | GUI mutex, loop of the emulator thread, breakpoints, close and exit | | `MCEmuThread` | types, exclusion, closing between frames (done) |
| `SoundRing` (done) | `WriteSound` and the audio callback | a queue of samples | `MCSoundRing` | types, cursors, queue, overrun (done) |
| `AviRecorder` (done) | emulator, disk and GUI thread on the rings of a recording | two queues of cells | `MCAviRecorder` | types, the rings are served, nothing is lost, pictures are whole (done) |
| `TasHistory`, `Greenzone`, `Branches` | TAS Editor | undo history; valid prefix of states; a tree | as named | prefix validity |
| `GbaHost` | GBA session | a save made is on disk | partial failure of a flush | |

## 3. Movie engine

`MovieEngine.tla` has one action per branch of each operation of `movie_io.cpp`,
`movie_record.cpp`, `movie_playback.cpp` and `movie_settings.cpp`, and of the
loader in `state.cpp` as far as it treats movies. Names are those of the code;
`PROJECT.json` maps each definition to its lines.

The emulated machine is deterministic, so it is represented by what determines
it: how it was started (power-on with a RAM seed, power-on with a battery
memory, or a savestate), the frames executed since, each with its input and its
commands, and the commands given since the last frame. Equal representations
are equal machines. While no movie is active nothing about it is tracked.

`MovieData::dump` is modelled by what it does. It writes the movie into a memory
file, whose position is then at its end (or at the current frame), and reads
the buffer back from there: no header reaches the file, and `LoadFM2` rejects
it. In the model, therefore, `Dump(md)` is `Garbled`; playable movies are the
ones other builds of the format wrote (`ForeignMovies`, `ForeignStates`), which
the program loads.

`MovieProperties.tla` states the properties; `MCMovie.tla` gives the constants.

| Run | Shows |
|---|---|
| `movie` (`Movie.cfg`) | where the movie file may also fail to open: the stream follows the mode, an active movie has a file, the rerecord count is kept, read-only movies are not written through, rewritten input is counted |
| `movie_sync` (`MovieSync.cfg`) | from every state in which machine and movie agree, a step keeps them so, apart from six kinds of steps, each recognised by what it does |
| `movie_read_back` | a movie just recorded cannot be read back (finding) |

The six kinds of steps exempted by `SyncSteps` are not weakenings to make a run
pass: each is a way in which this code does lose the agreement, and the property
says there is no seventh. They are a savestate without a readable movie that is
applied anyway; a savestate of a movie with another start, which the timeline
check does not look at; commands staged for a record that the machine did not
execute in that frame or in that order; frames after a playback that finished
inside the movie; `MoviePlayFromBeginning`, which powers on with the current
seed; and the reseeding of a recording from battery memory. `movie_sync`
explores, by its constraint, states in which the agreement holds. Two of the
six contradict comments of the source. A savestate of the old format is applied
to the machine and then reported as failed, and its backup is not restored
because no chunk failed, where `movie_playback.cpp:169` says that "nothing
destructive has happened yet". A recording from battery memory stores a seed and
then powers on in a mode in which `PowerNES` draws another one, where `fceu.cpp:1036`
says "unless we're in a movie".

`StreamMatchesMode` is the assertion of `movie_record.cpp:437`. Where the file cannot be
opened the driver returns a stream object all the same, which
`openRecordingMovie` keeps (`osRecordingMovie = "failed"`), also outside a recording; the
property says that this is the only exception, and that a stream with a file
behind it is held only while recording.

Bounds. Two inputs (one the blank of a default record), one user command (a
second one would only add orders to `StagedCommandsStale`), movies of up to two
records and frame counters up to two or three: enough for a position before, at
and after the end of the movie, for a truncation, an insertion and an erasure in
the middle, and for a savestate before, at and after the current frame. Two
seeds and three identities tell the starts apart. Foreign movies and states
cover every kind of start, a longer and a shorter movie, a diverging timeline,
a missing frame entry, a missing and an unreadable movie chunk and the old
format. The rerecord count is bounded at two in `movie_sync` (one for a load,
one for an edit after it) and at one in `movie`, on top of the count a movie
brings. There is no fairness: the properties are safety properties.

Not modelled: see the component's note in `PROJECT.json`. A recording whose
stream has no file crashes at the next frame (`fputc` to a null `FILE`), so
`RecordFrame` requires an open stream. The message box of the Qt driver answers
0, and `backupSavestates` is assigned nowhere: the branches for other values are
unreachable and have no action.

### Proved

`MovieProofs.tla`, for every value of the constants under `EngineAssumption`:

* `Typed`: type correctness. `TypeOK` alone is not inductive, because
  `ReloadFromBeginning` opens the file that `curMovieFilename` names, and the
  empty name is no file; with `ActiveMovieHasFile` it is,
  and the theorem states both. The lemmas say what
  each edit of the records returns; the step lemma has a case for each action.
* `Stream`: the recording stream, inductive as it stands, whether opens fail
  or not.
* `Rerecords`: the count shown and the count stored agree.
* `ReadOnly`, `Counted`: action properties, from the invariants above. A
  read-only movie is not written through; executed input is rewritten only by a
  counted step.

* `Sync`: `SyncSteps`, under `FaithfulStates`: a savestate of another build whose movie
  can be read holds the machine that this movie replays to, with no command pending.
  Without it nothing can be said of a load; TLC evaluates it on the states of `MCMovie`.
  Besides the types it rests on `SlotUnreadable`: the movie chunk of a savestate of this
  build cannot be read (see `Dump`), so that a savestate whose movie is taken is one of the others. `Replays`
  speaks of a machine, a movie and a frame, and the lemmas before the steps say what keeps it: a
  frame that executes what the movie has for it (`ReplaysNext`), a movie with the same start
  and the same records below the frame (`ReplaysSame`, `KeepsBelow`). Each edit of the records keeps these, in
  each record mode (`RecordedBelow`, `InsertedBelow`, `ErasedBelow`, `TruncatedBelow`). The
  timeline check of `FCEUMOV_ReadState` (`StateFitsMovie`) is what `SyncLoadReadOnly` needs.
* `AlwaysInSync`: a run that takes none of the six kinds of steps (`MayDrift`) satisfies
  `[]InSync`, so that what was recorded replays.
* `TypeCorrect`: the first half of `Typed`.

Every property of the passing runs is proved.

## 4. State recorder

`StateRecorder.tla` models the class `StateRecorder` of `state.cpp`, the dialog
that sets it, and as much of `fceu11::Emulate` as decides when it is updated. A
snapshot is the frame it was taken at. `ringBuf` is a function from slot numbers;
`ringHead`, `ringStart`, `lastState`, `frameCounter`, `lastLoadFrame` and
`loadIndexReset` are the fields of those names. Whatever else moves the frame
counter (a savestate, a reset, a movie) is `OutsideLoad`. The update before a
frame is three actions, `Resume`, `Snap` and `NoSnapDue`; a frame of Frame
Advance skips it, because its flag counts as a pause there. Every operation runs
under the emulator lock, so each is one step.

`BoundedHistory.tla` is what rewind promises: the latest snapshots in order and a
cursor. `KeepsHistory` says the ring implements it, with the history read off
the ring from `ringStart` to `ringHead`, the cursor at `lastState` and the
capacity one less than the slots (the head's slot is never part of it). The refinement says that a
load takes the snapshot at the cursor or a neighbour; `Directions` says which: `LoadPrevState` is a step
`Previous` of the history and `LoadNextState` a step `Following`, wherever the ring has wrapped.

| Run | Shows |
|---|---|
| `recorder` (`Recorder.cfg`) | the ring is a bounded history, its indices stay in it, every snapshot counted was taken, Previous does not go forward nor Next back, and a step of the recorder keeps the snapshots in the order of the run |

`Ordered` says that the snapshots are in the order of the run, and that the next
one is due after the last. It is no invariant: a savestate, a reset or a movie moves the frame
counter behind the recorder's back, and the snapshots held are then of several runs.
`OrderedSteps` says that nothing else loses it, however often the ring is
rewound, played on and overwritten.

The run leaves out three things that break the ring. Its settings all give four
slots, so that a user may refuse the restart (`Answers`): the dialog then says that
"New settings will not take effect until state recorder is restarted."
(`StateRecorderConf.cpp:448`), but `FCEU_StateRecorderSetConfigData` has stored them, the
recorder reads them at once (`state.cpp:1596`) and keeps the old ring, so that settings for a
longer history let its indices run past it. Next is not asked for before there is a
snapshot: `loadNextState` does not check for that, as `loadPrevState` does, and the slot it
loads is counted afterwards (`NextWhenEmpty = TRUE` in `Recorder.cfg` shows it; a ring of one slot, which
never holds a snapshot, always is in that state). And
the settings give a slot: the dialog also offers, for example, 10000 frames
between snapshots in a history of one minute, whose number of slots rounds to
0, so that the first frame divides by it. An index outside `ringBuf` is undefined
behaviour; `Snap` and `LoadStateByIndex` require the slot.

Bounds. Rings of four slots, by frames and by time, with every kind of pause,
and five frames. Four slots hold three snapshots, and the fourth overwrites the
first; rewinding and playing on then wraps the ring a second time. `ReloadWindow` is
2 where the code has 30, so that Previous is asked for inside and outside of
it. There is no fairness.

### Proved

For every ring size, setting, window and frame bound, with the assumptions
`SizedRings` (settings give a slot), `Restarts` (the user agrees to a restart,
or all settings give the same number of slots) and, in all but `RecorderTyped`, `~NextWhenEmpty`:

* `RecorderTyped`: type correctness; the indices of a running recorder are slots
  of its ring. It is inductive together with `SizeOfConfig`: the size in use is
  that of the settings last applied.
* `RecorderSlots`: `SlotsSaved`. The inductive invariant `RingKept` says which
  slots are held, by their distance from `ringStart`, that those are written,
  and that the last state is one of them, or the ring is empty and it is the
  head. Remainders by a variable are beyond the solver, so a few lemmas
  (`After`, `Before`, `Distance`, `HeldSlot`) replace them by cases once.
* `RecorderRefines`: `Spec => KeepsHistory`. Each
  step is mapped by a lemma (`SnapMaps`, `ResumeMaps`, `LoadMaps`, `NewMaps`,
  `PlayMaps`); the sequence held after a step is compared with the abstract one
  element by element.
* `RecorderDirections`: `Directions`, from the same maps (`LoadsMap`), which tell the two loads apart.
* `RecorderOrdered`: `OrderedSteps`. The steps are those of the refinement, and each keeps the
  order of the snapshots held (`SnapOrdered`, `ResumeOrdered`, `LoadOrdered`, `PlayOrdered`). A
  snapshot is later than those before it because the cursor is at the end of the ring when it is taken;
  this is the invariant `AtEnd`: without a load since the last frame the cursor is at the latest snapshot.
* `RecorderAlwaysOrdered`: without loads from outside (`~OutsideLoads`), `Ordered` is an invariant.

Not modelled: a time between snapshots of zero
(its conversion to a number of slots is undefined), compression, lag skipping
under Frame Advance, the two loads by number that nothing calls, and a snapshot
refused by the movie engine on load.

## 5. Savestate slots

`SaveSlots.tla` models saving and loading by slot and by name (`FCEUSS_Save`,
`FCEUSS_Load`, `FCEUSS_LoadFP`, `SaveStateFile`, `LoadStateFile`), the backup of a slot
and its undo (`CreateBackupSaveState`, `SwapSaveState`), the backup of the machine before
a load (`BackupLoadState`), the chunks of a newer format that a load preserves
(`g_unknownChunks`), the row of slots, and as much of opening and closing games as
these depend on. `files` maps names to contents; a name is the game, the movie
it may be bound to, the slot and the role (slot, `-bak`, its temporary `-bakx`, `.bak.fc0`,
`-resume`). A savestate is the game and the machine it holds, and unknown chunks. How
a movie judges a savestate is `MovieEngine`'s; here it is a verdict: taken, unfit
(undone from the copy in memory) or refused after it was applied.

Every operation holds the lock of the emulator thread, so each is one step. A
write comes to `written`, `cut` (the file is opened, not completely written) or
`unopened`. The process may end between operations, within a save (`EndSaving`)
and between the renames of an exchange (`EndSwapping`); the flags are gone then and the
files stay. `Rename` is that of the Windows library the program is built with, which
fails when the new name is taken.

`UndoableSlots.tla` is what the undo promises: saving over a file offers what it
held, an undo puts it back and offers what it replaced, and a save past the undo
(by name, by a script) leaves the offer or drops it.

| Run | Shows |
|---|---|
| `slots_undo` (`SlotsUndo.cfg`) | with saves that fail or are cut short: the flags and files implement the undo, and an undo that is reported restores |
| `slots_load` (`SlotsLoad.cfg`) | with every verdict and the Game Genie screen: a machine that a load replaces is in its backup, and the preserved chunks belong to the savestate the machine comes from |
| `slots_row` (`SlotsRow.cfg`) | with two games, a GBA one, a binding, resume, scripts, and saves and exchanges cut short: types, no slot is lost, and the row of slots agrees with the files apart from what goes past the slot commands |
| `slots_game` | after a GBA session an undo concerns the closed game (finding) |

`slots_load` assumes that files can be written: the code does not look at what
the backup before a load came to, so one that fails keeps nothing.

Four more comments of `state.cpp` are not what the code does, and the properties
name the exceptions or leave room for them. The backup before a load is written before the
file to load is opened (line 1036), which may be that backup: loading it brings the present back, not
"the user's place" (line 1143), and `PlaceKept` asks only for the machine that a load replaces. An exchange cut short leaves its temporary file, on which
the renames of every later exchange fail, unnoticed: with `CutShort <- MCCut` in
`SlotsUndo.cfg` `UndoRestores` fails ("now swap", line 1116). A save that renamed the slot
and could not open its file leaves a backup alone, and the exchange of "both"
(the same line) brings it back and leaves no backup, as `RowGoesStale` and `LoseSave` of `UndoableSlots`
allow. `FCEUSS_LoadFP` clears the preserved chunks before it makes the copy that a
failed load is undone from, so the machine is kept and its chunks are not
("without data loss", line 105), the second case of `ChunksFollow`.

Bounds. Two slots, so that a save and an undo can be of different ones; two
interchangeable machines (one in `slots_row`, where contents do not matter); one unknown chunk;
one file that the user names. `MaxFiles` limits, in `slots_load` and `slots_row`, how many
files exist at once to two: a slot and its backup, or a slot and the pre-load backup.
There is no fairness.

Left out: `LoadBackup` and `RedoLoadState`, which nothing calls; the Lua data written
beside a savestate; the copy of a movie made before a load; names of backups that a
user types into a file dialog. The periodic, automatic and exit saves of the
driver are sequences of the actions here. `UndoRedoSavestate` is an entry of the core's
command table (`input.cpp`), which the Qt driver does not bind.

### Proved

For any games, bindings, number of slots, files of the user, chunks, outcomes
and settings, under `SlotsAssumption`:

* `SlotsTyped`: type correctness, with one lemma for each group of actions.
* `SlotsNotLost`: the action property `NeverLosesSlot`. It needs no invariant beyond the
  types: `RolesApart` keeps the names of different slots and roles apart, and a
  rename (`RenameKeeps`) moves a file to a free name or does nothing.
* `SlotsUndoSinceOpen`: without games for the GBA the comment refuted by
  `slots_game` is true. `UndoSinceOpen` is not inductive: an undo sets `undoSS` when only
  `redoSS` was set, so `UndoOfGame` speaks of both flags.
* `SlotsRefine` (`SaveSlotsRefines.tla`): `Spec => KeepsUndo`, if no exchange is cut short and no
  temporary file is found at the start (`SwapsComplete`). The
  invariant `TempsFree` says that no temporary file exists between operations; each
  step is one of five (`Aside`, `Through`, `Over`, `Exchanged`, `CutOff`), and each of these
  maps to a step of the abstract undo or to none.
* `SlotsUndoRestores`: from the same invariant, `UndoRestores`. The refinement alone allows
  an undo that changes nothing, which is no step of the abstract one.

* `SlotsPlaceKept`: `PlaceKept`, if writes succeed (`Outcomes \subseteq {"written"}`), as in `slots_load`.
* `SlotsChunksFollow`: `ChunksFollow`, if the GBA savestates found at the start have no chunks: a GBA
  session neither reads nor writes any. The invariant `Plain` says that this stays so, of the
  files and of the machine, through renames, writes and exchanges.
* `SlotsRowGoesStale`: `RowGoesStale`, from the types alone. Its lemma `ExchangeStatus` says that
  after an exchange of two files that exist the same slots exist, even when its renames fail.

Every property of the passing runs is proved.

## 6. Emulator thread

`EmuThread.tla` models the mutex of `fceuWrapper.cpp` (`fceuWrapperLock`,
`fceuWrapperTryLock`, `fceuWrapperUnLock` with the counters `mutexLocks` and
`mutexPending`), the loop of the emulator thread (`emulatorThread_t::run`,
`fceuWrapperUpdate`), a breakpoint in the middle of a frame
(`fceWrapper_DebugBreakpoint`), and what the GUI thread does to the machine: a
command under the mutex (`Request("edit")`), a game closed or loaded
(`CloseGame`), and two ways to end the program: `closeApp`, and the four buttons of the pad
(`QuitByPad`). `emu` and `gui` say where the threads are; every unlock, sleep and lock in
the middle of a frame or of a close is a step of its own. The emulator thread
calls into the machine exactly while `EmuHolds`, the GUI thread while `GuiHolds`.

| Run | Shows |
|---|---|
| `emu` (`Emu.cfg`) | one thread at a time is in the machine, a game is closed between frames, and a command of the user comes to its end |
| `emu_close` (`EmuClose.cfg`) | a frame that hangs leaves the window unable to close (finding) |

The states are finite, so there is no bound. Of time the model assumes what the
header of the module says: the sleeps by which one thread lets the other one go
on are long enough for that thread to take a mutex that is free (they are 16
and 100 milliseconds). `CloseGame` does not look
at `waitingAtBp` again after its sleep, so that this is also what the exclusion rests on. Fairness is weak, on each thread's steps: the
operating system schedules both. It does not make a frame hit a breakpoint or
hang, nor the user act. That the GUI is not starved rests on `PollPending`: without
the poll (`TryAtOnce`, the mutant of `RequestEnds`) the emulator thread unlocks and locks
for ever.

Exempted: after `QuitByPad`, which closes the game from the GUI's event handler
without the mutex, under whatever frame is being run, and then exits, nothing holds of
exclusion. `RequestEnds` excepts a frame that hangs, as under a Lua script that loops. The runs
do not check for deadlock, because that is what then happens: `closeApp` terminates a thread
that holds the mutex and waits for that mutex.

### Proved

`EmuThreadProofs.tla`: `EmuTyped`, `EmuExclusive` and `EmuClosedBetweenFrames`. `Exclusive` is
not inductive: `UnLock` looks at a count of locks, not at whose they are. The invariant `Kept`
adds that the count is one exactly while the mutex is owned (`Counts`), that the
owner is the thread that is in the machine (`Owners`), that a thread at a breakpoint
can be seen there (`Seen`), and where the emulator thread can be once the GUI thread
has slept in the middle of a close (`Drained`), which is what makes the rest
of the close safe. Only model-checked: `RequestEnds`.

Not modelled: nested locks of the GUI thread, which the recursive mutex allows
and which are one lock here; the durations; `LoadGameFromLua`, which nothing calls; a
window closed before the emulator thread has begun (that thread then sets `runEmulator`
after `closeApp` has cleared it, and runs until it is terminated).

## 7. AVI recorder

`AviRecorder.tla` models three threads. The emulator thread puts the picture and the
sound of each frame into two rings (`aviRecordAddFrame`, `aviRecordAddAudioFrame`: `BeginFrame`
to `AddSoundAgain`). The disk thread takes them out and encodes them
(`AviRecordDiskThread_t::run`: `DiskBegin` to `EndThread`). The GUI thread starts and stops a
recording (`aviRecordStart`, `aviRecordStop`, `closeApp`), and changes the settings. No lock
guards the rings: `vbufHead` and `abufHead` belong to the emulator thread, `vbufTail` and
`abufTail` to the disk thread. A picture is `frameSize` cells, each the number of the frame it belongs
to, so that a picture put together from two frames can be told; finding room, copying
the cells and moving the head are three steps, taking out each cell another one. `added` and
`written` are histories of what went in and what reached the file.

| Run | Shows |
|---|---|
| `avi` (`Avi.cfg`) | what went in is in the file or in the rings, in order and once; a picture in the file is one whole frame; the rings outlive their users; a frame that waits for room goes on |

Bounds. Video and audio rings of three cells, pictures of one and two cells,
chunks of two samples, three frames: the ring fills, wraps, leaves a picture waiting for
room, and with mixed sizes is filled exactly. The stop may run out of time.
Fairness is weak, on the steps of a frame that has begun and on those of the disk
thread: both are scheduled, and the encoder returns.

Exempted, each by a history variable that says what happened:

* `overfilled` (`NothingLost`, `PicturesWhole`): the ring was filled exactly. Head then meets tail, and the ring
  looks empty. `vbufSize` is 1024 * 1024 * 60 pixels, exactly 1024 pictures
  of 256 by 240: when the encoder is that far behind, those pictures are lost. With the
  224 lines that are the default for NTSC a whole number of pictures does not fill it.
* `timedOut` (all but `TypeOK`): `aviRecordStop` ignores what `wait(10000)` returns (`ConsoleRecording.cpp:242`). The disk
  thread then frees the rings later, possibly under a frame of the next
  recording, which has no thread of its own, since `QThread::start` does nothing to
  a thread that runs. Once the late thread has ended, the next recording is excepted no longer: `Start`
  forgets it, and the properties say that nothing the late thread left behind reaches that recording.
* `resized` (`PicturesWhole`): the size of the picture changed during the recording. The disk
  thread read the size when it began; the emulator thread reads it for every frame.

The properties hold of what the code does, which is less than one might
expect of it: pictures still in the ring when a recording is stopped are dropped while the
sound is flushed (`FlushSound`), and a change of the video settings during a recording
makes the disk thread, which read the size once, cut the cells into other pictures
than were put in, though no cell is lost. Sound switched on during a recording fills a
ring that nobody empties, and each later sample is dropped.

### Proved

`AviRecorderProofs.tla`, for rings, pictures and chunks of any size and any number of
frames, from `RecorderAssumption` alone:

* `AviTyped`: heads and tails stay in their rings.
* `AviServed`: `Served`, from `Kept`: where the disk thread is determines whether there
  are buffers and a recording, and a frame under way holds the GUI thread back
  (`InStep`, unless a stop has run out of time and its thread goes on).
* `AviNothingLost`: `NothingLost`, from `Kept` and `Intact`. What is pending is a queue, so a
  step must append to it or take from its front. Between the three steps that put a picture in,
  that needs two more facts: room that was found stays, since
  the disk thread only makes more (`Room`), and the cells copied stay where they are until
  the head moves past them (`InPlace`).
* `AviPicturesWhole`: `PicturesWhole`, from `Intact` and `SizesAgree`: while the size stays,
  both threads have read the same one, what was put in is whole frames of that size, and what was written is
  a multiple of it. By `Intact` the file is a prefix of what was put in, so its pictures are those frames.

The arithmetic of a ring is that of `RingArithmetic.tla`, which section 8 describes:
copying is `Behind`, moving the head appends (`QueuePush`), moving the tail takes from the
front (`QueuePop`). Only model-checked: `FrameEnds`.

Not modelled: the file formats, a start that fails, the ring's contents as pixels,
a number of samples per frame, paused and skipped frames, which put in nothing.

## 8. Sound ring

`SoundRing.tla` models `WriteSound` and the callback `fillaudio` of `sdl-sound.cpp`, with
`InitSound` and `KillSound`. The emulator thread holds the lock of the audio device, without which
the callback does not run, except while it waits for a full ring: `LockAudio`,
`UnlockAudio` and `RoomAgain` are steps, and `FillAudio` comes in between. How samples are written is chosen
before the lock is taken (`BeginWrite`, `Chosen`): one for one, every sample several times
below full speed, or some samples skipped above it, nudged by how full the ring is. A sample is a
number; volume, mute and the noise gate are left out.

| Run | Shows |
|---|---|
| `sound` (`Sound.cfg`) | cursors and count agree; what is played is what was written, in order; only repeated samples overrun the ring; a frame ends although the device has stopped |

Bounds. A ring of four samples, callbacks of two, frames of three: a frame does not fit behind
what is held, so that a write waits in its middle. Two speeds, the normal one and one below it (a third
takes more than five minutes). Five sample numbers tell the ring's contents apart; `MaxIn` bounds the
count of a ring that is overrun. Fairness is weak and on the emulator thread only:
a device may stop asking for samples, and a second of waiting ends (`GiveUp`). The code counts
the waits over the whole call and tests the count after it has the lock again, so that it may give up although room
has just come; `GiveUp` does not ask for a full ring either.

`FirstInFirstOut` is about a ring that is not overrun. It can be: the test for a full ring is for
equality (line 427), and a sample written several times steps past it. From then on the count exceeds
the size, old samples are overwritten, and `GetWriteSound`, "the amount of free space" (line 361), is a
difference of unsigned numbers below zero, to which a GBA session sizes a
buffer (`fceuWrapper.cpp:1504`). `OverrunOnlyWhenSlow` says that nothing else does it.

### Proved

`SoundRingProofs.tla`, for every size of ring, callback and frame and every set of speeds:
`SoundTyped`, `SoundCursorsAgree`, `SoundFirstInFirstOut` and `SoundOverrunOnlyWhenSlow`, all from the invariant
`Kept`: types, cursors, and that the mode "one" writes one. Remainders by a variable are beyond the
solver. `RingArithmetic.tla` derives what is needed from the uniqueness of quotient
and remainder, in two lemmas (`ModSum`, `ModApart`), and from those that writing behind the
head appends (`ContentPush`) and moving the tail takes from the front (`ContentPop`).
Only model-checked: `WriteEnds`.

Not modelled: turbo mode, which writes nothing; sound closed during a GBA
session, which goes on producing samples for a ring that is gone.

## 9. Not modelled

The components with status `not_modelled` in `PROJECT.json`, each with its reason there. Of
those the TAS Editor and the GBA session carry control logic that a model can reach; the
emulated chips, the boards and the loaders are data without it.
