------------------------------- MODULE SaveSlots -------------------------------
(***************************************************************************)
(* Savestate files and slots: saving and loading by slot or by name, the   *)
(* backup of a slot made before it is saved over, the undo that exchanges  *)
(* the two, the backup of the machine made before a load, and the chunks   *)
(* of a newer format that a load preserves for the next save (state.cpp,   *)
(* with the opening and closing of games in fceu.cpp and fceuWrapper.cpp). *)
(* Every operation runs under the lock of the emulator thread, so each is  *)
(* one step; a step may be cut short by the end of the process.            *)
(*                                                                         *)
(* LoadBackup and RedoLoadState have no caller and no action; undoLS,      *)
(* redoLS and lastLoadstateMade serve only them.  How a movie judges the   *)
(* savestate that is loaded is MovieEngine's; here it is a verdict.        *)
(***************************************************************************)
EXTENDS Integers, FiniteSets

CONSTANTS
  Games, GbaGames,  \* the games, and those of them for the GBA
  Bindings,         \* the movie names that slot files may be bound to
  NoBinding, NoGame, NoName,
  Damaged, NoFile,  \* the contents of a file cut short, and of no file
  SlotCount,        \* ten in the code
  UserFiles,        \* files that the user names
  Machines,         \* contents of an emulated machine
  Chunks, NoChunks, \* what this version does not know of a savestate
  Given,            \* the files found at the start
  Outcomes,         \* of writing a file
  Verdicts,         \* of reading a savestate of a NES
  CutShort,         \* operations in which the process may end
  AutoResumePlay, GameGenie, Scripts   \* settings

Slots == 0 .. SlotCount - 1

SlotOf(g, b, s, role) == <<g, b, s, role>>
ProgramFiles ==
  {SlotOf(g, b, s, role) : g \in Games, b \in Bindings \cup {NoBinding},
                           s \in Slots, role \in {"slot", "bak", "bakx"}}
  \cup {SlotOf(g, b, 0, "load") : g \in Games, b \in Bindings \cup {NoBinding}}
  \cup {SlotOf(g, NoBinding, 0, "resume") : g \in Games}
Files == ProgramFiles \cup UserFiles

Savestate == [game : Games, machine : Machines, chunks : Chunks \cup {NoChunks}]
Contents == Savestate \cup {Damaged, NoFile}

ASSUME SlotsAssumption ==
  /\ GbaGames \subseteq Games /\ NoGame \notin Games
  /\ NoBinding \notin Bindings
  /\ SlotCount \in Nat \ {0, 1}
  /\ UserFiles \cap ProgramFiles = {}
  /\ NoName \notin Files
  /\ Machines # {} /\ NoChunks \notin Chunks
  /\ Given \subseteq [Files -> Contents]
  /\ Outcomes \subseteq {"written", "cut", "unopened"}
  /\ Verdicts \subseteq {"taken", "unfit", "refused"}
  /\ CutShort \subseteq {"saving", "swapping"}
  /\ {AutoResumePlay, GameGenie, Scripts} \subseteq BOOLEAN
  /\ Damaged \notin Savestate /\ NoFile \notin Savestate \cup {Damaged}

VARIABLES
  files,
  game,              \* the game that is open
  binding,           \* the movie whose name the slot files carry
  machine,           \* its content, and the chunks it was loaded with
  genieScreen,       \* geniestage = 1
  g_unknownChunks,
  CurrentState, SaveStateStatus,
  StateShow,         \* whether the row of slots is shown
  lastSavestateMade, undoSS, redoSS,
  loadStateFailed

machineVars == <<machine, g_unknownChunks>>
sessionVars == <<game, binding, genieScreen>>
undoVars == <<lastSavestateMade, undoSS, redoSS>>
rowVars == <<CurrentState, SaveStateStatus, StateShow>>
vars == <<files, sessionVars, machineVars, rowVars, undoVars, loadStateFailed>>

-----------------------------------------------------------------------------
(* File names.                                                             *)

SlotFile(s) == SlotOf(game, binding, s, "slot")
BackupOf(f) == SlotOf(f[1], f[2], f[3], "bak")
TempOf(f) == SlotOf(f[1], f[2], f[3], "bakx")
PreLoad == SlotOf(game, binding, 0, "load")
ResumeOf(g) == SlotOf(g, NoBinding, 0, "resume")

(* What the file dialogs and Lua may name.                                 *)
Named == UserFiles \cup {PreLoad} \cup {SlotFile(s) : s \in Slots}

-----------------------------------------------------------------------------
(* Files.  rename() of the platform's library fails when the new name is   *)
(* taken.                                                                  *)

Exists(fs, f) == fs[f] # NoFile

Rename(fs, a, b) ==
  IF Exists(fs, a) /\ ~Exists(fs, b)
  THEN [fs EXCEPT ![b] = fs[a], ![a] = NoFile]
  ELSE fs

Remove(fs, f) == [fs EXCEPT ![f] = NoFile]

(* Mutant: the old backup is not removed first. *)
CreateBackupOnly(fs, f) == Rename(fs, f, BackupOf(f))

CreateBackup(fs, f) == Rename(Remove(fs, BackupOf(f)), f, BackupOf(f))

(* Mutant: the two are exchanged without a name between them. *)
SwappedDirectly(fs, f) == Rename(Rename(fs, BackupOf(f), f), f, BackupOf(f))

Swapped(fs, f) ==
  Rename(Rename(Rename(fs, BackupOf(f), TempOf(f)), f, BackupOf(f)), TempOf(f), f)

IsGba == game \in GbaGames

Present ==
  [game |-> game, machine |-> machine.content,
   chunks |-> IF IsGba THEN NoChunks ELSE g_unknownChunks]

Write(fs, f, o) ==
  CASE o = "written" -> [fs EXCEPT ![f] = Present]
    [] o = "cut" -> [fs EXCEPT ![f] = Damaged]
    [] o = "unopened" -> fs

(* Only the GBA writer looks at what its writing came to.                  *)
ReportsSaved(o) == o = "written" \/ (o = "cut" /\ ~IsGba)

Status(fs) == [s \in Slots |-> Exists(fs, SlotFile(s))]

-----------------------------------------------------------------------------
(* Saving.                                                                 *)

MaySave == game # NoGame /\ ~genieScreen

(* Mutant: the row stays shown. *)
SlotCommandShown(s, direct, marked) ==
  /\ direct \/ s = CurrentState
  /\ SaveStateStatus' = marked
  /\ UNCHANGED <<CurrentState, StateShow>>

(* A command for one slot selects it, works on it and selects the former   *)
(* one again, which reads the status of all slots anew.                    *)
SlotCommand(s, direct, marked) ==
  /\ direct \/ s = CurrentState
  /\ SaveStateStatus' = IF direct THEN Status(files') ELSE marked
  /\ StateShow' = FALSE
  /\ UNCHANGED CurrentState

Saved(s, o) ==
  IF ReportsSaved(o) THEN [SaveStateStatus EXCEPT ![s] = TRUE]
                     ELSE SaveStateStatus

SaveOver(s, direct, o) ==
  LET f == SlotFile(s) IN
  /\ MaySave /\ Exists(files, f)
  /\ files' = Write(CreateBackup(files, f), f, o)
  /\ lastSavestateMade' = f
  /\ undoSS' = TRUE
  /\ redoSS' = (redoSS /\ ~ReportsSaved(o))
  /\ SlotCommand(s, direct, Saved(s, o))
  /\ UNCHANGED <<sessionVars, machineVars, loadStateFailed>>

(* Mutant: the undo of an earlier save stays. *)
SaveNewUndoKept(s, direct, o) ==
  LET f == SlotFile(s) IN
  /\ MaySave /\ ~Exists(files, f)
  /\ files' = Write(files, f, o)
  /\ lastSavestateMade' = f
  /\ redoSS' = (redoSS /\ ~ReportsSaved(o))
  /\ SlotCommand(s, direct, Saved(s, o))
  /\ UNCHANGED <<undoSS, sessionVars, machineVars, loadStateFailed>>

SaveNew(s, direct, o) ==
  LET f == SlotFile(s) IN
  /\ MaySave /\ ~Exists(files, f)
  /\ files' = Write(files, f, o)
  /\ undoSS' = FALSE
  /\ redoSS' = (redoSS /\ ~ReportsSaved(o))
  /\ SlotCommand(s, direct, Saved(s, o))
  /\ UNCHANGED <<lastSavestateMade, sessionVars, machineVars, loadStateFailed>>

(* With a name there is no backup: Save State As, and Lua, which calls the *)
(* core below SaveStateFile.                                               *)
SaveNamed(f, byLua, o) ==
  /\ MaySave
  /\ byLua => Scripts
  /\ files' = Write(files, f, o)
  /\ redoSS' = (redoSS /\ ~ReportsSaved(o))
  /\ StateShow' = (StateShow /\ byLua)
  /\ UNCHANGED <<lastSavestateMade, undoSS, CurrentState, SaveStateStatus,
                 sessionVars, machineVars, loadStateFailed>>

(* On the Game Genie screen a save does nothing.                           *)
SaveOnGenieScreen(s, direct) ==
  /\ genieScreen
  /\ files' = files
  /\ SlotCommand(s, direct, SaveStateStatus)
  /\ UNCHANGED <<sessionVars, machineVars, undoVars, loadStateFailed>>

UndoRedoSavestate ==
  LET f == lastSavestateMade
      b == BackupOf(f)
  IN
  /\ f # NoName /\ (undoSS \/ redoSS)
  /\ Exists(files, b)
  /\ files' = Swapped(files, f)
  /\ undoSS' = TRUE
  /\ redoSS' = ~redoSS
  /\ UNCHANGED <<lastSavestateMade, sessionVars, machineVars, rowVars,
                 loadStateFailed>>

-----------------------------------------------------------------------------
(* Loading.                                                                *)

(* A GBA session takes only savestates of its own cartridge; the loader of *)
(* the NES takes none of the GBA's, and some it applies and then refuses.  *)
Takes(g, c, v) ==
  /\ c \in Savestate
  /\ IF g \in GbaGames THEN c.game = g ELSE c.game \notin GbaGames /\ v # "unfit"

Accepts(c, v) == Takes(game, c, v) /\ (IsGba \/ v = "taken")

(* Mutant: the chunks of an earlier savestate are kept. *)
ReadChunksKept(g, c, v, before) ==
  /\ machine' = IF Takes(g, c, v)
                THEN [content |-> c.machine, chunks |-> c.chunks] ELSE before
  /\ g_unknownChunks' =
       IF Takes(g, c, v) /\ c.chunks # NoChunks THEN c.chunks ELSE g_unknownChunks

(* Reading drops the preserved chunks first.  A NES savestate that cannot  *)
(* be applied is undone from a copy in memory, made after that.            *)
Read(g, c, v, before) ==
  /\ machine' = IF Takes(g, c, v)
                THEN [content |-> c.machine, chunks |-> c.chunks] ELSE before
  /\ g_unknownChunks' =
       IF g \in GbaGames THEN g_unknownChunks
       ELSE IF Takes(g, c, v) THEN c.chunks ELSE NoChunks

(* The status after reading c from a slot, or from a named file.  A state  *)
(* the GBA core refuses clears the status of the current slot.             *)
AfterRead(s, named, c, v) ==
  IF IsGba /\ ~Accepts(c, v) THEN [SaveStateStatus EXCEPT ![s] = FALSE]
  ELSE IF named THEN SaveStateStatus ELSE [SaveStateStatus EXCEPT ![s] = TRUE]

Cleared(s) == [SaveStateStatus EXCEPT ![s] = FALSE]

(* Mutant: the backup is made only once. *)
BackedUpOnce(o) == IF Exists(files, PreLoad) THEN files ELSE Write(files, PreLoad, o)

(* BackupLoadState, then the file is opened.                               *)
BackedUp(o) == Write(files, PreLoad, o)

LoadSlot(s, direct, o, v) ==
  LET c == BackedUp(o)[SlotFile(s)] IN
  /\ MaySave
  /\ files' = BackedUp(o)
  /\ redoSS' = (redoSS /\ ~ReportsSaved(o))
  /\ \/ /\ c # NoFile
        /\ Read(game, c, v, machine)
        /\ SlotCommand(s, direct, AfterRead(s, FALSE, c, v))
        /\ loadStateFailed' = ~Accepts(c, v)
     \/ /\ c = NoFile
        /\ SlotCommand(s, direct, Cleared(s))
        /\ loadStateFailed' = TRUE
        /\ UNCHANGED machineVars
  /\ UNCHANGED <<lastSavestateMade, undoSS, sessionVars>>

LoadNamed(f, o, v) ==
  LET c == BackedUp(o)[f] IN
  /\ MaySave
  /\ files' = BackedUp(o)
  /\ redoSS' = (redoSS /\ ~ReportsSaved(o))
  /\ StateShow' = FALSE
  /\ \/ /\ c # NoFile
        /\ Read(game, c, v, machine)
        /\ SaveStateStatus' = AfterRead(CurrentState, TRUE, c, v)
        /\ loadStateFailed' = ~Accepts(c, v)
     \/ /\ c = NoFile
        /\ loadStateFailed' = TRUE
        /\ UNCHANGED <<machineVars, SaveStateStatus>>
  /\ UNCHANGED <<CurrentState, lastSavestateMade, undoSS, sessionVars>>

LoadOnGenieScreen(s, direct) ==
  /\ genieScreen
  /\ files' = files
  /\ SlotCommand(s, direct, SaveStateStatus)
  /\ loadStateFailed' = TRUE
  /\ UNCHANGED <<sessionVars, machineVars, undoVars>>

(* Lua calls the core below LoadStateFile: no backup of the machine.       *)
LoadByLua(f, v) ==
  /\ Scripts /\ MaySave
  /\ \/ /\ Exists(files, f)
        /\ Read(game, files[f], v, machine)
        /\ SaveStateStatus' = AfterRead(CurrentState, TRUE, files[f], v)
     \/ /\ ~Exists(files, f)
        /\ SaveStateStatus' = Cleared(CurrentState)
        /\ UNCHANGED machineVars
  /\ UNCHANGED <<files, sessionVars, CurrentState, StateShow, undoVars,
                 loadStateFailed>>

(* A state in memory: a snapshot of the recorder, which always fits, or the *)
(* one that a movie starts from.                                           *)
LoadFromMemory(m, u, v) ==
  /\ game \in Games \ GbaGames
  /\ Read(game, [game |-> game, machine |-> m, chunks |-> u], v, machine)
  /\ UNCHANGED <<files, sessionVars, rowVars, undoVars, loadStateFailed>>

-----------------------------------------------------------------------------
(* The row of slots.                                                       *)

SelectSlot(s, show) ==
  /\ game # NoGame
  /\ SaveStateStatus' = Status(files)
  /\ CurrentState' = s
  /\ StateShow' = show
  /\ UNCHANGED <<files, sessionVars, machineVars, undoVars, loadStateFailed>>

(* Mutant: the slots do not wrap around. *)
SelectNextUnwrapped(step) == SelectSlot(CurrentState + step, TRUE)

SelectNext(step) == SelectSlot((CurrentState + step) % SlotCount, TRUE)

RowFades ==
  /\ StateShow
  /\ StateShow' = FALSE
  /\ UNCHANGED <<files, sessionVars, machineVars, CurrentState,
                 SaveStateStatus, undoVars, loadStateFailed>>

-----------------------------------------------------------------------------
(* The session.                                                            *)

(* The game is powered on; the chunks preserved from another one stay.  A  *)
(* GBA game has no Game Genie, and resumes no play.                        *)
OpenGame(g, m, v) ==
  LET r == files[ResumeOf(g)]
      fresh == [content |-> m, chunks |-> NoChunks]
      resumes == AutoResumePlay /\ g \notin GbaGames /\ ~genieScreen'
  IN
  /\ game = NoGame
  /\ game' = g
  /\ genieScreen' = (GameGenie /\ g \notin GbaGames)
  /\ \/ /\ resumes /\ r # NoFile
        /\ Read(g, r, v, fresh)
        /\ UNCHANGED SaveStateStatus
     \/ /\ resumes /\ r = NoFile
        /\ machine' = fresh
        /\ SaveStateStatus' = Cleared(CurrentState)
        /\ UNCHANGED g_unknownChunks
     \/ /\ ~resumes
        /\ machine' = fresh
        /\ UNCHANGED <<g_unknownChunks, SaveStateStatus>>
  /\ UNCHANGED <<files, binding, CurrentState, StateShow, undoVars,
                 loadStateFailed>>

CloseNes(o) ==
  /\ game \in Games \ GbaGames
  /\ files' = IF AutoResumePlay /\ ~genieScreen
              THEN Write(files, ResumeOf(game), o) ELSE files
  /\ game' = NoGame
  /\ binding' = NoBinding
  /\ genieScreen' = FALSE
  /\ lastSavestateMade' = NoName
  /\ undoSS' = FALSE
  /\ redoSS' = FALSE
  /\ UNCHANGED <<machineVars, rowVars, loadStateFailed>>

(* The driver ends a GBA session itself, without FCEU_CloseGame.           *)
CloseGba ==
  /\ IsGba
  /\ game' = NoGame
  /\ UNCHANGED <<files, binding, genieScreen, machineVars, rowVars, undoVars,
                 loadStateFailed>>

(* A movie is started or stopped, or the binding is switched.              *)
Rebind(b) ==
  /\ game \in Games \ GbaGames
  /\ binding' = b
  /\ UNCHANGED <<files, game, genieScreen, machineVars, rowVars, undoVars,
                 loadStateFailed>>

(* Frames; on the screen of the Game Genie they may lead to the game.      *)
Run(m) ==
  /\ game # NoGame
  /\ machine' = [machine EXCEPT !.content = m]
  /\ genieScreen' \in {genieScreen, FALSE}
  /\ UNCHANGED <<files, game, binding, g_unknownChunks, rowVars, undoVars,
                 loadStateFailed>>

Power(m) ==
  /\ game \in Games \ GbaGames
  /\ machine' = [content |-> m, chunks |-> NoChunks]
  /\ genieScreen' = GameGenie
  /\ UNCHANGED <<files, game, binding, g_unknownChunks, rowVars, undoVars,
                 loadStateFailed>>

(* A process starts anew; the files stay as they are then.                 *)
Restarted ==
  /\ game' = NoGame /\ binding' = NoBinding /\ genieScreen' = FALSE
  /\ machine' \in [content : Machines, chunks : {NoChunks}]
  /\ g_unknownChunks' = NoChunks
  /\ CurrentState' = 0
  /\ SaveStateStatus' = [s \in Slots |-> FALSE] /\ StateShow' = FALSE
  /\ lastSavestateMade' = NoName /\ undoSS' = FALSE /\ redoSS' = FALSE
  /\ loadStateFailed' = FALSE

(* The process ends: between two operations, with a slot renamed but not   *)
(* written, with a slot opened but not written, or within an exchange.     *)
EndIdle == files' = files /\ Restarted

EndSaving(s) ==
  LET f == SlotFile(s) IN
  /\ "saving" \in CutShort
  /\ MaySave /\ Exists(files, f)
  /\ files' \in {Remove(files, BackupOf(f)), CreateBackup(files, f),
                 Write(CreateBackup(files, f), f, "cut")}
  /\ Restarted

EndSwapping ==
  LET f == lastSavestateMade
      b == BackupOf(f)
      first == Rename(files, b, TempOf(f))
  IN
  /\ "swapping" \in CutShort
  /\ f # NoName /\ (undoSS \/ redoSS) /\ Exists(files, b)
  /\ files' \in {first, Rename(first, f, b)}
  /\ Restarted

Init ==
  /\ files \in Given
  /\ game = NoGame /\ binding = NoBinding /\ genieScreen = FALSE
  /\ machine \in [content : Machines, chunks : {NoChunks}]
  /\ g_unknownChunks = NoChunks
  /\ CurrentState = 0
  /\ SaveStateStatus = [s \in Slots |-> FALSE] /\ StateShow = FALSE
  /\ lastSavestateMade = NoName /\ undoSS = FALSE /\ redoSS = FALSE
  /\ loadStateFailed = FALSE

Save ==
  \/ \E s \in Slots, direct \in BOOLEAN, o \in Outcomes :
       SaveOver(s, direct, o) \/ SaveNew(s, direct, o)
  \/ \E s \in Slots, direct \in BOOLEAN : SaveOnGenieScreen(s, direct)
  \/ \E f \in Named, byLua \in BOOLEAN, o \in Outcomes : SaveNamed(f, byLua, o)
  \/ UndoRedoSavestate

Load ==
  \/ \E s \in Slots, direct \in BOOLEAN, o \in Outcomes, v \in Verdicts :
       LoadSlot(s, direct, o, v)
  \/ \E f \in Named, o \in Outcomes, v \in Verdicts : LoadNamed(f, o, v)
  \/ \E s \in Slots, direct \in BOOLEAN : LoadOnGenieScreen(s, direct)
  \/ \E f \in Named, v \in Verdicts : LoadByLua(f, v)
  \/ \E m \in Machines, u \in Chunks \cup {NoChunks}, v \in Verdicts :
       LoadFromMemory(m, u, v)

Select ==
  \/ \E s \in Slots, show \in BOOLEAN : SelectSlot(s, show)
  \/ \E step \in {1, SlotCount - 1} : SelectNext(step)
  \/ RowFades

Session ==
  \/ \E g \in Games, m \in Machines, v \in Verdicts : OpenGame(g, m, v)
  \/ \E o \in Outcomes : CloseNes(o)
  \/ CloseGba
  \/ \E b \in Bindings \cup {NoBinding} : Rebind(b)
  \/ \E m \in Machines : Run(m) \/ Power(m)

End ==
  \/ EndIdle
  \/ \E s \in Slots : EndSaving(s)
  \/ EndSwapping

Next == Save \/ Load \/ Select \/ Session \/ End

Spec == Init /\ [][Next]_vars
=============================================================================
