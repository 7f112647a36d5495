-------------------------- MODULE SaveSlotsProperties --------------------------
(* What the savestate files, their backups and the preserved chunks keep.  *)
EXTENDS SaveSlots

CONSTANT NoUndo

SlotNames ==
  {SlotOf(g, b, s, "slot") : g \in Games, b \in Bindings \cup {NoBinding},
                             s \in Slots}

ASSUME UndoAssumption == NoUndo \notin [name : SlotNames, content : Contents]

SessionTyped ==
  /\ game \in Games \cup {NoGame}
  /\ binding \in Bindings \cup {NoBinding}
  /\ genieScreen \in BOOLEAN
  /\ genieScreen => game \in Games \ GbaGames

MachineTyped ==
  /\ machine \in [content : Machines, chunks : Chunks \cup {NoChunks}]
  /\ g_unknownChunks \in Chunks \cup {NoChunks}

RowTyped ==
  /\ CurrentState \in Slots
  /\ SaveStateStatus \in [Slots -> BOOLEAN]
  /\ StateShow \in BOOLEAN

UndoTyped ==
  /\ lastSavestateMade \in SlotNames \cup {NoName}
  /\ undoSS \in BOOLEAN /\ redoSS \in BOOLEAN

(* Every variable of state.cpp, and every file, holds what it may.         *)
TypeOK ==
  /\ files \in [Files -> Contents]
  /\ SessionTyped /\ MachineTyped /\ RowTyped /\ UndoTyped
  /\ loadStateFailed \in BOOLEAN

-----------------------------------------------------------------------------
(* Slots and their undo.                                                   *)

(* What UndoRedoSavestate would bring back.                                *)
UndoOnOffer ==
  IF lastSavestateMade # NoName /\ (undoSS \/ redoSS)
  THEN LET b == BackupOf(lastSavestateMade) IN
       IF Exists(files, b)
       THEN [name |-> lastSavestateMade, content |-> files[b]] ELSE NoUndo
  ELSE NoUndo

Undoable == INSTANCE UndoableSlots WITH
  Names <- SlotNames,
  slots <- [f \in SlotNames |-> files[f]],
  undo <- UndoOnOffer

(* The flags and file names of FCEUSS_Save and SwapSaveState implement an  *)
(* undo of one step: it brings back what the last save by slot replaced,   *)
(* never the content of another file or of an earlier save.                *)
KeepsUndo == Undoable!Spec

(* The comment in SwapSaveState, "now swap the last savestate and its      *)
(* backup": an undo that the program reports has put back what was on      *)
(* offer, and offers what it replaced. (An undo that changes nothing would *)
(* be no step of the promise, and KeepsUndo allows that.)                  *)
UndoRestores == [][UndoRedoSavestate => Undoable!UndoRedo]_vars

(* A save that fails at any point, the end of the process within it, and   *)
(* an undo leave what a slot held readable, in the slot or its backup;     *)
(* only a save by name writes over it.                                     *)
NeverLosesSlot ==
  [][\A f \in SlotNames :
       files[f] \in Savestate =>
         \/ files[f] \in {files'[f], files'[BackupOf(f)], files'[TempOf(f)]}
         \/ \E byLua \in BOOLEAN, o \in Outcomes : SaveNamed(f, byLua, o)]_vars

(* The comment on undoSS, "it was made since ROM was loaded": an undo      *)
(* concerns the game that is open.                                         *)
UndoSinceOpen == undoSS /\ game # NoGame => lastSavestateMade[1] = game

-----------------------------------------------------------------------------
(* Loads.                                                                  *)

LoadStep(f) ==
  \E o \in Outcomes, v \in Verdicts :
    \/ LoadNamed(f, o, v)
    \/ \E s \in Slots, direct \in BOOLEAN :
         f = SlotFile(s) /\ LoadSlot(s, direct, o, v)

(* BackupLoadState: a machine that a load replaces is in the backup file,  *)
(* with the chunks that were preserved for it.                             *)
PlaceKept ==
  [][\A f \in Named :
       LoadStep(f) /\ machine' # machine => files'[PreLoad] = Present]_vars

(* The chunks preserved by FCEUSS_LoadFP are those of the savestate that   *)
(* the machine comes from, until a load fails or the machine is powered    *)
(* on: those two keep the one and change the other.                        *)
ChunksFollow ==
  [][g_unknownChunks = machine.chunks =>
       \/ g_unknownChunks' = machine'.chunks
       \/ machine' = machine /\ g_unknownChunks' = NoChunks
       \/ \E g \in Games, m \in Machines, v \in Verdicts : OpenGame(g, m, v)
       \/ \E m \in Machines : Power(m)]_vars

-----------------------------------------------------------------------------
(* The row of slots that FCEU_DrawSaveStates shows.                        *)

RowRight == StateShow /\ game # NoGame => SaveStateStatus = Status(files)

(* While it is shown, the row agrees with the files; it falls behind only  *)
(* by what goes past the slot commands: Lua, a change of the names, or an  *)
(* undo that makes a slot exist.                                           *)
RowGoesStale ==
  [][RowRight =>
       \/ RowRight'
       \/ <<game, binding>>' # <<game, binding>>
       \/ \E f \in Named, o \in Outcomes : SaveNamed(f, TRUE, o)
       \/ \E f \in Named, v \in Verdicts : LoadByLua(f, v)
       \/ UndoRedoSavestate /\ ~Exists(files, lastSavestateMade)]_vars
=============================================================================
