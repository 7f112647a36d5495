---------------------------- MODULE SaveSlotsProofs ----------------------------
(***************************************************************************)
(* Proofs about the savestate slots, for any games, bindings, number of    *)
(* slots, files of the user and outcomes.                                  *)
(***************************************************************************)
EXTENDS SaveSlotsProperties, TLAPS

FileMap == [Files -> Contents]

-----------------------------------------------------------------------------
(* The names of files.                                                     *)

(* A slot, its backup and the temporary file of an exchange are three      *)
(* files, and no two slots share one of them.                              *)
LEMMA RolesApart ==
  ASSUME NEW f \in SlotNames, NEW n \in SlotNames
  PROVE  /\ {f, BackupOf(f), TempOf(f)} \subseteq ProgramFiles
         /\ BackupOf(f) \notin SlotNames /\ TempOf(f) \notin SlotNames
         /\ BackupOf(f) # TempOf(n)
         /\ f # n => BackupOf(f) # BackupOf(n) /\ TempOf(f) # TempOf(n)
<1>1. PICK g \in Games, b \in Bindings \cup {NoBinding}, s \in Slots :
        f = SlotOf(g, b, s, "slot")
  BY DEF SlotNames
<1>2. PICK h \in Games, c \in Bindings \cup {NoBinding}, t \in Slots :
        n = SlotOf(h, c, t, "slot")
  BY DEF SlotNames
<1>3. /\ BackupOf(f) = SlotOf(g, b, s, "bak") /\ TempOf(f) = SlotOf(g, b, s, "bakx")
      /\ BackupOf(n) = SlotOf(h, c, t, "bak") /\ TempOf(n) = SlotOf(h, c, t, "bakx")
  BY <1>1, <1>2 DEF BackupOf, TempOf, SlotOf
<1>4. {f, BackupOf(f), TempOf(f)} \subseteq ProgramFiles
  BY <1>1, <1>3 DEF ProgramFiles
<1>5. BackupOf(f) \notin SlotNames /\ TempOf(f) \notin SlotNames
  BY <1>3 DEF SlotNames, SlotOf
<1> QED BY <1>1, <1>2, <1>3, <1>4, <1>5 DEF SlotOf

(* A file of a game that is open is one of the program's.                  *)
LEMMA OpenNames ==
  ASSUME TypeOK, game # NoGame
  PROVE  /\ PreLoad \in ProgramFiles /\ PreLoad \notin SlotNames
         /\ \A s \in Slots : SlotFile(s) \in SlotNames
         /\ \A f \in SlotNames : PreLoad # BackupOf(f) /\ PreLoad # TempOf(f)
<1>1. game \in Games /\ binding \in Bindings \cup {NoBinding}
  BY DEF TypeOK, SessionTyped
<1>2. PreLoad \in ProgramFiles
  BY <1>1 DEF PreLoad, ProgramFiles
<1>3. PreLoad \notin SlotNames
  BY DEF PreLoad, SlotNames, SlotOf
<1>4. \A f \in SlotNames : PreLoad # BackupOf(f) /\ PreLoad # TempOf(f)
  BY DEF PreLoad, BackupOf, TempOf, SlotOf
<1> QED BY <1>1, <1>2, <1>3, <1>4 DEF SlotFile, SlotNames

(* No file of the user is a slot, a backup or a temporary file.            *)
LEMMA UserApart ==
  ASSUME NEW f \in UserFiles, NEW n \in SlotNames
  PROVE  f \notin SlotNames /\ f # BackupOf(n) /\ f # TempOf(n)
<1>1. f \notin ProgramFiles
  BY SlotsAssumption
<1>2. SlotNames \subseteq ProgramFiles
  BY RolesApart
<1> QED BY <1>1, <1>2, RolesApart

-----------------------------------------------------------------------------
(* The types.                                                              *)

(* What a save writes is a savestate.                                      *)
LEMMA PresentTyped ==
  ASSUME TypeOK, game # NoGame
  PROVE  Present \in Savestate
  BY DEF TypeOK, SessionTyped, MachineTyped, Present, Savestate

(* Writing, renaming and removing keep the types of the files.             *)
LEMMA FilesTyped ==
  ASSUME NEW fs \in FileMap, NEW f \in Files
  PROVE  /\ Remove(fs, f) \in FileMap
         /\ \A g \in Files : Rename(fs, f, g) \in FileMap
         /\ TypeOK /\ game # NoGame => \A o \in Outcomes : Write(fs, f, o) \in FileMap
<1>1. NoFile \in Contents /\ Damaged \in Contents /\ Savestate \subseteq Contents
  BY DEF Contents
<1>2. fs[f] \in Contents
  BY DEF FileMap
<1>3. Remove(fs, f) \in FileMap
  BY <1>1 DEF Remove, FileMap
<1>4. ASSUME NEW g \in Files PROVE Rename(fs, f, g) \in FileMap
  BY <1>1, <1>2 DEF Rename, FileMap
<1>5. ASSUME TypeOK, game # NoGame, NEW o \in Outcomes
      PROVE  Write(fs, f, o) \in FileMap
  <2>1. Present \in Contents
    BY <1>1, <1>5, PresentTyped
  <2>2. o \in {"written", "cut", "unopened"}
    BY SlotsAssumption
  <2> QED BY <1>1, <2>1, <2>2 DEF Write, FileMap
<1> QED BY <1>3, <1>4, <1>5

(* A backup of a slot keeps them as well.                                  *)
LEMMA BackupTyped ==
  ASSUME NEW fs \in FileMap, NEW f \in SlotNames
  PROVE  CreateBackup(fs, f) \in FileMap
<1>1. f \in Files /\ BackupOf(f) \in Files
  BY RolesApart DEF Files
<1> QED BY <1>1, FilesTyped DEF CreateBackup

(* So does an exchange.                                                    *)
LEMMA ExchangeTyped ==
  ASSUME NEW fs \in FileMap, NEW f \in SlotNames
  PROVE  LET first == Rename(fs, BackupOf(f), TempOf(f))
             second == Rename(first, f, BackupOf(f))
         IN {first, second, Rename(second, TempOf(f), f)} \subseteq FileMap
<1>1. {f, BackupOf(f), TempOf(f)} \subseteq Files
  BY RolesApart DEF Files
<1> QED BY <1>1, FilesTyped

(* What no step changes keeps its types.                                   *)
LEMMA Unchanged ==
  ASSUME TypeOK
  PROVE  /\ UNCHANGED sessionVars => SessionTyped'
         /\ UNCHANGED machineVars => MachineTyped'
         /\ UNCHANGED rowVars => RowTyped'
         /\ UNCHANGED undoVars => UndoTyped'
  BY DEF TypeOK, sessionVars, machineVars, rowVars, undoVars,
         SessionTyped, MachineTyped, RowTyped, UndoTyped

(* A slot command leaves a row of slots.                                   *)
LEMMA CommandTyped ==
  ASSUME RowTyped, NEW s, NEW direct, NEW marked \in [Slots -> BOOLEAN],
         SlotCommand(s, direct, marked)
  PROVE  RowTyped'
  BY DEF SlotCommand, Status, Exists, RowTyped

(* What is marked in the row after a save or a load.                       *)
LEMMA MarksTyped ==
  ASSUME RowTyped, NEW s \in Slots
  PROVE  /\ Cleared(s) \in [Slots -> BOOLEAN]
         /\ \A o : Saved(s, o) \in [Slots -> BOOLEAN]
         /\ \A named, c, v : AfterRead(s, named, c, v) \in [Slots -> BOOLEAN]
  BY DEF RowTyped, Cleared, Saved, AfterRead

(* Reading leaves a machine and chunks of the kind they are of.            *)
LEMMA ReadTyped ==
  ASSUME MachineTyped, NEW g, NEW c, NEW v, NEW before,
         before \in [content : Machines, chunks : Chunks \cup {NoChunks}],
         Read(g, c, v, before)
  PROVE  MachineTyped'
<1>1. Takes(g, c, v) => c.machine \in Machines /\ c.chunks \in Chunks \cup {NoChunks}
  BY DEF Takes, Savestate
<1> QED BY <1>1 DEF Read, MachineTyped

-----------------------------------------------------------------------------
(* Each step keeps the types: saving.                                      *)
LEMMA SaveTyped ==
  ASSUME TypeOK, Save
  PROVE  TypeOK'
<1> USE DEF Save
<1>0. /\ files \in FileMap /\ RowTyped /\ UndoTyped /\ loadStateFailed \in BOOLEAN
      /\ SlotNames \subseteq Files
  BY RolesApart DEF TypeOK, FileMap, Files
<1>1. ASSUME NEW s \in Slots, NEW direct \in BOOLEAN, NEW o \in Outcomes,
             SaveOver(s, direct, o)
      PROVE  TypeOK'
  <2>1. game # NoGame /\ SlotFile(s) \in SlotNames
    BY <1>1, OpenNames DEF SaveOver, MaySave
  <2>2. files' \in FileMap
    BY <1>0, <1>1, <2>1, BackupTyped, FilesTyped DEF SaveOver
  <2>3. RowTyped'
    BY <1>0, <1>1, MarksTyped, CommandTyped DEF SaveOver
  <2>4. UndoTyped'
    BY <1>0, <1>1, <2>1 DEF SaveOver, UndoTyped
  <2> QED BY <1>0, <1>1, <2>2, <2>3, <2>4, Unchanged DEF SaveOver, TypeOK, FileMap
<1>2. ASSUME NEW s \in Slots, NEW direct \in BOOLEAN, NEW o \in Outcomes,
             SaveNew(s, direct, o)
      PROVE  TypeOK'
  <2>1. game # NoGame /\ SlotFile(s) \in SlotNames
    BY <1>2, OpenNames DEF SaveNew, MaySave
  <2>2. files' \in FileMap
    BY <1>0, <1>2, <2>1, FilesTyped DEF SaveNew
  <2>3. RowTyped'
    BY <1>0, <1>2, MarksTyped, CommandTyped DEF SaveNew
  <2>4. UndoTyped'
    BY <1>0, <1>2 DEF SaveNew, UndoTyped
  <2> QED BY <1>0, <1>2, <2>2, <2>3, <2>4, Unchanged DEF SaveNew, TypeOK, FileMap
<1>3. ASSUME NEW s \in Slots, NEW direct \in BOOLEAN, SaveOnGenieScreen(s, direct)
      PROVE  TypeOK'
  <2>1. RowTyped'
    BY <1>0, <1>3, CommandTyped DEF SaveOnGenieScreen, RowTyped
  <2> QED BY <1>0, <1>3, <2>1, Unchanged DEF SaveOnGenieScreen, TypeOK, FileMap
<1>4. ASSUME NEW f \in Named, NEW byLua \in BOOLEAN, NEW o \in Outcomes,
             SaveNamed(f, byLua, o)
      PROVE  TypeOK'
  <2>1. game # NoGame /\ f \in Files
    BY <1>0, <1>4, OpenNames DEF SaveNamed, MaySave, Named, Files
  <2>2. files' \in FileMap
    BY <1>0, <1>4, <2>1, FilesTyped DEF SaveNamed
  <2>3. RowTyped' /\ UndoTyped'
    BY <1>0, <1>4 DEF SaveNamed, UndoTyped, RowTyped
  <2> QED BY <1>0, <1>4, <2>2, <2>3, Unchanged DEF SaveNamed, TypeOK, FileMap
<1>5. CASE UndoRedoSavestate
  <2>1. lastSavestateMade \in SlotNames
    BY <1>0, <1>5 DEF UndoRedoSavestate, UndoTyped
  <2>2. files' \in FileMap
    BY <1>0, <1>5, <2>1, ExchangeTyped DEF UndoRedoSavestate, Swapped
  <2>3. UndoTyped'
    BY <1>0, <1>5 DEF UndoRedoSavestate, UndoTyped
  <2> QED BY <1>0, <1>5, <2>2, <2>3, Unchanged DEF UndoRedoSavestate, TypeOK, FileMap
<1> QED BY <1>1, <1>2, <1>3, <1>4, <1>5

(* Loading.                                                                *)
LEMMA LoadTyped ==
  ASSUME TypeOK, Load
  PROVE  TypeOK'
<1>0. /\ files \in FileMap /\ RowTyped /\ UndoTyped /\ MachineTyped
      /\ loadStateFailed \in BOOLEAN /\ CurrentState \in Slots
      /\ machine \in [content : Machines, chunks : Chunks \cup {NoChunks}]
  BY DEF TypeOK, FileMap, RowTyped, MachineTyped
<1>a. ASSUME MaySave, NEW o \in Outcomes PROVE BackedUp(o) \in FileMap
  BY <1>0, <1>a, OpenNames, FilesTyped DEF BackedUp, MaySave, Files
<1>b. /\ \A c, v : AfterRead(CurrentState, TRUE, c, v) \in [Slots -> BOOLEAN]
      /\ Cleared(CurrentState) \in [Slots -> BOOLEAN]
  BY <1>0, MarksTyped
<1>1. ASSUME NEW s \in Slots, NEW direct \in BOOLEAN, NEW o \in Outcomes,
             NEW v \in Verdicts, LoadSlot(s, direct, o, v)
      PROVE  TypeOK'
  <2>1. files' \in FileMap
    BY <1>1, <1>a DEF LoadSlot
  <2>2. RowTyped'
    BY <1>0, <1>1, MarksTyped, CommandTyped DEF LoadSlot
  <2>3. MachineTyped'
    BY <1>0, <1>1, ReadTyped, Unchanged DEF LoadSlot
  <2>4. UndoTyped' /\ loadStateFailed' \in BOOLEAN
    BY <1>0, <1>1 DEF LoadSlot, UndoTyped
  <2> QED BY <1>1, <2>1, <2>2, <2>3, <2>4, Unchanged DEF LoadSlot, TypeOK, FileMap
<1>2. ASSUME NEW f \in Named, NEW o \in Outcomes, NEW v \in Verdicts,
             LoadNamed(f, o, v)
      PROVE  TypeOK'
  <2>1. files' \in FileMap
    BY <1>2, <1>a DEF LoadNamed
  <2>2. RowTyped'
    <3>1. CurrentState' = CurrentState /\ StateShow' = FALSE
      BY <1>2 DEF LoadNamed
    <3>2. \/ SaveStateStatus' = SaveStateStatus
          \/ SaveStateStatus' = AfterRead(CurrentState, TRUE, BackedUp(o)[f], v)
      BY <1>2 DEF LoadNamed
    <3>3. SaveStateStatus' \in [Slots -> BOOLEAN]
      <4>1. SaveStateStatus \in [Slots -> BOOLEAN]
        BY <1>0 DEF RowTyped
      <4>2. AfterRead(CurrentState, TRUE, BackedUp(o)[f], v) \in [Slots -> BOOLEAN]
        BY <1>b
      <4> QED BY <3>2, <4>1, <4>2
    <3> QED BY <1>0, <3>1, <3>3 DEF RowTyped
  <2>3. MachineTyped'
    BY <1>0, <1>2, ReadTyped, Unchanged DEF LoadNamed
  <2>4. UndoTyped' /\ loadStateFailed' \in BOOLEAN
    BY <1>0, <1>2 DEF LoadNamed, UndoTyped
  <2> QED BY <1>2, <2>1, <2>2, <2>3, <2>4, Unchanged DEF LoadNamed, TypeOK, FileMap
<1>3. ASSUME NEW s \in Slots, NEW direct \in BOOLEAN, LoadOnGenieScreen(s, direct)
      PROVE  TypeOK'
  <2>1. RowTyped'
    BY <1>0, <1>3, CommandTyped DEF LoadOnGenieScreen, RowTyped
  <2> QED BY <1>0, <1>3, <2>1, Unchanged DEF LoadOnGenieScreen, TypeOK, FileMap
<1>4. ASSUME NEW f \in Named, NEW v \in Verdicts, LoadByLua(f, v)
      PROVE  TypeOK'
  <2>1. RowTyped'
    <3>1. CurrentState' = CurrentState /\ StateShow' = StateShow
      BY <1>4 DEF LoadByLua
    <3>2. \/ SaveStateStatus' = Cleared(CurrentState)
          \/ SaveStateStatus' = AfterRead(CurrentState, TRUE, files[f], v)
      BY <1>4 DEF LoadByLua
    <3>3. SaveStateStatus' \in [Slots -> BOOLEAN]
      BY <1>b, <3>2
    <3> QED BY <1>0, <3>1, <3>3 DEF RowTyped
  <2>2. MachineTyped'
    BY <1>0, <1>4, ReadTyped, Unchanged DEF LoadByLua
  <2> QED BY <1>0, <1>4, <2>1, <2>2, Unchanged DEF LoadByLua, TypeOK, FileMap
<1>5. ASSUME NEW m \in Machines, NEW u \in Chunks \cup {NoChunks},
             NEW v \in Verdicts, LoadFromMemory(m, u, v)
      PROVE  TypeOK'
  <2>1. MachineTyped'
    BY <1>0, <1>5, ReadTyped DEF LoadFromMemory
  <2> QED BY <1>0, <1>5, <2>1, Unchanged DEF LoadFromMemory, TypeOK, FileMap
<1> QED BY <1>1, <1>2, <1>3, <1>4, <1>5 DEF Load

(* The row of slots.                                                       *)
LEMMA SelectTyped ==
  ASSUME TypeOK, Select
  PROVE  TypeOK'
<1>0. files \in FileMap /\ RowTyped /\ loadStateFailed \in BOOLEAN
  BY DEF TypeOK, FileMap
<1>1. ASSUME NEW s \in Slots, NEW show \in BOOLEAN, SelectSlot(s, show)
      PROVE  TypeOK'
  <2>1. RowTyped'
    BY <1>1 DEF SelectSlot, RowTyped, Status, Exists
  <2> QED BY <1>0, <1>1, <2>1, Unchanged DEF SelectSlot, TypeOK, FileMap
<1>2. ASSUME NEW step \in {1, SlotCount - 1}, SelectNext(step)
      PROVE  TypeOK'
  <2> DEFINE s == (CurrentState + step) % SlotCount
  <2>1. s \in Slots
    <3>1. SlotCount \in Nat \ {0} /\ CurrentState + step \in Int
      BY <1>0, SlotsAssumption DEF RowTyped, Slots
    <3> HIDE <1>2
    <3> QED BY <3>1, SMTT(30) DEF Slots
  <2> HIDE DEF s
  <2>2. SelectSlot(s, TRUE)
    BY <1>2 DEF SelectNext, s
  <2> QED BY <1>1, <2>1, <2>2
<1>3. CASE RowFades
  <2>1. RowTyped'
    BY <1>0, <1>3 DEF RowFades, RowTyped
  <2> QED BY <1>0, <1>3, <2>1, Unchanged DEF RowFades, TypeOK, FileMap
<1> QED BY <1>1, <1>2, <1>3 DEF Select

(* The session.                                                            *)
LEMMA SessionStepTyped ==
  ASSUME TypeOK, Session
  PROVE  TypeOK'
<1>0. /\ files \in FileMap /\ RowTyped /\ MachineTyped /\ SessionTyped
      /\ loadStateFailed \in BOOLEAN
      /\ {AutoResumePlay, GameGenie, Scripts} \subseteq BOOLEAN
  BY SlotsAssumption DEF TypeOK, FileMap
<1>1. ASSUME NEW g \in Games, NEW m \in Machines, NEW v \in Verdicts,
             OpenGame(g, m, v)
      PROVE  TypeOK'
  <2>1. SessionTyped'
    BY <1>0, <1>1 DEF OpenGame, SessionTyped
  <2>2. MachineTyped'
    <3>1. [content |-> m, chunks |-> NoChunks]
            \in [content : Machines, chunks : Chunks \cup {NoChunks}]
      OBVIOUS
    <3> QED BY <1>0, <1>1, <3>1, ReadTyped DEF OpenGame, MachineTyped
  <2>3. RowTyped'
    <3>1. Cleared(CurrentState) \in [Slots -> BOOLEAN]
      BY <1>0, MarksTyped DEF RowTyped
    <3>2. SaveStateStatus' \in {SaveStateStatus, Cleared(CurrentState)}
      BY <1>1 DEF OpenGame
    <3>3. CurrentState' = CurrentState /\ StateShow' = StateShow
      BY <1>1 DEF OpenGame
    <3> QED BY <1>0, <3>1, <3>2, <3>3 DEF RowTyped
  <2> QED BY <1>0, <1>1, <2>1, <2>2, <2>3, Unchanged DEF OpenGame, TypeOK, FileMap
<1>2. ASSUME NEW o \in Outcomes, CloseNes(o)
      PROVE  TypeOK'
  <2>1. game \in Games /\ game # NoGame
    BY <1>2, SlotsAssumption DEF CloseNes
  <2>2. ResumeOf(game) \in Files
    BY <2>1 DEF ResumeOf, Files, ProgramFiles
  <2>3. files' \in FileMap
    BY <1>0, <1>2, <2>1, <2>2, FilesTyped DEF CloseNes
  <2>4. SessionTyped' /\ UndoTyped'
    BY <1>2 DEF CloseNes, SessionTyped, UndoTyped
  <2> QED BY <1>0, <1>2, <2>3, <2>4, Unchanged DEF CloseNes, TypeOK, FileMap
<1>3. CASE CloseGba
  <2>1. SessionTyped'
    BY <1>0, <1>3 DEF CloseGba, SessionTyped, IsGba
  <2> QED BY <1>0, <1>3, <2>1, Unchanged DEF CloseGba, TypeOK, FileMap
<1>4. ASSUME NEW b \in Bindings \cup {NoBinding}, Rebind(b)
      PROVE  TypeOK'
  <2>1. SessionTyped'
    BY <1>0, <1>4 DEF Rebind, SessionTyped
  <2> QED BY <1>0, <1>4, <2>1, Unchanged DEF Rebind, TypeOK, FileMap
<1>5. ASSUME NEW m \in Machines, Run(m)
      PROVE  TypeOK'
  <2>1. SessionTyped' /\ MachineTyped'
    <3>1. genieScreen' = genieScreen \/ genieScreen' = FALSE
      BY <1>5 DEF Run
    <3>2. game' = game /\ binding' = binding /\ g_unknownChunks' = g_unknownChunks
      BY <1>5 DEF Run
    <3>3. SessionTyped'
      <4>1. CASE genieScreen' = genieScreen
        BY <1>0, <3>2, <4>1 DEF SessionTyped
      <4>2. CASE genieScreen' = FALSE
        BY <1>0, <3>2, <4>2 DEF SessionTyped
      <4> QED BY <3>1, <4>1, <4>2
    <3>4. machine' \in [content : Machines, chunks : Chunks \cup {NoChunks}]
      BY <1>0, <1>5 DEF Run, MachineTyped
    <3> QED BY <1>0, <3>2, <3>3, <3>4 DEF MachineTyped
  <2> QED BY <1>0, <1>5, <2>1, Unchanged DEF Run, TypeOK, FileMap
<1>6. ASSUME NEW m \in Machines, Power(m)
      PROVE  TypeOK'
  <2>1. SessionTyped' /\ MachineTyped'
    BY <1>0, <1>6 DEF Power, SessionTyped, MachineTyped
  <2> QED BY <1>0, <1>6, <2>1, Unchanged DEF Power, TypeOK, FileMap
<1> QED BY <1>1, <1>2, <1>3, <1>4, <1>5, <1>6 DEF Session

(* The end of the process.                                                 *)
LEMMA EndTyped ==
  ASSUME TypeOK, End
  PROVE  TypeOK'
<1>0. files \in FileMap /\ UndoTyped
  BY DEF TypeOK, FileMap
<1>1. SUFFICES files' \in FileMap /\ Restarted
  <2>1. Restarted => SessionTyped' /\ MachineTyped' /\ RowTyped' /\ UndoTyped'
    <3>1. 0 \in Slots
      BY SlotsAssumption DEF Slots
    <3> QED BY <3>1 DEF Restarted, SessionTyped, MachineTyped, RowTyped, UndoTyped
  <2> QED BY <2>1 DEF Restarted, TypeOK, FileMap
<1>2. CASE EndIdle
  BY <1>0, <1>2 DEF EndIdle
<1>3. ASSUME NEW s \in Slots, EndSaving(s)
      PROVE  files' \in FileMap /\ Restarted
  <2>1. game # NoGame /\ SlotFile(s) \in SlotNames
    BY <1>3, OpenNames DEF EndSaving, MaySave
  <2>2. SlotFile(s) \in Files /\ BackupOf(SlotFile(s)) \in Files
    BY <2>1, RolesApart DEF Files
  <2>3. Write(CreateBackup(files, SlotFile(s)), SlotFile(s), "cut") \in FileMap
    BY <1>0, <2>1, BackupTyped DEF Write, FileMap, Contents
  <2> QED BY <1>0, <1>3, <2>1, <2>2, <2>3, BackupTyped, FilesTyped DEF EndSaving
<1>4. CASE EndSwapping
  <2>1. lastSavestateMade \in SlotNames
    BY <1>0, <1>4 DEF EndSwapping, UndoTyped
  <2> QED BY <1>0, <1>4, <2>1, ExchangeTyped DEF EndSwapping
<1> QED BY <1>2, <1>3, <1>4 DEF End

(* Every step keeps the types.                                             *)
LEMMA StepTyped ==
  ASSUME TypeOK, [Next]_vars
  PROVE  TypeOK'
<1>1. CASE UNCHANGED vars
  <2>1. UNCHANGED <<files, loadStateFailed, sessionVars, machineVars, undoVars, rowVars>>
    BY <1>1 DEF vars
  <2> QED BY <2>1, Unchanged DEF TypeOK
<1> QED BY <1>1, SaveTyped, LoadTyped, SelectTyped, SessionStepTyped, EndTyped
        DEF Next

(* Every variable of the savestate slots, and every file, holds what it    *)
(* may, for any games, bindings, slots and outcomes.                       *)
THEOREM SlotsTyped == Spec => []TypeOK
<1>1. Init => TypeOK
  <2>1. 0 \in Slots /\ Given \subseteq [Files -> Contents]
    BY SlotsAssumption DEF Slots
  <2> QED BY <2>1 DEF Init, TypeOK, SessionTyped, MachineTyped, RowTyped, UndoTyped
<1>2. TypeOK /\ [Next]_vars => TypeOK'
  BY StepTyped
<1> QED BY <1>1, <1>2, PTL DEF Spec

-----------------------------------------------------------------------------
(* What a slot held is not lost.                                           *)

(* Renaming moves a file to a free name or changes nothing: it loses no    *)
(* file, and no other file is touched.                                     *)
LEMMA RenameKeeps ==
  ASSUME NEW fs \in FileMap, NEW a \in Files, NEW b \in Files, a # b
  PROVE  LET r == Rename(fs, a, b) IN
         /\ \A x \in Files \ {a, b} : r[x] = fs[x]
         /\ r[a] = fs[a] \/ r[b] = fs[a]
         /\ fs[b] # NoFile => r[b] = fs[b]
  BY DEF Rename, Exists, FileMap

(* A backup holds what the slot held, and the slot is free.                *)
LEMMA BackupMade ==
  ASSUME NEW fs \in FileMap, NEW f \in SlotNames, Exists(fs, f)
  PROVE  CreateBackup(fs, f) =
           [fs EXCEPT ![BackupOf(f)] = fs[f], ![f] = NoFile]
<1>1. f \in Files /\ BackupOf(f) \in Files /\ f # BackupOf(f)
  BY RolesApart DEF Files
<1> QED BY <1>1 DEF CreateBackup, Rename, Remove, Exists, FileMap

(* An exchange loses no slot: what it held is in one of its three files,   *)
(* after each of the renames.                                              *)
LEMMA ExchangeKeeps ==
  ASSUME NEW fs \in FileMap, NEW f \in SlotNames, NEW n \in SlotNames,
         fs[n] # NoFile
  PROVE  LET first == Rename(fs, BackupOf(f), TempOf(f))
             second == Rename(first, f, BackupOf(f))
             third == Rename(second, TempOf(f), f)
         IN /\ first[n] = fs[n]
            /\ fs[n] \in {second[n], second[BackupOf(n)]}
            /\ fs[n] \in {third[n], third[BackupOf(n)]}
<1> DEFINE b == BackupOf(f)
           t == TempOf(f)
           first == Rename(fs, b, t)
           second == Rename(first, f, b)
           third == Rename(second, t, f)
<1>1. /\ {f, b, t, n} \subseteq Files /\ b # t /\ f # b /\ f # t
      /\ n # b /\ n # t
  BY RolesApart DEF Files
<1>2. {first, second, third} \subseteq FileMap
  BY ExchangeTyped
<1> HIDE DEF b, t
<1>3. first[n] = fs[n]
  BY <1>1, RenameKeeps
<1>4. CASE n # f
  <2>1. second[n] = fs[n]
    BY <1>1, <1>2, <1>3, <1>4, RenameKeeps
  <2>2. third[n] = fs[n]
    BY <1>1, <1>2, <1>4, <2>1, RenameKeeps
  <2> QED BY <1>3, <2>1, <2>2 DEF b, t
<1>5. CASE n = f
  <2>1. second[f] = fs[f] \/ second[b] = fs[f]
    BY <1>1, <1>2, <1>3, <1>5, RenameKeeps
  <2>2. second[b] = fs[f] => third[b] = fs[f]
    BY <1>1, <1>2, RenameKeeps
  <2>3. second[f] = fs[f] => third[f] = fs[f]
    BY <1>1, <1>2, <1>5, RenameKeeps
  <2> QED BY <1>3, <1>5, <2>1, <2>2, <2>3 DEF b, t
<1> QED BY <1>4, <1>5

(* Writing a file touches no other.                                        *)
LEMMA WriteElsewhere ==
  ASSUME NEW fs \in FileMap, NEW f \in Files, NEW g, f # g,
         NEW o \in {"written", "cut", "unopened"}
  PROVE  Write(fs, g, o)[f] = fs[f]
  BY DEF Write, FileMap

(* What slot f held is still there after the step.                         *)
StillThere(f) == files[f] \in {files'[f], files'[BackupOf(f)], files'[TempOf(f)]}

(* Saving over a slot leaves what it held in the backup, at every point.   *)
LEMMA SavingKeeps ==
  ASSUME TypeOK, NEW g \in SlotNames, Exists(files, g),
         NEW f \in SlotNames,
         NEW o \in {"written", "cut", "unopened"}
  PROVE  /\ files' = Write(CreateBackup(files, g), g, o) => StillThere(f)
         /\ files' = CreateBackup(files, g) => StillThere(f)
         /\ files' = Remove(files, BackupOf(g)) => StillThere(f)
<1> DEFINE made == [files EXCEPT ![BackupOf(g)] = files[g], ![g] = NoFile]
<1>1. files \in FileMap /\ made = CreateBackup(files, g)
  BY BackupMade DEF TypeOK, FileMap
<1>2. /\ {f, g, BackupOf(f), BackupOf(g)} \subseteq Files
      /\ f # BackupOf(g) /\ g # BackupOf(g)
  BY RolesApart DEF Files
<1>3. made \in FileMap
  BY <1>1, BackupTyped
<1>4. IF f = g THEN made[BackupOf(f)] = files[f] ELSE made[f] = files[f]
  BY <1>1, <1>2 DEF FileMap
<1> HIDE DEF made
<1>5. IF f = g THEN Write(made, g, o)[BackupOf(f)] = files[f]
               ELSE Write(made, g, o)[f] = files[f]
  BY <1>2, <1>3, <1>4, WriteElsewhere
<1>6. Remove(files, BackupOf(g))[f] = files[f]
  BY <1>1, <1>2 DEF Remove, FileMap
<1> QED BY <1>1, <1>4, <1>5, <1>6 DEF StillThere

(* A step loses a slot only if a save by name writes over it.              *)
LEMMA StepKeeps ==
  ASSUME TypeOK, [Next]_vars, NEW f \in SlotNames, files[f] \in Savestate
  PROVE  \/ StillThere(f)
         \/ \E byLua \in BOOLEAN, o \in Outcomes : SaveNamed(f, byLua, o)
<1>0. /\ files \in FileMap /\ f \in Files /\ files[f] # NoFile
      /\ Outcomes \subseteq {"written", "cut", "unopened"}
      /\ SlotNames \subseteq Files
  BY SlotsAssumption, RolesApart DEF TypeOK, FileMap, Files
<1>1. files' = files => StillThere(f)
  BY DEF StillThere
<1>2. ASSUME NEW s \in Slots, NEW direct \in BOOLEAN, NEW o \in Outcomes,
             SaveOver(s, direct, o)
      PROVE  StillThere(f)
  <2>1. SlotFile(s) \in SlotNames /\ Exists(files, SlotFile(s))
    BY <1>2, OpenNames DEF SaveOver, MaySave
  <2> QED BY <1>0, <1>2, <2>1, SavingKeeps DEF SaveOver
<1>3. ASSUME NEW s \in Slots, NEW direct \in BOOLEAN, NEW o \in Outcomes,
             SaveNew(s, direct, o)
      PROVE  StillThere(f)
  <2>1. f # SlotFile(s)
    BY <1>0, <1>3 DEF SaveNew, Exists
  <2> QED BY <1>0, <1>3, <2>1, WriteElsewhere DEF SaveNew, StillThere
<1>4. ASSUME NEW h \in Named, NEW byLua \in BOOLEAN, NEW o \in Outcomes,
             SaveNamed(h, byLua, o), f # h
      PROVE  StillThere(f)
  BY <1>0, <1>4, WriteElsewhere DEF SaveNamed, StillThere
<1>5. ASSUME files' \in
               LET b == BackupOf(lastSavestateMade)
                   t == TempOf(lastSavestateMade)
                   first == Rename(files, b, t)
                   second == Rename(first, lastSavestateMade, b)
               IN {first, second, Rename(second, t, lastSavestateMade)},
             lastSavestateMade # NoName
      PROVE  StillThere(f)
  <2>1. lastSavestateMade \in SlotNames
    BY <1>5 DEF TypeOK, UndoTyped
  <2> QED BY <1>0, <1>5, <2>1, ExchangeKeeps DEF StillThere
<1>6. ASSUME NEW o \in Outcomes, MaySave, files' = BackedUp(o)
      PROVE  StillThere(f)
  <2>1. f # PreLoad
    BY <1>6, OpenNames DEF MaySave
  <2> QED BY <1>0, <1>6, <2>1, WriteElsewhere DEF BackedUp, StillThere
<1>7. ASSUME NEW o \in Outcomes, CloseNes(o)
      PROVE  StillThere(f)
  <2>1. f # ResumeOf(game)
    BY DEF ResumeOf, SlotNames, SlotOf
  <2> QED BY <1>0, <1>1, <1>7, <2>1, WriteElsewhere DEF CloseNes, StillThere
<1>8. ASSUME NEW s \in Slots, EndSaving(s)
      PROVE  StillThere(f)
  <2>1. SlotFile(s) \in SlotNames /\ Exists(files, SlotFile(s))
    BY <1>8, OpenNames DEF EndSaving, MaySave
  <2> QED BY <1>0, <1>8, <2>1, SavingKeeps DEF EndSaving
<1>9. CASE Save
  <2>1. CASE UndoRedoSavestate
    BY <1>5, <2>1 DEF UndoRedoSavestate, Swapped
  <2>2. ASSUME NEW h \in Named, NEW byLua \in BOOLEAN, NEW o \in Outcomes,
               SaveNamed(h, byLua, o)
        PROVE  \/ StillThere(f)
               \/ \E lua \in BOOLEAN, p \in Outcomes : SaveNamed(f, lua, p)
    BY <1>4, <2>2
  <2> QED BY <1>1, <1>2, <1>3, <1>9, <2>1, <2>2 DEF Save, SaveOnGenieScreen
<1>10. CASE Load
  BY <1>1, <1>6, <1>10
     DEF Load, LoadSlot, LoadNamed, LoadOnGenieScreen, LoadByLua, LoadFromMemory
<1>11. CASE Select \/ UNCHANGED vars
  <2>1. files' = files
    BY <1>11 DEF Select, SelectSlot, SelectNext, RowFades, vars
  <2> QED BY <1>1, <2>1
<1>12. CASE Session
  BY <1>1, <1>7, <1>12 DEF Session, OpenGame, CloseGba, Rebind, Run, Power
<1>13. CASE End
  BY <1>1, <1>5, <1>8, <1>13 DEF End, EndIdle, EndSwapping
<1> QED BY <1>9, <1>10, <1>11, <1>12, <1>13 DEF Next

(* Whatever fails, and wherever the process ends, what a slot held stays   *)
(* readable in the slot, its backup or the temporary file; only a save by  *)
(* name writes over it.                                                    *)
THEOREM SlotsNotLost == Spec => NeverLosesSlot
<1> DEFINE Kept ==
      \A f \in SlotNames :
        files[f] \in Savestate =>
          \/ files[f] \in {files'[f], files'[BackupOf(f)], files'[TempOf(f)]}
          \/ \E byLua \in BOOLEAN, o \in Outcomes : SaveNamed(f, byLua, o)
<1>1. TypeOK /\ [Next]_vars => [Kept]_vars
  BY StepKeeps DEF StillThere
<1> HIDE DEF Kept
<1>2. Spec => [][Kept]_vars
  BY <1>1, SlotsTyped, PTL DEF Spec
<1> QED BY <1>2 DEF NeverLosesSlot, Kept

-----------------------------------------------------------------------------
(* What an undo concerns.                                                  *)

(* An undo or a redo that is on offer is one of the game that is open.     *)
UndoOfGame ==
  undoSS \/ redoSS => game # NoGame /\ lastSavestateMade[1] = game

(* Saves name their own game, and closing a game of the NES clears the     *)
(* flags; only a GBA session is closed without.                            *)
LEMMA UndoOfGameKept ==
  ASSUME GbaGames = {}, UndoTyped, UndoOfGame, [Next]_vars
  PROVE  UndoOfGame'
<1>0. undoSS \in BOOLEAN /\ redoSS \in BOOLEAN
  BY DEF UndoTyped
<1>1. /\ undoSS' => undoSS
      /\ redoSS' => redoSS
      /\ game' = game /\ lastSavestateMade' = lastSavestateMade
      => UndoOfGame'
  BY <1>0 DEF UndoOfGame
<1>2. (~undoSS' /\ ~redoSS') => UndoOfGame'
  BY DEF UndoOfGame
<1>3. CASE Save
  <2>1. ASSUME NEW s \in Slots, NEW direct \in BOOLEAN, NEW o \in Outcomes,
               SaveOver(s, direct, o)
        PROVE  UndoOfGame'
    <3>1. game' = game /\ game # NoGame /\ lastSavestateMade' = SlotFile(s)
      BY <2>1 DEF SaveOver, MaySave, sessionVars
    <3>2. SlotFile(s)[1] = game
      BY DEF SlotFile, SlotOf
    <3> QED BY <3>1, <3>2 DEF UndoOfGame
  <2>2. CASE UndoRedoSavestate
    <3>1. game' = game /\ lastSavestateMade' = lastSavestateMade /\ (undoSS \/ redoSS)
      BY <2>2 DEF UndoRedoSavestate, sessionVars
    <3> QED BY <3>1 DEF UndoOfGame
  <2> QED BY <1>1, <1>3, <2>1, <2>2
          DEF Save, SaveNew, SaveNamed, SaveOnGenieScreen, sessionVars, undoVars
<1>4. CASE Load
  BY <1>1, <1>4, ZenonT(60) DEF Load, LoadSlot, LoadNamed, LoadOnGenieScreen, LoadByLua,
                    LoadFromMemory, sessionVars, undoVars
<1>5. CASE Select
  BY <1>1, <1>5 DEF Select, SelectSlot, SelectNext, RowFades, sessionVars, undoVars
<1>6. CASE Session
  <2>1. ASSUME NEW g \in Games, NEW m \in Machines, NEW v \in Verdicts,
               OpenGame(g, m, v)
        PROVE  UndoOfGame'
    <3>1. ~undoSS /\ ~redoSS
      BY <2>1 DEF OpenGame, UndoOfGame
    <3> QED BY <1>2, <2>1, <3>1 DEF OpenGame, undoVars
  <2>2. ASSUME NEW o \in Outcomes, CloseNes(o)
        PROVE  UndoOfGame'
    BY <1>2, <2>2 DEF CloseNes
  <2>3. ~CloseGba
    BY DEF CloseGba, IsGba
  <2> QED BY <1>1, <1>6, <2>1, <2>2, <2>3 DEF Session, Rebind, Run, Power, undoVars
<1>7. CASE End
  BY <1>2, <1>7 DEF End, EndIdle, EndSaving, EndSwapping, Restarted
<1>8. CASE UNCHANGED vars
  BY <1>1, <1>8 DEF vars, sessionVars, undoVars
<1> QED BY <1>3, <1>4, <1>5, <1>6, <1>7, <1>8 DEF Next

(* Without games for the GBA the comment on undoSS is true: an undo        *)
(* concerns the game that is open.                                         *)
THEOREM SlotsUndoSinceOpen ==
  ASSUME GbaGames = {}
  PROVE  Spec => []UndoSinceOpen
<1>1. Init => UndoOfGame
  BY DEF Init, UndoOfGame
<1>2. TypeOK /\ UndoOfGame /\ [Next]_vars => UndoOfGame'
  BY UndoOfGameKept DEF TypeOK
<1>3. UndoOfGame => UndoSinceOpen
  BY DEF UndoOfGame, UndoSinceOpen
<1> QED BY <1>1, <1>2, <1>3, SlotsTyped, PTL DEF Spec

-----------------------------------------------------------------------------
(* The place kept before a load.                                           *)

(* A load has written the present machine to the backup file.              *)
LEMMA LoadKeepsPlace ==
  ASSUME Outcomes \subseteq {"written"}, TypeOK, NEW f, LoadStep(f)
  PROVE  files'[PreLoad] = Present
<1>1. PICK o \in Outcomes : MaySave /\ files' = BackedUp(o)
  BY DEF LoadStep, LoadNamed, LoadSlot
<1>2. PreLoad \in Files /\ files \in FileMap
  BY <1>1, OpenNames DEF MaySave, TypeOK, FileMap, Files
<1>3. files' = [files EXCEPT ![PreLoad] = Present]
  BY <1>1 DEF BackedUp, Write
<1> QED BY <1>2, <1>3 DEF FileMap

(* PlaceKept: as long as the backup can be written, a machine that a load  *)
(* by slot or by name replaces is in it, with its chunks, even where the   *)
(* file that is loaded is that backup.                                     *)
THEOREM SlotsPlaceKept ==
  ASSUME Outcomes \subseteq {"written"}
  PROVE  Spec => PlaceKept
<1> DEFINE Kept ==
      \A f \in Named :
        LoadStep(f) /\ machine' # machine => files'[PreLoad] = Present
<1>1. TypeOK /\ [Next]_vars => [Kept]_vars
  BY LoadKeepsPlace
<1> HIDE DEF Kept
<1>2. Spec => [][Kept]_vars
  BY <1>1, SlotsTyped, PTL DEF Spec
<1> QED BY <1>2 DEF PlaceKept, Kept

-----------------------------------------------------------------------------
(* The chunks that a load preserves.                                       *)

(* Removing, renaming and writing put nothing into the files that was not  *)
(* in one of them, but for the present machine and what a failure leaves.  *)
LEMMA FilesWithin ==
  ASSUME NEW S, NoFile \in S, Damaged \in S,
         NEW fs \in [Files -> S], NEW f \in Files
  PROVE  /\ Remove(fs, f) \in [Files -> S]
         /\ \A g \in Files : Rename(fs, f, g) \in [Files -> S]
         /\ Write(fs, f, "cut") \in [Files -> S]
         /\ Present \in S => \A o \in Outcomes : Write(fs, f, o) \in [Files -> S]
<1>1. Remove(fs, f) \in [Files -> S] /\ Write(fs, f, "cut") \in [Files -> S]
  BY DEF Remove, Write
<1>2. ASSUME NEW g \in Files PROVE Rename(fs, f, g) \in [Files -> S]
  BY DEF Rename
<1>3. ASSUME Present \in S, NEW o \in Outcomes PROVE Write(fs, f, o) \in [Files -> S]
  BY <1>3, SlotsAssumption DEF Write
<1> QED BY <1>1, <1>2, <1>3

(* So does a whole step.                                                   *)
LEMMA StepWithin ==
  ASSUME TypeOK, [Next]_vars, NEW S, NoFile \in S, Damaged \in S,
         files \in [Files -> S], game # NoGame => Present \in S
  PROVE  files' \in [Files -> S]
<1>1. \A f \in SlotNames : {f, BackupOf(f), TempOf(f)} \subseteq Files
  BY RolesApart DEF Files
<1>2. ASSUME NEW f \in SlotNames
      PROVE  /\ CreateBackup(files, f) \in [Files -> S]
             /\ Remove(files, BackupOf(f)) \in [Files -> S]
             /\ Write(CreateBackup(files, f), f, "cut") \in [Files -> S]
             /\ Present \in S =>
                  \A o \in Outcomes :
                    Write(CreateBackup(files, f), f, o) \in [Files -> S]
  BY <1>1, FilesWithin DEF CreateBackup
<1>3. ASSUME NEW f \in SlotNames
      PROVE  LET first == Rename(files, BackupOf(f), TempOf(f))
                 second == Rename(first, f, BackupOf(f))
             IN {first, second, Rename(second, TempOf(f), f)} \subseteq [Files -> S]
  <2> DEFINE first == Rename(files, BackupOf(f), TempOf(f))
             second == Rename(first, f, BackupOf(f))
  <2>1. first \in [Files -> S]
    BY <1>1, FilesWithin
  <2> HIDE DEF first
  <2>2. second \in [Files -> S]
    BY <1>1, <2>1, FilesWithin
  <2> HIDE DEF second
  <2>3. Rename(second, TempOf(f), f) \in [Files -> S]
    BY <1>1, <2>2, FilesWithin
  <2> QED BY <2>1, <2>2, <2>3 DEF first, second
<1>4. ASSUME game # NoGame, NEW f \in Files, NEW o \in Outcomes
      PROVE  Write(files, f, o) \in [Files -> S]
  BY <1>4, FilesWithin
<1>5. game # NoGame => /\ PreLoad \in Files
                       /\ \A s \in Slots : SlotFile(s) \in SlotNames
                       /\ Named \subseteq Files
  BY <1>1, OpenNames DEF Files, Named
<1>6. lastSavestateMade # NoName => lastSavestateMade \in SlotNames
  BY DEF TypeOK, UndoTyped
<1>7. CASE Save
  <2>1. ASSUME NEW s \in Slots, NEW direct \in BOOLEAN, NEW o \in Outcomes,
               SaveOver(s, direct, o) \/ SaveNew(s, direct, o)
        PROVE  files' \in [Files -> S]
    BY <1>1, <1>2, <1>4, <1>5, <2>1 DEF SaveOver, SaveNew, MaySave
  <2>2. ASSUME NEW f \in Named, NEW byLua \in BOOLEAN, NEW o \in Outcomes,
               SaveNamed(f, byLua, o)
        PROVE  files' \in [Files -> S]
    BY <1>4, <1>5, <2>2 DEF SaveNamed, MaySave
  <2>3. CASE UndoRedoSavestate
    BY <1>3, <1>6, <2>3 DEF UndoRedoSavestate, Swapped
  <2> QED BY <1>7, <2>1, <2>2, <2>3 DEF Save, SaveOnGenieScreen
<1>8. CASE Load
  <2>1. ASSUME NEW o \in Outcomes, MaySave, files' = BackedUp(o)
        PROVE  files' \in [Files -> S]
    BY <1>4, <1>5, <2>1 DEF BackedUp, MaySave
  <2> QED BY <1>8, <2>1
          DEF Load, LoadSlot, LoadNamed, LoadOnGenieScreen, LoadByLua, LoadFromMemory
<1>9. CASE Select \/ UNCHANGED vars
  BY <1>9 DEF Select, SelectSlot, SelectNext, RowFades, vars
<1>10. CASE Session
  <2>1. ASSUME NEW o \in Outcomes, CloseNes(o) PROVE files' \in [Files -> S]
    <3>1. game \in Games /\ game # NoGame
      BY <2>1, SlotsAssumption DEF CloseNes
    <3>2. ResumeOf(game) \in Files
      BY <3>1 DEF ResumeOf, Files, ProgramFiles
    <3> QED BY <1>4, <2>1, <3>1, <3>2 DEF CloseNes
  <2> QED BY <1>10, <2>1 DEF Session, OpenGame, CloseGba, Rebind, Run, Power
<1>11. CASE End
  <2>1. ASSUME NEW s \in Slots, EndSaving(s) PROVE files' \in [Files -> S]
    BY <1>2, <1>5, <2>1 DEF EndSaving, MaySave
  <2>2. CASE EndSwapping
    BY <1>3, <1>6, <2>2 DEF EndSwapping
  <2> QED BY <1>11, <2>1, <2>2 DEF End, EndIdle
<1> QED BY <1>7, <1>8, <1>9, <1>10, <1>11 DEF Next

(* A savestate of a GBA game has no chunks to preserve: the GBA core has   *)
(* another format, and its writer knows none.                              *)
PlainContents ==
  {c \in Contents : c \in Savestate /\ c.game \in GbaGames => c.chunks = NoChunks}

(* No file, and no machine in a GBA session, has chunks where a GBA game   *)
(* is concerned.                                                           *)
Plain ==
  /\ files \in [Files -> PlainContents]
  /\ IsGba => machine.chunks = NoChunks

(* What a GBA session takes from its files has no chunks.                  *)
LEMMA TakenPlain ==
  ASSUME NEW c \in PlainContents, NEW g \in GbaGames, NEW v, Takes(g, c, v)
  PROVE  c.chunks = NoChunks
  BY DEF PlainContents, Takes

(* Reading a file on a machine whose chunks are the preserved ones keeps   *)
(* them so, or keeps the machine and drops them.                           *)
LEMMA ReadFollows ==
  ASSUME NEW c, NEW v, Read(game, c, v, machine),
         IsGba => machine.chunks = NoChunks /\ c \in PlainContents,
         g_unknownChunks = machine.chunks
  PROVE  \/ g_unknownChunks' = machine'.chunks
         \/ machine' = machine /\ g_unknownChunks' = NoChunks
<1>1. CASE IsGba
  <2>1. Takes(game, c, v) => c.chunks = NoChunks
    BY <1>1, TakenPlain DEF IsGba
  <2> QED BY <1>1, <2>1 DEF Read, IsGba
<1>2. CASE ~IsGba
  BY <1>2 DEF Read, IsGba
<1> QED BY <1>1, <1>2

(* A GBA machine that was read has no chunks.                              *)
LEMMA ReadPlain ==
  ASSUME NEW c, NEW v, NEW g \in GbaGames, NEW before, Read(g, c, v, before),
         before.chunks = NoChunks, c \in PlainContents
  PROVE  machine'.chunks = NoChunks
<1>1. Takes(g, c, v) => c.chunks = NoChunks
  BY TakenPlain
<1> QED BY <1>1 DEF Read

(* Whatever a load reads is within what the files hold.                    *)
LEMMA FileRead ==
  ASSUME TypeOK, Plain, MaySave, NEW f \in Named
  PROVE  /\ files[f] \in PlainContents
         /\ \A o \in Outcomes : BackedUp(o)[f] \in PlainContents
<1>1. f \in Files /\ PreLoad \in Files
  BY OpenNames, RolesApart DEF MaySave, Named, Files
<1>2. NoFile \in PlainContents /\ Damaged \in PlainContents
  BY SlotsAssumption DEF PlainContents, Contents
<1>3. Present \in PlainContents
  BY PresentTyped DEF MaySave, PlainContents, Contents, Present, IsGba
<1>4. \A o \in Outcomes : BackedUp(o) \in [Files -> PlainContents]
  BY <1>1, <1>2, <1>3, FilesWithin DEF BackedUp, Plain
<1> QED BY <1>1, <1>4 DEF Plain

(* A load of any kind reads a file within what the files hold, or a state  *)
(* in memory under a NES game, or leaves the machine and its chunks.       *)
LEMMA LoadReads ==
  ASSUME TypeOK, Plain, Load
  PROVE  /\ game' = game
         /\ \/ UNCHANGED machineVars
            \/ \E v \in Verdicts, c \in PlainContents : Read(game, c, v, machine)
            \/ ~IsGba /\ \E v \in Verdicts, c \in Savestate : Read(game, c, v, machine)
<1>1. game' = game
  BY DEF Load, LoadSlot, LoadNamed, LoadOnGenieScreen, LoadByLua, LoadFromMemory,
         sessionVars
<1>2. ASSUME NEW s \in Slots, NEW direct \in BOOLEAN, NEW o \in Outcomes,
             NEW v \in Verdicts, LoadSlot(s, direct, o, v)
      PROVE  \/ UNCHANGED machineVars
             \/ \E c \in PlainContents : Read(game, c, v, machine)
  <2>1. SlotFile(s) \in Named /\ MaySave
    BY <1>2 DEF LoadSlot, Named
  <2>2. BackedUp(o)[SlotFile(s)] \in PlainContents
    BY <2>1, FileRead
  <2> QED BY <1>2, <2>2 DEF LoadSlot
<1>3. ASSUME NEW f \in Named, NEW o \in Outcomes, NEW v \in Verdicts,
             LoadNamed(f, o, v)
      PROVE  \/ UNCHANGED machineVars
             \/ \E c \in PlainContents : Read(game, c, v, machine)
  <2>1. BackedUp(o)[f] \in PlainContents
    BY <1>3, FileRead DEF LoadNamed
  <2> QED BY <1>3, <2>1 DEF LoadNamed
<1>4. ASSUME NEW f \in Named, NEW v \in Verdicts, LoadByLua(f, v)
      PROVE  \/ UNCHANGED machineVars
             \/ \E c \in PlainContents : Read(game, c, v, machine)
  <2>1. files[f] \in PlainContents
    BY <1>4, FileRead DEF LoadByLua
  <2> QED BY <1>4, <2>1 DEF LoadByLua
<1>5. ASSUME NEW m \in Machines, NEW u \in Chunks \cup {NoChunks},
             NEW v \in Verdicts, LoadFromMemory(m, u, v)
      PROVE  ~IsGba /\ \E c \in Savestate : Read(game, c, v, machine)
  <2>1. game \in Games \ GbaGames
    BY <1>5 DEF LoadFromMemory
  <2>2. [game |-> game, machine |-> m, chunks |-> u] \in Savestate
    BY <2>1 DEF Savestate
  <2> QED BY <1>5, <2>1, <2>2 DEF LoadFromMemory, IsGba
<1>6. \A s, direct : LoadOnGenieScreen(s, direct) => UNCHANGED machineVars
  BY DEF LoadOnGenieScreen
<1> QED BY <1>1, <1>2, <1>3, <1>4, <1>5, <1>6 DEF Load

(* Every step keeps what concerns the GBA without chunks.                  *)
LEMMA PlainStep ==
  ASSUME TypeOK, Plain, [Next]_vars
  PROVE  Plain'
<1>1. NoFile \in PlainContents /\ Damaged \in PlainContents
  BY SlotsAssumption DEF PlainContents, Contents
<1>2. game # NoGame => Present \in PlainContents
  BY PresentTyped DEF PlainContents, Contents, Present, IsGba
<1>3. files' \in [Files -> PlainContents]
  BY <1>1, <1>2, StepWithin DEF Plain
<1>4. NoGame \notin GbaGames
  BY SlotsAssumption
<1>5. ASSUME game' = game, machine'.chunks = machine.chunks
      PROVE  IsGba' => machine'.chunks = NoChunks
  BY <1>5 DEF Plain, IsGba
<1>6. CASE Save \/ Select \/ UNCHANGED vars
  <2>1. UNCHANGED <<game, machine>>
    BY <1>6 DEF Save, SaveOver, SaveNew, SaveOnGenieScreen, SaveNamed,
                UndoRedoSavestate, Select, SelectSlot, SelectNext, RowFades,
                vars, sessionVars, machineVars
  <2> QED BY <1>3, <1>5, <2>1 DEF Plain
<1>7. CASE Load
  <2>1. UNCHANGED machineVars => machine'.chunks = machine.chunks
    BY DEF machineVars
  <2>2. ASSUME IsGba, NEW v \in Verdicts, NEW c \in PlainContents,
               Read(game, c, v, machine)
        PROVE  machine'.chunks = NoChunks
    BY <2>2, ReadPlain DEF Plain, IsGba
  <2>3. IsGba' => IsGba
    BY <1>7, LoadReads DEF IsGba
  <2> QED BY <1>3, <1>5, <1>7, <2>1, <2>2, <2>3, LoadReads DEF Plain
<1>8. CASE Session
  <2>1. ASSUME NEW g \in Games, NEW m \in Machines, NEW v \in Verdicts,
               OpenGame(g, m, v)
        PROVE  IsGba' => machine'.chunks = NoChunks
    <3> DEFINE fresh == [content |-> m, chunks |-> NoChunks]
    <3>1. files[ResumeOf(g)] \in PlainContents
      <4>1. ResumeOf(g) \in Files
        BY DEF ResumeOf, Files, ProgramFiles
      <4> QED BY <4>1 DEF Plain
    <3>2. machine' = fresh \/ Read(g, files[ResumeOf(g)], v, fresh)
      BY <2>1 DEF OpenGame
    <3>3. game' = g
      BY <2>1 DEF OpenGame
    <3> QED BY <3>1, <3>2, <3>3, ReadPlain DEF IsGba
  <2>2. ASSUME NEW m \in Machines, Run(m)
        PROVE  IsGba' => machine'.chunks = NoChunks
    <3>1. game' = game /\ machine'.chunks = machine.chunks
      BY <2>2 DEF Run, TypeOK, MachineTyped
    <3> QED BY <1>5, <3>1
  <2>3. ASSUME NEW m \in Machines, Power(m) PROVE ~IsGba'
    BY <2>3 DEF Power, IsGba
  <2>4. ASSUME NEW o \in Outcomes, CloseNes(o) PROVE ~IsGba'
    BY <1>4, <2>4 DEF CloseNes, IsGba
  <2>5. CloseGba => ~IsGba'
    BY <1>4 DEF CloseGba, IsGba
  <2>6. ASSUME NEW b, Rebind(b) PROVE ~IsGba'
    BY <2>6 DEF Rebind, IsGba
  <2> QED BY <1>3, <1>8, <2>1, <2>2, <2>3, <2>4, <2>5, <2>6 DEF Session, Plain
<1>9. CASE End
  <2>1. game' = NoGame
    BY <1>9 DEF End, EndIdle, EndSaving, EndSwapping, Restarted
  <2> QED BY <1>3, <1>4, <2>1 DEF Plain, IsGba
<1> QED BY <1>6, <1>7, <1>8, <1>9 DEF Next

(* Every step keeps the preserved chunks those of the machine, but for the *)
(* two that the property names and what powers a machine on.               *)
LEMMA ChunksStep ==
  ASSUME TypeOK, Plain, [Next]_vars, g_unknownChunks = machine.chunks
  PROVE  \/ g_unknownChunks' = machine'.chunks
         \/ machine' = machine /\ g_unknownChunks' = NoChunks
         \/ \E g \in Games, m \in Machines, v \in Verdicts : OpenGame(g, m, v)
         \/ \E m \in Machines : Power(m)
<1>1. UNCHANGED machineVars => g_unknownChunks' = machine'.chunks
  BY DEF machineVars
<1>2. CASE Save \/ Select \/ UNCHANGED vars
  <2>1. UNCHANGED machineVars
    BY <1>2 DEF Save, SaveOver, SaveNew, SaveOnGenieScreen, SaveNamed,
                UndoRedoSavestate, Select, SelectSlot, SelectNext, RowFades, vars
  <2> QED BY <1>1, <2>1
<1>3. CASE Load
  <2>1. ASSUME NEW v \in Verdicts, NEW c, Read(game, c, v, machine),
               IsGba => c \in PlainContents
        PROVE  \/ g_unknownChunks' = machine'.chunks
               \/ machine' = machine /\ g_unknownChunks' = NoChunks
    BY <2>1, ReadFollows DEF Plain
  <2> QED BY <1>1, <1>3, <2>1, LoadReads
<1>4. CASE Session
  <2>1. ASSUME NEW m \in Machines, Run(m) PROVE g_unknownChunks' = machine'.chunks
    BY <2>1 DEF Run, TypeOK, MachineTyped
  <2> QED BY <1>1, <1>4, <2>1 DEF Session, CloseNes, CloseGba, Rebind
<1>5. CASE End
  BY <1>5 DEF End, EndIdle, EndSaving, EndSwapping, Restarted
<1> QED BY <1>2, <1>3, <1>4, <1>5 DEF Next

(* ChunksFollow: the chunks preserved for the next save are those of the   *)
(* savestate the machine comes from, unless a load failed or the machine   *)
(* was powered on, if the GBA savestates found at the start have none.     *)
THEOREM SlotsChunksFollow ==
  ASSUME Given \subseteq [Files -> PlainContents]
  PROVE  Spec => ChunksFollow
<1> DEFINE Follows ==
      g_unknownChunks = machine.chunks =>
        \/ g_unknownChunks' = machine'.chunks
        \/ machine' = machine /\ g_unknownChunks' = NoChunks
        \/ \E g \in Games, m \in Machines, v \in Verdicts : OpenGame(g, m, v)
        \/ \E m \in Machines : Power(m)
<1>1. Init => Plain
  BY SlotsAssumption DEF Init, Plain, IsGba
<1>2. TypeOK /\ Plain /\ [Next]_vars => Plain'
  BY PlainStep
<1>3. TypeOK /\ Plain /\ [Next]_vars => [Follows]_vars
  BY ChunksStep
<1> HIDE DEF Follows
<1>4. Spec => [][Follows]_vars
  BY <1>1, <1>2, <1>3, SlotsTyped, PTL DEF Spec
<1> QED BY <1>4 DEF ChunksFollow, Follows

-----------------------------------------------------------------------------
(* The row of slots.                                                       *)

(* An exchange of a slot with its backup leaves the slot a file, and every *)
(* other slot as it was.                                                   *)
LEMMA ExchangeStatus ==
  ASSUME NEW fs \in FileMap, NEW f \in SlotNames,
         Exists(fs, f), Exists(fs, BackupOf(f))
  PROVE  \A n \in SlotNames : Exists(Swapped(fs, f), n) = Exists(fs, n)
<1> DEFINE b == BackupOf(f)
           t == TempOf(f)
           first == Rename(fs, b, t)
           second == Rename(first, f, b)
           third == Rename(second, t, f)
<1>1. /\ {f, b, t} \subseteq Files /\ b # t /\ f # b /\ f # t
      /\ \A n \in SlotNames : n \in Files /\ n # b /\ n # t
  BY RolesApart DEF Files
<1>2. {first, second, third} \subseteq FileMap
  BY ExchangeTyped
<1>3. Swapped(fs, f) = third
  BY DEF Swapped
<1> HIDE DEF b, t
<1>4. first[f] = fs[f]
  BY <1>1, RenameKeeps
<1>5. third[f] # NoFile
  <2>1. CASE second[f] # NoFile
    BY <1>1, <1>2, <2>1, RenameKeeps
  <2>2. CASE second[f] = NoFile
    <3>1. first[b] = NoFile
      BY <1>1, <1>2, <1>4, <2>2 DEF Rename, Exists, FileMap
    <3>2. first[t] # NoFile /\ second[t] = first[t]
      BY <1>1, <1>2, <3>1, RenameKeeps DEF Exists, b
    <3> QED BY <1>1, <1>2, <2>2, <3>2 DEF Rename, Exists, FileMap
  <2> QED BY <2>1, <2>2
<1>6. ASSUME NEW n \in SlotNames, n # f PROVE third[n] = fs[n]
  BY <1>1, <1>2, <1>6, RenameKeeps
<1> QED BY <1>3, <1>5, <1>6 DEF Exists

(* What changes neither files, names nor marks leaves the row right.       *)
LEMMA RowUnchanged ==
  ASSUME RowRight, UNCHANGED <<files, game, binding, SaveStateStatus, StateShow>>
  PROVE  RowRight'
  BY DEF RowRight, Status, SlotFile

(* A row that is not shown is not wrong, nor one without a game.           *)
LEMMA RowHidden ==
  ASSUME ~StateShow' \/ game' = NoGame
  PROVE  RowRight'
  BY DEF RowRight

(* Every step keeps the row right, but for those that the property names.  *)
LEMMA RowStep ==
  ASSUME TypeOK, [Next]_vars, RowRight,
         game' = game, binding' = binding,
         ~\E f \in Named, o \in Outcomes : SaveNamed(f, TRUE, o),
         ~\E f \in Named, v \in Verdicts : LoadByLua(f, v),
         ~(UndoRedoSavestate /\ ~Exists(files, lastSavestateMade))
  PROVE  RowRight'
<1>1. \A s, direct, marked : SlotCommand(s, direct, marked) => ~StateShow'
  BY DEF SlotCommand
<1>2. CASE Save
  <2>1. ASSUME NEW f \in Named, NEW byLua \in BOOLEAN, NEW o \in Outcomes,
               SaveNamed(f, byLua, o)
        PROVE  ~StateShow'
    <3>1. ~byLua
      BY <2>1
    <3> QED BY <2>1, <3>1 DEF SaveNamed
  <2>2. CASE UndoRedoSavestate
    <3>1. /\ lastSavestateMade \in SlotNames /\ files \in FileMap
          /\ Exists(files, lastSavestateMade)
          /\ Exists(files, BackupOf(lastSavestateMade))
          /\ files' = Swapped(files, lastSavestateMade)
      BY <2>2 DEF UndoRedoSavestate, TypeOK, UndoTyped, FileMap
    <3>2. \A n \in SlotNames : Exists(files', n) = Exists(files, n)
      BY <3>1, ExchangeStatus
    <3>3. UNCHANGED <<SaveStateStatus, StateShow>>
      BY <2>2 DEF UndoRedoSavestate, rowVars
    <3>4. CASE game = NoGame
      BY <3>4, RowHidden
    <3>5. CASE game # NoGame
      <4>1. \A s \in Slots : SlotFile(s) \in SlotNames
        BY <3>5, OpenNames
      <4>2. SlotFile(0)' = SlotFile(0) /\ \A s \in Slots : SlotFile(s)' = SlotFile(s)
        BY DEF SlotFile
      <4>3. Status(files)' = Status(files)
        BY <3>2, <4>1, <4>2 DEF Status
      <4> QED BY <3>3, <4>3 DEF RowRight
    <3> QED BY <3>4, <3>5
  <2>3. ASSUME NEW s, NEW direct, NEW o,
               SaveOver(s, direct, o) \/ SaveNew(s, direct, o)
                 \/ SaveOnGenieScreen(s, direct)
        PROVE  ~StateShow'
    BY <1>1, <2>3 DEF SaveOver, SaveNew, SaveOnGenieScreen
  <2> QED BY <1>2, <2>1, <2>2, <2>3, RowHidden DEF Save
<1>3. CASE Load
  <2>1. ASSUME NEW s, NEW direct, NEW o, NEW v,
               LoadSlot(s, direct, o, v) \/ LoadOnGenieScreen(s, direct)
        PROVE  ~StateShow'
    BY <1>1, <2>1 DEF LoadSlot, LoadOnGenieScreen
  <2>2. \A f, o, v : LoadNamed(f, o, v) => ~StateShow'
    BY DEF LoadNamed
  <2>3. \A m, u, v : LoadFromMemory(m, u, v) =>
                       UNCHANGED <<files, SaveStateStatus, StateShow>>
    BY DEF LoadFromMemory, rowVars
  <2> QED BY <1>3, <2>1, <2>2, <2>3, RowHidden, RowUnchanged DEF Load
<1>4. CASE Select
  <2>1. ASSUME NEW s, NEW show, SelectSlot(s, show) PROVE RowRight'
    <3>1. SaveStateStatus' = Status(files) /\ files' = files
      BY <2>1 DEF SelectSlot
    <3>2. Status(files)' = Status(files)
      BY <3>1 DEF Status, SlotFile
    <3> QED BY <3>1, <3>2 DEF RowRight
  <2>2. RowFades => ~StateShow'
    BY DEF RowFades
  <2> QED BY <1>4, <2>1, <2>2, RowHidden DEF Select, SelectNext
<1>5. CASE Session
  <2>1. ASSUME NEW g \in Games, NEW m, NEW v, OpenGame(g, m, v) PROVE FALSE
    BY <2>1, SlotsAssumption DEF OpenGame
  <2>2. \A o : CloseNes(o) => game' = NoGame
    BY DEF CloseNes
  <2>3. CloseGba => game' = NoGame
    BY DEF CloseGba
  <2>4. ASSUME NEW b, NEW m, Rebind(b) \/ Run(m) \/ Power(m)
        PROVE  UNCHANGED <<files, SaveStateStatus, StateShow>>
    BY <2>4 DEF Rebind, Run, Power, rowVars
  <2> QED BY <1>5, <2>1, <2>2, <2>3, <2>4, RowHidden, RowUnchanged DEF Session
<1>6. CASE End
  <2>1. game' = NoGame
    BY <1>6 DEF End, EndIdle, EndSaving, EndSwapping, Restarted
  <2> QED BY <2>1, RowHidden
<1>7. CASE UNCHANGED vars
  BY <1>7, RowUnchanged DEF vars, sessionVars, rowVars
<1> QED BY <1>2, <1>3, <1>4, <1>5, <1>6, <1>7 DEF Next

(* RowGoesStale: while it is shown the row of slots agrees with the files; *)
(* it falls behind only by a script, a change of the names the slots have, *)
(* or an undo that makes a slot exist.                                     *)
THEOREM SlotsRowGoesStale == Spec => RowGoesStale
<1> DEFINE Behind ==
      RowRight =>
        \/ RowRight'
        \/ <<game, binding>>' # <<game, binding>>
        \/ \E f \in Named, o \in Outcomes : SaveNamed(f, TRUE, o)
        \/ \E f \in Named, v \in Verdicts : LoadByLua(f, v)
        \/ UndoRedoSavestate /\ ~Exists(files, lastSavestateMade)
<1>1. TypeOK /\ [Next]_vars => [Behind]_vars
  BY RowStep
<1> HIDE DEF Behind
<1>2. Spec => [][Behind]_vars
  BY <1>1, SlotsTyped, PTL DEF Spec
<1> QED BY <1>2 DEF RowGoesStale, Behind

=============================================================================
