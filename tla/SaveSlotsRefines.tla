--------------------------- MODULE SaveSlotsRefines ---------------------------
(***************************************************************************)
(* The proof that the savestate slots implement an undo of one step, as    *)
(* long as no exchange is cut short: what one leaves behind makes later    *)
(* exchanges fail.                                                         *)
(***************************************************************************)
EXTENDS SaveSlotsProofs

SwapsComplete ==
  /\ "swapping" \notin CutShort
  /\ \A fs \in Given, f \in SlotNames : fs[TempOf(f)] = NoFile

TempsFree == \A f \in SlotNames : files[TempOf(f)] = NoFile

-----------------------------------------------------------------------------
(* What a step does to the slots: one of five things.                      *)

(* No undo is on offer that was not before, and none of another file.      *)
NoNewOffer ==
  undoSS' \/ redoSS' =>
    (undoSS \/ redoSS) /\ lastSavestateMade' = lastSavestateMade

(* It leaves slots and backups alone,                                      *)
Aside ==
  /\ \A f \in SlotNames :
       /\ files'[f] = files[f]
       /\ files'[BackupOf(f)] = files[BackupOf(f)]
       /\ files'[TempOf(f)] = files[TempOf(f)]
  /\ NoNewOffer

(* writes a slot without a backup,                                         *)
Through ==
  /\ \E f \in SlotNames, x \in Contents \ {NoFile} :
       files' = [files EXCEPT ![f] = x]
  /\ NoNewOffer

(* saves over a slot,                                                      *)
BackedUpAs(f, x) ==
  files' = [files EXCEPT ![BackupOf(f)] = files[f], ![f] = x]

Over ==
  \E f \in SlotNames, x \in Contents :
    /\ Exists(files, f) /\ BackedUpAs(f, x)
    /\ lastSavestateMade' = f /\ undoSS'

(* exchanges a slot with its backup,                                       *)
Exchanged ==
  LET f == lastSavestateMade
      b == BackupOf(f)
  IN
  /\ f \in SlotNames /\ (undoSS \/ redoSS) /\ Exists(files, b)
  /\ files' = [files EXCEPT ![f] = files[b], ![b] = files[f]]
  /\ lastSavestateMade' = lastSavestateMade /\ undoSS'

(* or ends within a save.                                                  *)
CutOff ==
  /\ lastSavestateMade' = NoName
  /\ \E f \in SlotNames :
       \/ files' = Remove(files, BackupOf(f))
       \/ \E x \in {NoFile, Damaged} : BackedUpAs(f, x)

(* With its temporary name free an exchange does what it is for, also when *)
(* the slot is not there.                                                  *)
LEMMA ExchangeMade ==
  ASSUME NEW fs \in FileMap, NEW f \in SlotNames,
         Exists(fs, BackupOf(f)), ~Exists(fs, TempOf(f))
  PROVE  Swapped(fs, f)
           = [fs EXCEPT ![f] = fs[BackupOf(f)], ![BackupOf(f)] = fs[f]]
<1> DEFINE b == BackupOf(f)
           t == TempOf(f)
           first == [fs EXCEPT ![t] = fs[b], ![b] = NoFile]
           second == [first EXCEPT ![b] = fs[f], ![f] = NoFile]
<1>1. {f, b, t} \subseteq Files /\ b # t /\ f # b /\ f # t
  BY RolesApart DEF Files
<1> HIDE DEF b, t
<1>2. Rename(fs, b, t) = first
  BY <1>1 DEF Rename, Exists, FileMap, b, t
<1>3. Rename(first, f, b) = second
  <2>1. first[f] = fs[f] /\ first[b] = NoFile /\ first \in [Files -> Contents \cup {NoFile}]
    BY <1>1 DEF FileMap
  <2>2. CASE fs[f] = NoFile
    <3>1. second = first
      BY <1>1, <2>1, <2>2 DEF FileMap
    <3> QED BY <2>1, <2>2, <3>1 DEF Rename, Exists
  <2>3. CASE fs[f] # NoFile
    BY <2>1, <2>3 DEF Rename, Exists
  <2> QED BY <2>2, <2>3
<1>4. second[t] = fs[b] /\ second[t] # NoFile /\ second[f] = NoFile
  BY <1>1 DEF FileMap, Exists, b
<1>5. Rename(second, t, f) = [second EXCEPT ![f] = fs[b], ![t] = NoFile]
  BY <1>4 DEF Rename, Exists
<1>6. [second EXCEPT ![f] = fs[b], ![t] = NoFile] = [fs EXCEPT ![f] = fs[b], ![b] = fs[f]]
  BY <1>1 DEF FileMap, Exists, t
<1> QED BY <1>2, <1>3, <1>5, <1>6 DEF Swapped, b, t

LEMMA UndoExchanges ==
  ASSUME TypeOK, TempsFree, UndoRedoSavestate
  PROVE  Exchanged
<1> DEFINE f == lastSavestateMade
           b == BackupOf(f)
<1>1. f \in SlotNames /\ (undoSS \/ redoSS) /\ Exists(files, b)
  BY DEF UndoRedoSavestate, TypeOK, UndoTyped
<1>2. ~Exists(files, TempOf(f))
  BY <1>1 DEF TempsFree, Exists
<1>3. files' = Swapped(files, f) /\ files \in FileMap
  BY DEF UndoRedoSavestate, TypeOK, FileMap
<1>4. files' = [files EXCEPT ![f] = files[b], ![b] = files[f]]
  BY <1>1, <1>2, <1>3, ExchangeMade
<1>5. lastSavestateMade' = lastSavestateMade /\ undoSS' = TRUE
  BY DEF UndoRedoSavestate
<1> QED BY <1>1, <1>4, <1>5 DEF Exchanged

(* Writing a file that is no slot, backup or temporary file leaves all of  *)
(* those alone.                                                            *)
LEMMA WriteAside ==
  ASSUME files \in FileMap, NEW h, NEW o \in Outcomes,
         h \notin SlotNames,
         \A f \in SlotNames : h # BackupOf(f) /\ h # TempOf(f),
         files' \in {files, Write(files, h, o)}, NoNewOffer
  PROVE  Aside
<1>1. ASSUME NEW f \in SlotNames
      PROVE  /\ files'[f] = files[f]
             /\ files'[BackupOf(f)] = files[BackupOf(f)]
             /\ files'[TempOf(f)] = files[TempOf(f)]
  <2>1. {f, BackupOf(f), TempOf(f)} \subseteq Files
    BY RolesApart DEF Files
  <2>2. o \in {"written", "cut", "unopened"}
    BY SlotsAssumption
  <2>3. CASE files' = Write(files, h, o)
    BY <2>1, <2>2, <2>3, WriteElsewhere
  <2> QED BY <2>3
<1> QED BY <1>1 DEF Aside

(* Writing a slot changes it to a content, or changes nothing.             *)
LEMMA WriteOne ==
  ASSUME TypeOK, game # NoGame, NEW fs \in FileMap, NEW f, NEW o \in Outcomes
  PROVE  \/ Write(fs, f, o) = fs
         \/ \E x \in Contents \ {NoFile} : Write(fs, f, o) = [fs EXCEPT ![f] = x]
<1>1. /\ Present \in Contents \ {NoFile} /\ Damaged \in Contents \ {NoFile}
      /\ o \in {"written", "cut", "unopened"}
  BY PresentTyped, SlotsAssumption DEF Contents
<1> QED BY <1>1 DEF Write

(* A save: over a slot, past the undo, or aside.                           *)
LEMMA SaveDoes ==
  ASSUME TypeOK, TempsFree, Save
  PROVE  Aside \/ Through \/ Over \/ Exchanged
<1>0. /\ files \in FileMap /\ SlotNames \subseteq Files
      /\ undoSS \in BOOLEAN /\ redoSS \in BOOLEAN
      /\ Outcomes \subseteq {"written", "cut", "unopened"}
  BY SlotsAssumption, RolesApart DEF TypeOK, UndoTyped, FileMap, Files
<1>1. ASSUME NEW s \in Slots, NEW direct \in BOOLEAN, NEW o \in Outcomes,
             SaveOver(s, direct, o)
      PROVE  Over
  <2> DEFINE f == SlotFile(s)
             made == [files EXCEPT ![BackupOf(f)] = files[f], ![f] = NoFile]
  <2>1. game # NoGame /\ f \in SlotNames /\ Exists(files, f)
    BY <1>1, OpenNames DEF SaveOver, MaySave
  <2>2. CreateBackup(files, f) = made /\ made \in FileMap
    BY <1>0, <2>1, BackupMade, BackupTyped
  <2>3. files' = Write(made, f, o)
    BY <1>1, <2>2 DEF SaveOver
  <2>4. lastSavestateMade' = f /\ undoSS' = TRUE
    BY <1>1 DEF SaveOver
  <2> HIDE DEF f
  <2>5. \E x \in Contents : BackedUpAs(f, x)
    <3>1. CASE Write(made, f, o) = made
      BY <2>3, <3>1 DEF BackedUpAs, Contents
    <3>2. ASSUME NEW x \in Contents \ {NoFile},
                 Write(made, f, o) = [made EXCEPT ![f] = x]
          PROVE  BackedUpAs(f, x)
      <4>1. f # BackupOf(f) /\ f \in Files /\ BackupOf(f) \in Files
        BY <2>1, RolesApart DEF Files
      <4>2. [made EXCEPT ![f] = x] = [files EXCEPT ![BackupOf(f)] = files[f], ![f] = x]
        BY <1>0, <4>1 DEF FileMap
      <4> QED BY <2>3, <3>2, <4>2 DEF BackedUpAs
    <3> HIDE DEF made
    <3> QED BY <2>1, <2>2, <3>1, <3>2, WriteOne
  <2> QED BY <2>1, <2>4, <2>5 DEF Over
<1>2. ASSUME NEW f \in SlotNames, NEW o \in Outcomes, game # NoGame,
             files' = Write(files, f, o), NoNewOffer
      PROVE  Aside \/ Through
  <2>1. CASE files' = files
    BY <1>2, <2>1 DEF Aside
  <2>2. CASE files' # files
    BY <1>0, <1>2, <2>2, WriteOne DEF Through
  <2> QED BY <2>1, <2>2
<1>3. ASSUME NEW s \in Slots, NEW direct \in BOOLEAN, NEW o \in Outcomes,
             SaveNew(s, direct, o)
      PROVE  Aside \/ Through
  <2>1. game # NoGame /\ SlotFile(s) \in SlotNames
    BY <1>3, OpenNames DEF SaveNew, MaySave
  <2>2. NoNewOffer
    BY <1>0, <1>3 DEF SaveNew, NoNewOffer
  <2> QED BY <1>2, <1>3, <2>1, <2>2 DEF SaveNew
<1>4. ASSUME NEW f \in Named, NEW byLua \in BOOLEAN, NEW o \in Outcomes,
             SaveNamed(f, byLua, o)
      PROVE  Aside \/ Through
  <2>1. game # NoGame /\ files' = Write(files, f, o)
    BY <1>4 DEF SaveNamed, MaySave
  <2>2. NoNewOffer
    BY <1>0, <1>4 DEF SaveNamed, NoNewOffer
  <2>3. CASE f \in SlotNames
    BY <1>2, <2>1, <2>2, <2>3
  <2>4. CASE f \notin SlotNames
    <3>1. f \in UserFiles \/ f = PreLoad
      BY <2>1, <2>4, OpenNames DEF Named
    <3>2. \A n \in SlotNames : f # BackupOf(n) /\ f # TempOf(n)
      BY <2>1, <3>1, OpenNames, UserApart
    <3> QED BY <1>0, <2>1, <2>2, <2>4, <3>2, WriteAside
  <2> QED BY <2>3, <2>4
<1>5. ASSUME NEW s \in Slots, NEW direct \in BOOLEAN, SaveOnGenieScreen(s, direct)
      PROVE  Aside
  BY <1>5 DEF SaveOnGenieScreen, Aside, NoNewOffer, undoVars
<1>6. CASE UndoRedoSavestate
  BY <1>6, UndoExchanges
<1> QED BY <1>1, <1>3, <1>4, <1>5, <1>6 DEF Save

(* Every other step of a session is aside.                                 *)
LEMMA OthersAside ==
  ASSUME TypeOK, Load \/ Select \/ Session \/ UNCHANGED vars
  PROVE  Aside
<1>0. /\ files \in FileMap /\ undoSS \in BOOLEAN /\ redoSS \in BOOLEAN
  BY DEF TypeOK, UndoTyped, FileMap
<1>1. files' = files /\ UNCHANGED undoVars => Aside
  BY DEF Aside, NoNewOffer, undoVars
<1>2. ASSUME NEW o \in Outcomes, MaySave, files' = BackedUp(o),
             lastSavestateMade' = lastSavestateMade, undoSS' = undoSS,
             redoSS' => redoSS
      PROVE  Aside
  <2>1. /\ PreLoad \notin SlotNames
        /\ \A f \in SlotNames : PreLoad # BackupOf(f) /\ PreLoad # TempOf(f)
    BY <1>2, OpenNames DEF MaySave
  <2>2. NoNewOffer
    BY <1>2 DEF NoNewOffer
  <2> QED BY <1>0, <1>2, <2>1, <2>2, WriteAside DEF BackedUp
<1>3. CASE Load
  BY <1>0, <1>1, <1>2, <1>3
     DEF Load, LoadSlot, LoadNamed, LoadOnGenieScreen, LoadByLua, LoadFromMemory
<1>4. CASE Select \/ UNCHANGED vars
  BY <1>1, <1>4 DEF Select, SelectSlot, SelectNext, RowFades, vars
<1>5. CASE Session
  <2>1. ASSUME NEW o \in Outcomes, CloseNes(o)
        PROVE  Aside
    <3>1. /\ ResumeOf(game) \notin SlotNames
          /\ \A f \in SlotNames : ResumeOf(game) # BackupOf(f) /\ ResumeOf(game) # TempOf(f)
      BY DEF ResumeOf, SlotNames, BackupOf, TempOf, SlotOf
    <3>2. files' \in {files, Write(files, ResumeOf(game), o)}
      BY <2>1 DEF CloseNes
    <3>3. NoNewOffer
      BY <2>1 DEF CloseNes, NoNewOffer
    <3> QED BY <1>0, <3>1, <3>2, <3>3, WriteAside
  <2> QED BY <1>1, <1>5, <2>1 DEF Session, OpenGame, CloseGba, Rebind, Run, Power
<1> QED BY <1>3, <1>4, <1>5

(* The end of the process is aside, or within a save.                      *)
LEMMA EndDoes ==
  ASSUME SwapsComplete, TypeOK, End
  PROVE  Aside \/ CutOff
<1>0. files \in FileMap
  BY DEF TypeOK, FileMap
<1>1. CASE EndIdle
  BY <1>1 DEF EndIdle, Restarted, Aside, NoNewOffer
<1>2. ASSUME NEW s \in Slots, EndSaving(s)
      PROVE  CutOff
  <2> DEFINE f == SlotFile(s)
             made == [files EXCEPT ![BackupOf(f)] = files[f], ![f] = NoFile]
  <2>1. f \in SlotNames /\ Exists(files, f)
    BY <1>2, OpenNames DEF EndSaving, MaySave
  <2>2. CreateBackup(files, f) = made
    BY <1>0, <2>1, BackupMade
  <2>3. lastSavestateMade' = NoName
    BY <1>2 DEF EndSaving, Restarted
  <2> HIDE DEF f
  <2>4. Write(made, f, "cut") = [files EXCEPT ![BackupOf(f)] = files[f], ![f] = Damaged]
    <3>1. f # BackupOf(f) /\ f \in Files /\ BackupOf(f) \in Files
      BY <2>1, RolesApart DEF Files
    <3> QED BY <1>0, <3>1 DEF FileMap, Write
  <2>5. files' \in {Remove(files, BackupOf(f)), made, Write(made, f, "cut")}
    BY <1>2, <2>2 DEF EndSaving, f
  <2> QED BY <2>1, <2>3, <2>4, <2>5 DEF CutOff, BackedUpAs
<1> QED BY <1>1, <1>2 DEF End, EndSwapping, SwapsComplete

-----------------------------------------------------------------------------
(* What each of the five does to the undo.                                 *)

Shown == [f \in SlotNames |-> files[f]]

AbstractStep == [Undoable!Next]_(Undoable!vars)

(* With its backup unchanged and no new offer, an offer stays or is gone.  *)
LEMMA OfferStays ==
  ASSUME TypeOK, TypeOK', NoNewOffer,
         \A f \in SlotNames : files'[BackupOf(f)] = files[BackupOf(f)]
  PROVE  UndoOnOffer' \in {UndoOnOffer, NoUndo}
<1>1. CASE ~(undoSS' \/ redoSS')
  BY <1>1 DEF UndoOnOffer
<1>2. CASE undoSS' \/ redoSS'
  <2>1. (undoSS \/ redoSS) /\ lastSavestateMade' = lastSavestateMade
    BY <1>2 DEF NoNewOffer
  <2>2. lastSavestateMade \in SlotNames \/ lastSavestateMade = NoName
    BY DEF TypeOK, UndoTyped
  <2> QED BY <1>2, <2>1, <2>2 DEF UndoOnOffer, Exists
<1> QED BY <1>1, <1>2

(* Aside: the undo stays or is forgotten.                                  *)
LEMMA AsideMaps ==
  ASSUME TypeOK, TypeOK', TempsFree, Aside
  PROVE  AbstractStep /\ TempsFree'
<1>1. Shown' = Shown
  BY DEF Aside, Shown
<1>2. UndoOnOffer' \in {UndoOnOffer, NoUndo}
  BY OfferStays DEF Aside
<1>3. TempsFree'
  BY DEF Aside, TempsFree
<1> QED BY <1>1, <1>2, <1>3
        DEF AbstractStep, Undoable!Next, Undoable!Forget, Undoable!vars, Shown

(* A slot written without a backup.                                        *)
LEMMA ThroughMaps ==
  ASSUME TypeOK, TypeOK', TempsFree, Through
  PROVE  AbstractStep /\ TempsFree'
<1>1. PICK f \in SlotNames, x \in Contents \ {NoFile} :
        files' = [files EXCEPT ![f] = x]
  BY DEF Through
<1>2. files \in FileMap
  BY DEF TypeOK, FileMap
<1>3. ASSUME NEW n \in SlotNames
      PROVE  /\ files'[n] = IF n = f THEN x ELSE files[n]
             /\ files'[BackupOf(n)] = files[BackupOf(n)]
             /\ files'[TempOf(n)] = files[TempOf(n)]
  <2>1. {n, BackupOf(n), TempOf(n)} \subseteq Files /\ f # BackupOf(n) /\ f # TempOf(n)
    BY RolesApart DEF Files
  <2> QED BY <1>1, <1>2, <2>1 DEF FileMap
<1>4. Shown' = [Shown EXCEPT ![f] = x]
  BY <1>3 DEF Shown
<1>5. UndoOnOffer' \in {UndoOnOffer, NoUndo}
  BY <1>3, OfferStays DEF Through
<1>6. Undoable!WriteThrough
  BY <1>4, <1>5 DEF Undoable!WriteThrough, Shown
<1> QED BY <1>3, <1>6 DEF AbstractStep, Undoable!Next, TempsFree

(* What a save over a slot leaves in the files.                            *)
LEMMA BackedUpFiles ==
  ASSUME TypeOK, TempsFree, NEW f \in SlotNames, NEW x \in Contents,
         BackedUpAs(f, x)
  PROVE  /\ Shown' = [Shown EXCEPT ![f] = x]
         /\ files'[BackupOf(f)] = files[f]
         /\ TempsFree'
<1>1. files \in FileMap
  BY DEF TypeOK, FileMap
<1>2. ASSUME NEW n \in SlotNames
      PROVE  /\ files'[n] = IF n = f THEN x ELSE files[n]
             /\ files'[TempOf(n)] = files[TempOf(n)]
  <2>1. /\ {n, f, BackupOf(f), TempOf(n)} \subseteq Files
        /\ n # BackupOf(f) /\ TempOf(n) # BackupOf(f) /\ TempOf(n) # f
    BY RolesApart DEF Files
  <2> QED BY <1>1, <2>1 DEF BackedUpAs, FileMap
<1>3. files'[BackupOf(f)] = files[f]
  <2>1. f \in Files /\ BackupOf(f) \in Files /\ f # BackupOf(f)
    BY RolesApart DEF Files
  <2> QED BY <1>1, <2>1 DEF BackedUpAs, FileMap
<1> QED BY <1>2, <1>3 DEF Shown, TempsFree

(* A save over a slot puts what it held on offer.                          *)
LEMMA OverMaps ==
  ASSUME TypeOK, TypeOK', TempsFree, Over
  PROVE  AbstractStep /\ TempsFree'
<1>1. PICK f \in SlotNames, x \in Contents :
        /\ Exists(files, f) /\ BackedUpAs(f, x)
        /\ lastSavestateMade' = f /\ undoSS'
  BY DEF Over
<1>2. /\ Shown' = [Shown EXCEPT ![f] = x] /\ files'[BackupOf(f)] = files[f]
      /\ TempsFree' /\ Shown[f] = files[f] /\ files[f] # NoFile
  BY <1>1, BackedUpFiles DEF Shown, Exists
<1>3. UndoOnOffer' = [name |-> f, content |-> files[f]]
  <2>1. f # NoName
    BY SlotsAssumption, RolesApart DEF Files
  <2> QED BY <1>1, <1>2, <2>1 DEF UndoOnOffer, Exists
<1>4. CASE x = NoFile
  BY <1>2, <1>3, <1>4
     DEF AbstractStep, Undoable!Next, Undoable!LoseSave, Undoable!Offer, Shown
<1>5. CASE x # NoFile
  BY <1>2, <1>3, <1>5
     DEF AbstractStep, Undoable!Next, Undoable!Save, Undoable!Offer, Shown
<1> QED BY <1>2, <1>4, <1>5

(* An exchange brings back what is on offer, and offers what it replaced.  *)
LEMMA ExchangeMaps ==
  ASSUME TypeOK, TypeOK', TempsFree, Exchanged
  PROVE  AbstractStep /\ TempsFree' /\ Undoable!UndoRedo
<1> DEFINE f == lastSavestateMade
           b == BackupOf(f)
<1>1. /\ f \in SlotNames /\ (undoSS \/ redoSS) /\ Exists(files, b)
      /\ files' = [files EXCEPT ![f] = files[b], ![b] = files[f]]
      /\ lastSavestateMade' = f /\ undoSS'
  BY DEF Exchanged
<1>2. files \in FileMap /\ f # NoName
  BY <1>1, SlotsAssumption, RolesApart DEF TypeOK, FileMap, Files
<1>3. ASSUME NEW n \in SlotNames
      PROVE  /\ files'[n] = IF n = f THEN files[b] ELSE files[n]
             /\ files'[TempOf(n)] = files[TempOf(n)]
  <2>1. /\ {n, f, b, TempOf(n)} \subseteq Files
        /\ n # b /\ TempOf(n) # b /\ TempOf(n) # f
    BY <1>1, RolesApart DEF Files
  <2> QED BY <1>1, <1>2, <2>1 DEF FileMap
<1>4. files'[b] = files[f] /\ files[b] \in Contents \ {NoFile}
  <2>1. f \in Files /\ b \in Files
    BY <1>1, RolesApart DEF Files
  <2> QED BY <1>1, <1>2, <2>1 DEF FileMap, Exists
<1>5. UndoOnOffer = [name |-> f, content |-> files[b]] /\ UndoOnOffer # NoUndo
  BY <1>1, <1>2, <1>4, UndoAssumption DEF UndoOnOffer
<1>6. UndoOnOffer' = Undoable!Offer(f, files[f])
  BY <1>1, <1>2, <1>4 DEF UndoOnOffer, Exists, Undoable!Offer
<1>7. Shown' = [Shown EXCEPT ![f] = files[b]] /\ Shown[f] = files[f]
  BY <1>1, <1>3 DEF Shown
<1>8. Undoable!UndoRedo
  BY <1>5, <1>6, <1>7 DEF Undoable!UndoRedo, Shown
<1>9. TempsFree'
  BY <1>3 DEF TempsFree
<1> QED BY <1>8, <1>9 DEF AbstractStep, Undoable!Next

(* The end of the process within a save.                                   *)
LEMMA CutOffMaps ==
  ASSUME TypeOK, TypeOK', TempsFree, CutOff
  PROVE  AbstractStep /\ TempsFree'
<1>1. UndoOnOffer' = NoUndo
  BY DEF CutOff, UndoOnOffer
<1>2. PICK f \in SlotNames :
        \/ files' = Remove(files, BackupOf(f))
        \/ \E x \in {NoFile, Damaged} : BackedUpAs(f, x)
  BY DEF CutOff
<1>3. CASE files' = Remove(files, BackupOf(f))
  <2>1. files \in FileMap
    BY DEF TypeOK, FileMap
  <2>2. ASSUME NEW n \in SlotNames
        PROVE  files'[n] = files[n] /\ files'[TempOf(n)] = files[TempOf(n)]
    <3>1. /\ {n, TempOf(n)} \subseteq Files
          /\ n # BackupOf(f) /\ TempOf(n) # BackupOf(f)
      BY RolesApart DEF Files
    <3> QED BY <1>3, <2>1, <3>1 DEF Remove, FileMap
  <2>3. Shown' = Shown /\ TempsFree'
    BY <2>2 DEF Shown, TempsFree
  <2> QED BY <1>1, <2>3
          DEF AbstractStep, Undoable!Next, Undoable!Forget, Undoable!vars, Shown
<1>4. ASSUME NEW x \in {NoFile, Damaged}, BackedUpAs(f, x)
      PROVE  AbstractStep /\ TempsFree'
  <2>1. Shown' = [Shown EXCEPT ![f] = x] /\ TempsFree'
    BY <1>4, BackedUpFiles DEF Contents
  <2>2. Undoable!EndsWithin
    BY <1>1, <2>1 DEF Undoable!EndsWithin, Shown
  <2> QED BY <2>1, <2>2 DEF AbstractStep, Undoable!Next
<1> QED BY <1>2, <1>3, <1>4

(* Every step maps to one of the undo, or to none.                         *)
LEMMA StepMaps ==
  ASSUME SwapsComplete, TypeOK, TypeOK', TempsFree, [Next]_vars
  PROVE  AbstractStep /\ TempsFree'
<1>1. Aside \/ Through \/ Over \/ Exchanged \/ CutOff
  BY SaveDoes, OthersAside, EndDoes DEF Next
<1> QED BY <1>1, AsideMaps, ThroughMaps, OverMaps, ExchangeMaps, CutOffMaps

(* As long as no exchange is cut short, the flags and file names implement *)
(* an undo of one step, whatever fails: it brings back what the last save  *)
(* by slot replaced, and nothing else.                                     *)
THEOREM SlotsRefine ==
  ASSUME SwapsComplete
  PROVE  Spec => KeepsUndo
<1>1. Init => Undoable!Init /\ TempsFree
  <2>1. SUFFICES ASSUME Init PROVE Undoable!Init /\ TempsFree
    OBVIOUS
  <2>2. files \in Given /\ files \in FileMap /\ TempsFree
    BY <2>1, SlotsAssumption DEF Init, FileMap, SwapsComplete, TempsFree
  <2>3. Shown \in [SlotNames -> Contents]
    <3>1. SlotNames \subseteq Files
      BY RolesApart DEF Files
    <3> QED BY <2>2, <3>1 DEF FileMap, Shown
  <2>4. UndoOnOffer = NoUndo
    BY <2>1 DEF Init, UndoOnOffer
  <2> QED BY <2>2, <2>3, <2>4 DEF Undoable!Init, Shown
<1>2. TypeOK /\ TypeOK' /\ TempsFree /\ [Next]_vars
        => TempsFree' /\ [Undoable!Next]_(Undoable!vars)
  BY StepMaps DEF AbstractStep
<1> QED BY <1>1, <1>2, SlotsTyped, PTL DEF Spec, KeepsUndo, Undoable!Spec

(* As long as no exchange is cut short, an undo that the program reports   *)
(* has put back what was on offer, and offers what it replaced.            *)
THEOREM SlotsUndoRestores ==
  ASSUME SwapsComplete
  PROVE  Spec => UndoRestores
<1>1. Init => TempsFree
  BY SlotsAssumption DEF Init, SwapsComplete, TempsFree
<1>2. TypeOK /\ TypeOK' /\ TempsFree /\ [Next]_vars => TempsFree'
  BY StepMaps
<1>3. ASSUME TypeOK, TypeOK', TempsFree, UndoRedoSavestate
      PROVE  Undoable!UndoRedo
  <2>1. Exchanged
    BY <1>3, UndoExchanges
  <2> QED BY <1>3, <2>1, ExchangeMaps
<1> QED BY <1>1, <1>2, <1>3, SlotsTyped, PTL DEF Spec, UndoRestores
=============================================================================
