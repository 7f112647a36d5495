------------------------- MODULE StateRecorderProofs --------------------------
(***************************************************************************)
(* Proofs about the state recorder, for all settings that give a ring of   *)
(* at least one slot, and a user who restarts the recorder when the dialog *)
(* asks unless no settings change the size of the ring: without either of  *)
(* the two the indices leave the ring.                                     *)
(***************************************************************************)
EXTENDS StateRecorder, SequenceTheorems, TLAPS

SizedRings == \A c \in Configs : RingBufSize(c) >= 1

Restarts ==
  \/ FALSE \notin Answers
  \/ \A c, d \in Configs : RingBufSize(c) = RingBufSize(d)

-----------------------------------------------------------------------------
(* Ring arithmetic.  A remainder by a variable is beyond the solver unless *)
(* it is told between which multiples of the divisor the dividend lies.    *)

(* A remainder lies within the ring.                                       *)
LEMMA WrapRange ==
  ASSUME NEW N \in Nat \ {0}, NEW x \in Int
  PROVE  x % N \in 0 .. N - 1
  BY SMTT(30)

(* Within the ring nothing wraps.                                          *)
LEMMA WrapInside ==
  ASSUME NEW N \in Nat \ {0}, NEW x \in 0 .. N - 1
  PROVE  x % N = x
  BY SMTT(30)

(* Past the end of the ring an index wraps to the front.                   *)
LEMMA WrapAbove ==
  ASSUME NEW N \in Nat \ {0}, NEW x \in N .. 2 * N - 1
  PROVE  x % N = x - N
  BY SMTT(30)

(* Before its front an index wraps to the end.                             *)
LEMMA WrapBelow ==
  ASSUME NEW N \in Nat \ {0}, NEW x \in (-N) .. (-1)
  PROVE  x % N = x + N
  BY SMTT(30)

(* The slot after another one.                                             *)
LEMMA After ==
  ASSUME NEW N \in Nat \ {0}, NEW x \in 0 .. N - 1
  PROVE  (x + 1) % N = IF x + 1 = N THEN 0 ELSE x + 1
<1>1. CASE x + 1 = N
  BY <1>1, WrapAbove
<1>2. CASE x + 1 # N
  BY <1>2, WrapInside
<1> QED BY <1>1, <1>2

(* The slot before another one.                                            *)
LEMMA Before ==
  ASSUME NEW N \in Nat \ {0}, NEW x \in 0 .. N - 1
  PROVE  (x - 1) % N = IF x = 0 THEN N - 1 ELSE x - 1
<1>1. CASE x = 0
  BY <1>1, WrapBelow
<1>2. CASE x # 0
  BY <1>2, WrapInside
<1> QED BY <1>1, <1>2

(* How far one slot lies ahead of another.                                 *)
LEMMA Distance ==
  ASSUME NEW N \in Nat \ {0}, NEW x \in 0 .. N - 1, NEW y \in 0 .. N - 1
  PROVE  (x - y) % N = IF x >= y THEN x - y ELSE x - y + N
<1>1. CASE x >= y
  BY <1>1, WrapInside
<1>2. CASE ~(x >= y)
  BY <1>2, WrapBelow
<1> QED BY <1>1, <1>2

(* A ring of at least one slot has a slot zero.                            *)
LEMMA FirstSlot ==
  ASSUME NEW N \in Nat \ {0}
  PROVE  0 \in 0 .. N - 1
  OBVIOUS

(* Nothing lies between the first slot and itself.                         *)
LEMMA NothingHeld ==
  ASSUME NEW N \in Nat \ {0}, NEW i \in 0 .. N - 1
  PROVE  ~((i - 0) % N < (0 - 0) % N)
<1>1. (i - 0) % N = i - 0
  BY WrapInside
<1>2. 0 \in 0 .. N - 1 /\ 0 - 0 = 0
  BY FirstSlot
<1>3. (0 - 0) % N = 0
  BY <1>2, WrapInside
<1> QED BY <1>1, <1>3

(* Settings give an integral number of slots and of frames per snapshot.   *)
LEMMA ConfigTypes ==
  ASSUME SizedRings, NEW c \in Configs
  PROVE  /\ RingBufSize(c) \in Nat \ {0}
         /\ FramesPerSnap(c) \in Nat \ {0}
         /\ c.pauseOnLoad \in PauseTypes
<1> /\ c.history \in Nat \ {0} /\ c.framesBetween \in Nat
    /\ c.timeBetween \in Nat \ {0} /\ c.timed \in BOOLEAN
    /\ c.pauseOnLoad \in PauseTypes
  BY RecorderAssumption DEF Config
<1>1. FramesPerSnap(c) \in Nat \ {0}
  BY DEF FramesPerSnap
<1>2. History(c) \in Nat
  BY DEF History
<1>3. RingBufSize(c) \in Int
  BY <1>1, <1>2 DEF RingBufSize
<1>4. RingBufSize(c) >= 1
  BY DEF SizedRings
<1> QED BY <1>1, <1>3, <1>4

-----------------------------------------------------------------------------
(* The types.                                                              *)

(* The steps a running recorder takes before a frame keep its indices      *)
(* within its ring.                                                        *)
LEMMA UpdateTyped ==
  ASSUME TypeOK, running, Update, UNCHANGED configVars
  PROVE  /\ loadIndexReset' \in BOOLEAN
         /\ frameCounter' \in Nat /\ lastLoadFrame' \in Nat
         /\ RingTyped'
<1>1. RingTyped /\ ringBufSize' = ringBufSize /\ framesPerSnap' = framesPerSnap
  BY DEF TypeOK, configVars
<1>2. CASE Resume
  <2>1. ringHead' \in 0 .. ringBufSize - 1
    <3>1. lastState + 1 \in Int /\ ringHead' = (lastState + 1) % ringBufSize
      BY <1>1, <1>2 DEF Resume, RingTyped
    <3> QED BY <1>1, <3>1, WrapRange DEF RingTyped
  <2> QED BY <1>1, <1>2, <2>1 DEF Resume, RingTyped, TypeOK
<1>3. CASE Snap
  <2>1. ringHead' \in 0 .. ringBufSize - 1
    <3>1. ringHead + 1 \in Int /\ ringHead' = (ringHead + 1) % ringBufSize
      BY <1>1, <1>3 DEF Snap, RingTyped
    <3> QED BY <1>1, <3>1, WrapRange DEF RingTyped
  <2>2. ringStart' \in 0 .. ringBufSize - 1
    <3>1. ringHead' + 1 \in Int
      BY <2>1
    <3>2. (ringHead' + 1) % ringBufSize \in 0 .. ringBufSize - 1
      BY <1>1, <3>1, WrapRange DEF RingTyped
    <3> QED BY <1>1, <1>3, <3>2 DEF Snap, RingTyped
  <2>3. ringBuf' \in [0 .. ringBufSize - 1 -> Nat \cup {NoSnap}]
    BY <1>1, <1>3 DEF Snap, RingTyped, TypeOK
  <2>4. lastState' \in 0 .. ringBufSize - 1
    BY <1>1, <1>3 DEF Snap, RingTyped
  <2> QED BY <1>1, <1>3, <2>1, <2>2, <2>3, <2>4 DEF Snap, TypeOK, RingTyped
<1>4. CASE NoSnapDue
  BY <1>1, <1>4 DEF NoSnapDue, indexVars, RingTyped, TypeOK
<1> QED BY <1>2, <1>3, <1>4 DEF Update

(* Loading a snapshot keeps the types, whichever slot is asked for.        *)
LEMMA LoadTyped ==
  ASSUME TypeOK, running, NEW i \in 0 .. ringBufSize - 1, LoadStateByIndex(i)
  PROVE  TypeOK'
<1>1. RingTyped'
  BY DEF TypeOK, RingTyped, LoadStateByIndex, configVars
<1>2. currFrameCounter' \in Nat
  <2>1. ringBuf[i] \in Nat \cup {NoSnap}
    BY DEF TypeOK, RingTyped
  <2> QED BY <2>1 DEF TypeOK, LoadStateByIndex
<1>3. EmulationPaused' \in {"no", "timer", "paused"}
  BY DEF TypeOK, LoadStateByIndex, PausedAfterLoad
<1> QED BY <1>1, <1>2, <1>3 DEF TypeOK, LoadStateByIndex, configVars

(* A new recorder has its types.                                           *)
LEMMA NewTyped ==
  ASSUME SizedRings, NEW c \in Configs, NewRecorder(c)
  PROVE  /\ running' = TRUE /\ loadIndexReset' \in BOOLEAN
         /\ pauseOnLoad' \in PauseTypes
         /\ frameCounter' \in Nat /\ lastLoadFrame' \in Nat
         /\ RingTyped'
<1>1. ringBufSize' \in Nat \ {0} /\ framesPerSnap' \in Nat \ {0}
  BY ConfigTypes DEF NewRecorder, LoadConfig
<1>2. ringBuf' \in [0 .. ringBufSize' - 1 -> Nat \cup {NoSnap}]
  BY DEF NewRecorder, LoadConfig
<1>3. ringHead' = 0 /\ ringStart' = 0 /\ lastState' = 0
  BY DEF NewRecorder
<1>4. RingTyped'
  <2>1. 0 \in 0 .. ringBufSize' - 1
    BY <1>1, FirstSlot
  <2>2. /\ ringHead' \in 0 .. ringBufSize' - 1
        /\ ringStart' \in 0 .. ringBufSize' - 1
        /\ lastState' \in 0 .. ringBufSize' - 1
    BY <2>1, <1>3
  <2> QED BY <1>1, <1>2, <2>2 DEF RingTyped
<1>5. running' = TRUE /\ loadIndexReset' \in BOOLEAN
  BY DEF NewRecorder
<1>6. pauseOnLoad' \in PauseTypes
  BY ConfigTypes DEF NewRecorder, LoadConfig
<1>7. frameCounter' \in Nat /\ lastLoadFrame' \in Nat
  BY DEF NewRecorder
<1> QED BY <1>4, <1>5, <1>6, <1>7

(* Where the ring and the settings of a recorder do not change, and no     *)
(* recorder comes or goes, the ring keeps its types.                       *)
LEMMA RingUnchanged ==
  ASSUME TypeOK, UNCHANGED <<running, ringVars>>
  PROVE  /\ running' \in BOOLEAN /\ loadIndexReset' \in BOOLEAN
         /\ pauseOnLoad' \in PauseTypes
         /\ frameCounter' \in Nat /\ lastLoadFrame' \in Nat
         /\ running' => RingTyped'
  BY DEF TypeOK, RingTyped, ringVars, configVars, indexVars

(* The size a running recorder uses is that of the current settings, which *)
(* need not be the size of its ring.                                       *)
SizeOfConfig == running => ringBufSize = RingBufSize(stateRecorderConfig)

(* Every step keeps the size that of the settings.                         *)
LEMMA SizeStep == SizeOfConfig /\ [Next]_vars => SizeOfConfig'
<1> SUFFICES ASSUME SizeOfConfig, [Next]_vars PROVE SizeOfConfig'
  OBVIOUS
<1>1. CASE Start
  BY <1>1 DEF Start, NewRecorder, LoadConfig, SizeOfConfig
<1>2. CASE Stop
  <2>1. ~running'
    BY <1>2 DEF Stop
  <2> QED BY <2>1 DEF SizeOfConfig
<1>3. ASSUME NEW c \in Configs, ApplyWhileStopped(c) PROVE SizeOfConfig'
  BY <1>3 DEF ApplyWhileStopped, SizeOfConfig
<1>4. ASSUME NEW c \in Configs, ApplyAndRestart(c) PROVE SizeOfConfig'
  BY <1>4 DEF ApplyAndRestart, NewRecorder, LoadConfig, SizeOfConfig
<1>5. ASSUME NEW c \in Configs, ApplyWithoutRestart(c) PROVE SizeOfConfig'
  BY <1>5 DEF ApplyWithoutRestart, LoadConfig, SizeOfConfig
<1>6. ASSUME UNCHANGED <<running, stateRecorderConfig, configVars>>
      PROVE  SizeOfConfig'
  BY <1>6 DEF SizeOfConfig, configVars
<1>7. CASE Frame \/ FrameAdvance \/ ToggleEmulationPause \/ OutsideLoad
  BY <1>6, <1>7 DEF Frame, FrameAdvance, ToggleEmulationPause, OutsideLoad,
                    ringVars
<1>8. CASE LoadPrevState \/ LoadNextState
  BY <1>6, <1>8 DEF LoadPrevState, LoadNextState, LoadStateByIndex
<1>9. CASE UNCHANGED vars
  BY <1>6, <1>9 DEF vars, ringVars
<1> QED BY <1>1, <1>2, <1>3, <1>4, <1>5, <1>7, <1>8, <1>9 DEF Next

(* The size is that of the settings in every state.                        *)
LEMMA Sized == Spec => []SizeOfConfig
<1>1. Init => SizeOfConfig
  BY DEF Init, SizeOfConfig
<1> QED BY <1>1, SizeStep, PTL DEF Spec

(* Settings applied without a restart leave the size as it is.             *)
LEMMA SizeKept ==
  ASSUME SizedRings, Restarts, TypeOK, SizeOfConfig, NEW c \in Configs,
         ApplyWithoutRestart(c)
  PROVE  /\ running /\ running' = running
         /\ ringBufSize' = ringBufSize
         /\ framesPerSnap' \in Nat \ {0} /\ pauseOnLoad' \in PauseTypes
         /\ UNCHANGED <<ringBuf, indexVars, frameCounter, lastLoadFrame,
                        currFrameCounter, EmulationPaused>>
<1>1. RingBufSize(c) = RingBufSize(stateRecorderConfig)
  BY DEF Restarts, ApplyWithoutRestart, TypeOK
<1>2. ringBufSize' = RingBufSize(c) /\ framesPerSnap' = FramesPerSnap(c)
      /\ pauseOnLoad' = c.pauseOnLoad
  BY DEF ApplyWithoutRestart, LoadConfig
<1> QED BY <1>1, <1>2, ConfigTypes
        DEF ApplyWithoutRestart, SizeOfConfig, machineVars

(* Every step of the recorder keeps the types.                             *)
LEMMA TypedStep ==
  ASSUME SizedRings, Restarts, TypeOK, SizeOfConfig, [Next]_vars
  PROVE  TypeOK'
<1>1. CASE Start
  BY <1>1, NewTyped DEF Start, TypeOK, machineVars
<1>2. CASE Stop
  <2>1. ~running' /\ running' \in BOOLEAN
    BY <1>2 DEF Stop
  <2> QED BY <1>2, <2>1 DEF Stop, TypeOK, machineVars, PauseTypes
<1>3. ASSUME NEW c \in Configs, ApplyWhileStopped(c) PROVE TypeOK'
  BY <1>3, RingUnchanged DEF ApplyWhileStopped, TypeOK, machineVars
<1>4. ASSUME NEW c \in Configs, ApplyAndRestart(c) PROVE TypeOK'
  BY <1>4, NewTyped DEF ApplyAndRestart, TypeOK, machineVars
<1>5. ASSUME NEW c \in Configs, ApplyWithoutRestart(c) PROVE TypeOK'
  <2>1. /\ running /\ running' = running /\ ringBufSize' = ringBufSize
        /\ framesPerSnap' \in Nat \ {0} /\ pauseOnLoad' \in PauseTypes
        /\ UNCHANGED <<ringBuf, indexVars, frameCounter, lastLoadFrame,
                       currFrameCounter, EmulationPaused>>
    BY <1>5, SizeKept
  <2>2. RingTyped'
    BY <2>1 DEF TypeOK, RingTyped, indexVars
  <2>3. stateRecorderConfig' \in Configs
    BY <1>5 DEF ApplyWithoutRestart
  <2> QED BY <2>1, <2>2, <2>3 DEF TypeOK, indexVars
<1>6. CASE Frame
  <2>1. currFrameCounter' \in Nat
    BY <1>6 DEF Frame, NextFrame, TypeOK
  <2>2. CASE running
    BY <1>6, <2>1, <2>2, UpdateTyped DEF Frame, TypeOK, configVars
  <2>3. CASE ~running
    BY <1>6, <2>1, <2>3, RingUnchanged DEF Frame, Update, TypeOK
  <2> QED BY <2>2, <2>3
<1>7. CASE FrameAdvance
  BY <1>7, RingUnchanged DEF FrameAdvance, NextFrame, TypeOK
<1>8. CASE ToggleEmulationPause
  BY <1>8, RingUnchanged DEF ToggleEmulationPause, TypeOK
<1>9. CASE OutsideLoad
  BY <1>9, RecorderAssumption, RingUnchanged DEF OutsideLoad, TypeOK
<1>10. CASE LoadPrevState
  <2>1. PrevIndex \in 0 .. ringBufSize - 1
    <3>1. RingTyped /\ lastState - 1 \in Int
      BY <1>10 DEF LoadPrevState, TypeOK, RingTyped
    <3>2. (lastState - 1) % ringBufSize \in 0 .. ringBufSize - 1
      BY <3>1, WrapRange DEF RingTyped
    <3> QED BY <3>1, <3>2 DEF PrevIndex, RingTyped
  <2> QED BY <1>10, <2>1, LoadTyped DEF LoadPrevState
<1>11. CASE LoadNextState
  <2>1. NextIndex \in 0 .. ringBufSize - 1
    <3>1. RingTyped /\ lastState + 1 \in Int
      BY <1>11 DEF LoadNextState, TypeOK, RingTyped
    <3>2. (lastState + 1) % ringBufSize \in 0 .. ringBufSize - 1
      BY <3>1, WrapRange DEF RingTyped
    <3> QED BY <3>1, <3>2 DEF NextIndex, RingTyped
  <2> QED BY <1>11, <2>1, LoadTyped DEF LoadNextState
<1>12. CASE UNCHANGED vars
  BY <1>12, RingUnchanged DEF vars, TypeOK, machineVars
<1> QED BY <1>1, <1>2, <1>3, <1>4, <1>5, <1>6, <1>7, <1>8, <1>9, <1>10,
           <1>11, <1>12 DEF Next

(* The recorder starts with its types.                                     *)
LEMMA TypedInit == Init => TypeOK
<1> SUFFICES ASSUME Init PROVE TypeOK
  OBVIOUS
<1>1. ~running /\ running \in BOOLEAN
  BY DEF Init
<1> QED BY <1>1 DEF Init, TypeOK, PauseTypes

(* TypeOK holds in every state: above all, the head, the start and the     *)
(* last state of a running recorder are slots of its ring, which           *)
(* loadStateByIndex and update index without a check.                      *)
THEOREM RecorderTyped ==
  ASSUME SizedRings, Restarts
  PROVE  Spec => []TypeOK
<1>1. TypeOK /\ SizeOfConfig /\ [Next]_vars => TypeOK'
  BY TypedStep
<1> QED BY TypedInit, <1>1, Sized, PTL DEF Spec

-----------------------------------------------------------------------------
(* The slots that are held.                                                *)

(* How many slots lie from j up to i, going round the ring.                *)
Gap(i, j) == IF i >= j THEN i - j ELSE i - j + ringBufSize

InRing(i) == Gap(i, ringStart) < Gap(ringHead, ringStart)

(* The slots from the start to the head are written; the last state is one *)
(* of them, and the loaded one always.                                     *)
RingKept ==
  /\ \A i \in 0 .. ringBufSize - 1 : InRing(i) => ringBuf[i] # NoSnap
  /\ InRing(lastState) \/ (ringHead = ringStart /\ lastState = ringHead)
  /\ loadIndexReset => InRing(lastState)

(* A new recorder holds nothing, and nothing is loaded.                    *)
LEMMA NewKept ==
  ASSUME SizedRings, NEW c \in Configs, NewRecorder(c)
  PROVE  RingKept'
<1>1. ringHead' = 0 /\ ringStart' = 0 /\ lastState' = 0 /\ ~loadIndexReset'
  BY DEF NewRecorder
<1>2. \A i \in 0 .. ringBufSize' - 1 : ~InRing(i)'
  BY <1>1 DEF InRing, Gap
<1> QED BY <1>1, <1>2 DEF RingKept

(* The first frame after a load drops the slots after the loaded one and   *)
(* no other.                                                               *)
LEMMA ResumeKept ==
  ASSUME RingTyped, RingKept, Resume, UNCHANGED configVars
  PROVE  RingKept'
<1>1. /\ ringBufSize \in Nat \ {0} /\ ringBufSize' = ringBufSize
      /\ ringHead \in 0 .. ringBufSize - 1
      /\ ringStart \in 0 .. ringBufSize - 1
      /\ lastState \in 0 .. ringBufSize - 1
  BY DEF RingTyped, configVars
<1>2. /\ ringStart' = ringStart /\ lastState' = lastState
      /\ ringBuf' = ringBuf /\ InRing(lastState)
  BY DEF Resume, RingKept
<1>3. ringHead' = IF lastState + 1 = ringBufSize THEN 0 ELSE lastState + 1
  BY <1>1, After DEF Resume
<1>4. InRing(lastState)'
  BY <1>1, <1>2, <1>3 DEF InRing, Gap
<1>5. ASSUME NEW i \in 0 .. ringBufSize - 1, InRing(i)' PROVE InRing(i)
  BY <1>1, <1>2, <1>3, <1>5 DEF InRing, Gap
<1> QED BY <1>1, <1>2, <1>4, <1>5 DEF RingKept

(* Where the head and the start of the ring move to when a snapshot is     *)
(* taken.                                                                  *)
LEMMA SnapMoves ==
  ASSUME RingTyped, Snap
  PROVE  /\ ringHead' = IF ringHead + 1 = ringBufSize THEN 0 ELSE ringHead + 1
         /\ ringStart' =
              IF ringStart # ringHead' THEN ringStart
              ELSE IF ringHead' + 1 = ringBufSize THEN 0 ELSE ringHead' + 1
<1>1. ringBufSize \in Nat \ {0} /\ ringHead \in 0 .. ringBufSize - 1
  BY DEF RingTyped
<1>2. ringHead' = IF ringHead + 1 = ringBufSize THEN 0 ELSE ringHead + 1
  BY <1>1, After DEF Snap
<1>3. ringHead' \in 0 .. ringBufSize - 1
  BY <1>1, <1>2
<1>4. \A x \in 0 .. ringBufSize - 1 :
        (x + 1) % ringBufSize = IF x + 1 = ringBufSize THEN 0 ELSE x + 1
  BY <1>1, After
<1>5. (ringHead' + 1) % ringBufSize
        = IF ringHead' + 1 = ringBufSize THEN 0 ELSE ringHead' + 1
  BY <1>3, <1>4
<1> QED BY <1>2, <1>5 DEF Snap

(* A snapshot adds the slot it is written to and drops at most the start.  *)
LEMMA SnapKept ==
  ASSUME RingTyped, RingKept, Snap, UNCHANGED configVars,
         currFrameCounter \in Nat
  PROVE  RingKept'
<1>1. /\ ringBufSize \in Nat \ {0} /\ ringBufSize' = ringBufSize
      /\ ringHead \in 0 .. ringBufSize - 1
      /\ ringStart \in 0 .. ringBufSize - 1
      /\ ringBuf \in [0 .. ringBufSize - 1 -> Nat \cup {NoSnap}]
  BY DEF RingTyped, configVars
<1>2. /\ lastState' = ringHead /\ ~loadIndexReset'
      /\ ringBuf' = [ringBuf EXCEPT ![ringHead] = currFrameCounter]
  BY DEF Snap
<1>3. InRing(lastState)' \/ (ringHead' = ringStart' /\ lastState' = ringHead')
  BY <1>1, <1>2, SnapMoves DEF InRing, Gap
<1>4. ASSUME NEW i \in 0 .. ringBufSize - 1, InRing(i)', i # ringHead
      PROVE  InRing(i)
  BY <1>1, <1>4, SnapMoves DEF InRing, Gap
<1>5. ASSUME NEW i \in 0 .. ringBufSize - 1, InRing(i)'
      PROVE  ringBuf'[i] # NoSnap
  <2>1. CASE i = ringHead
    BY <1>1, <1>2, <2>1, RecorderAssumption
  <2>2. CASE i # ringHead
    BY <1>1, <1>2, <1>4, <1>5, <2>2 DEF RingKept
  <2> QED BY <2>1, <2>2
<1> QED BY <1>1, <1>2, <1>3, <1>5 DEF RingKept

(* What happens before a frame keeps the ring.                             *)
LEMMA UpdateKept ==
  ASSUME TypeOK, running, RingKept, Update, UNCHANGED configVars
  PROVE  RingKept'
<1>1. RingTyped /\ currFrameCounter \in Nat
  BY DEF TypeOK
<1>2. CASE NoSnapDue
  BY <1>2 DEF NoSnapDue, indexVars, configVars, RingKept, InRing, Gap
<1> QED BY <1>1, <1>2, ResumeKept, SnapKept DEF Update

(* Loading a held slot keeps the ring.                                     *)
LEMMA LoadKept ==
  ASSUME RingKept, NEW i \in 0 .. ringBufSize - 1, InRing(i),
         LoadStateByIndex(i)
  PROVE  RingKept'
<1>1. /\ ringBufSize' = ringBufSize /\ ringHead' = ringHead
      /\ ringStart' = ringStart /\ ringBuf' = ringBuf /\ lastState' = i
  BY DEF LoadStateByIndex, configVars
<1> QED BY <1>1 DEF RingKept, InRing, Gap

(* Where something is held, Previous and Next load a held slot.            *)
LEMMA IndicesHeld ==
  ASSUME RingTyped, RingKept, lastState # ringHead
  PROVE  /\ PrevIndex \in 0 .. ringBufSize - 1 /\ InRing(PrevIndex)
         /\ NextIndex \in 0 .. ringBufSize - 1 /\ InRing(NextIndex)
<1>1. InRing(lastState)
  BY DEF RingKept
<1>2. /\ ringBufSize \in Nat \ {0} /\ lastState \in 0 .. ringBufSize - 1
      /\ ringHead \in 0 .. ringBufSize - 1
      /\ ringStart \in 0 .. ringBufSize - 1
      /\ lastState - 1 \in Int /\ lastState + 1 \in Int
  BY DEF RingTyped
<1>3. /\ (lastState - 1) % ringBufSize
           = IF lastState = 0 THEN ringBufSize - 1 ELSE lastState - 1
      /\ (lastState + 1) % ringBufSize
           = IF lastState + 1 = ringBufSize THEN 0 ELSE lastState + 1
  BY <1>2, Before, After
<1>4. PrevIndex \in 0 .. ringBufSize - 1 /\ InRing(PrevIndex)
  BY <1>1, <1>2, <1>3 DEF PrevIndex, InRing, Gap
<1>5. NextIndex \in 0 .. ringBufSize - 1 /\ InRing(NextIndex)
  BY <1>1, <1>2, <1>3 DEF NextIndex, InRing, Gap
<1> QED BY <1>4, <1>5

Kept == running => RingKept

(* Every step of the recorder keeps the ring of a running recorder.        *)
LEMMA KeptStep ==
  ASSUME SizedRings, Restarts, ~NextWhenEmpty, TypeOK, SizeOfConfig, Kept,
         [Next]_vars
  PROVE  Kept'
<1>1. ASSUME UNCHANGED <<running, ringVars>> PROVE Kept'
  BY <1>1 DEF Kept, RingKept, InRing, Gap, ringVars, indexVars, configVars
<1>2. CASE Start
  BY <1>2, NewKept, RecorderAssumption DEF Start, Kept, TypeOK
<1>3. CASE Stop
  <2>1. ~running'
    BY <1>3 DEF Stop
  <2> QED BY <2>1 DEF Kept
<1>4. ASSUME NEW c \in Configs, ApplyWhileStopped(c) PROVE Kept'
  BY <1>1, <1>4 DEF ApplyWhileStopped
<1>5. ASSUME NEW c \in Configs, ApplyAndRestart(c) PROVE Kept'
  BY <1>5, NewKept DEF ApplyAndRestart, Kept
<1>6. ASSUME NEW c \in Configs, ApplyWithoutRestart(c) PROVE Kept'
  BY <1>6, SizeKept DEF Kept, RingKept, InRing, Gap, indexVars
<1>7. CASE Frame
  <2>1. CASE running
    BY <1>7, <2>1, UpdateKept DEF Frame, Kept
  <2>2. CASE ~running
    BY <1>1, <1>7, <2>2 DEF Frame, Update
  <2> QED BY <2>1, <2>2
<1>8. CASE FrameAdvance
  BY <1>1, <1>8 DEF FrameAdvance
<1>9. CASE ToggleEmulationPause
  BY <1>1, <1>9 DEF ToggleEmulationPause
<1>10. CASE OutsideLoad
  BY <1>1, <1>10 DEF OutsideLoad
<1>11. CASE LoadPrevState
  BY <1>11, IndicesHeld, LoadKept DEF LoadPrevState, Kept, TypeOK
<1>12. CASE LoadNextState
  BY <1>12, IndicesHeld, LoadKept DEF LoadNextState, Kept, TypeOK
<1>13. CASE UNCHANGED vars
  BY <1>1, <1>13 DEF vars
<1> QED BY <1>2, <1>3, <1>4, <1>5, <1>6, <1>7, <1>8, <1>9, <1>10, <1>11,
           <1>12, <1>13 DEF Next

(* The number of snapshots is the distance from the start to the head.     *)
LEMMA CountGap ==
  ASSUME RingTyped, running
  PROVE  Count = Gap(ringHead, ringStart) /\ Count \in 0 .. ringBufSize - 1
<1>1. /\ ringBufSize \in Nat \ {0}
      /\ ringHead \in 0 .. ringBufSize - 1
      /\ ringStart \in 0 .. ringBufSize - 1
  BY DEF RingTyped
<1>2. Count = Gap(ringHead, ringStart)
  BY <1>1, Distance DEF Count, Gap
<1> QED BY <1>1, <1>2 DEF Gap

(* The i-th slot from the start.                                           *)
LEMMA HeldSlot ==
  ASSUME RingTyped, NEW i \in 1 .. ringBufSize - 1
  PROVE  (ringStart + i - 1) % ringBufSize
           = IF ringStart + i - 1 < ringBufSize
             THEN ringStart + i - 1 ELSE ringStart + i - 1 - ringBufSize
<1>1. ringBufSize \in Nat \ {0} /\ ringStart \in 0 .. ringBufSize - 1
  BY DEF RingTyped
<1>2. /\ \A x \in 0 .. ringBufSize - 1 : x % ringBufSize = x
      /\ \A x \in ringBufSize .. 2 * ringBufSize - 1 :
           x % ringBufSize = x - ringBufSize
  BY <1>1, WrapInside, WrapAbove
<1>3. CASE ringStart + i - 1 < ringBufSize
  <2>1. ringStart + i - 1 \in 0 .. ringBufSize - 1
    BY <1>1, <1>3
  <2> QED BY <1>2, <1>3, <2>1
<1>4. CASE ~(ringStart + i - 1 < ringBufSize)
  <2>1. ringStart + i - 1 \in ringBufSize .. 2 * ringBufSize - 1
    BY <1>1, <1>4
  <2>2. (ringStart + i - 1) % ringBufSize = ringStart + i - 1 - ringBufSize
    BY <1>1, <1>2, <2>1
  <2> QED BY <1>4, <2>2
<1> QED BY <1>3, <1>4

(* The snapshots counted lie in slots that are held.                       *)
LEMMA HeldInRing ==
  ASSUME RingTyped, running, NEW i \in 1 .. Count
  PROVE  /\ (ringStart + i - 1) % ringBufSize \in 0 .. ringBufSize - 1
         /\ InRing((ringStart + i - 1) % ringBufSize)
<1>1. /\ ringBufSize \in Nat \ {0}
      /\ ringHead \in 0 .. ringBufSize - 1
      /\ ringStart \in 0 .. ringBufSize - 1
      /\ Count = Gap(ringHead, ringStart) /\ i \in 1 .. ringBufSize - 1
  BY CountGap DEF RingTyped
<1> QED BY <1>1, HeldSlot DEF InRing, Gap

(* SlotsSaved holds in every state: every snapshot that                    *)
(* FCEU_StateRecorderGetNumSnapsSaved counts has been taken, as long as    *)
(* the next state is not asked for before there is one.                    *)
THEOREM RecorderSlots ==
  ASSUME SizedRings, Restarts, ~NextWhenEmpty
  PROVE  Spec => []SlotsSaved
<1>1. Init => Kept
  BY DEF Init, Kept
<1>2. TypeOK /\ SizeOfConfig /\ Kept /\ [Next]_vars => Kept'
  BY KeptStep
<1>3. TypeOK /\ Kept => SlotsSaved
  <2> SUFFICES ASSUME TypeOK, Kept, NEW i \in 1 .. Count
               PROVE  Held[i] # NoSnap
    BY DEF SlotsSaved
  <2>1. CASE running
    BY <2>1, HeldInRing DEF TypeOK, Kept, RingKept, Held
  <2>2. CASE ~running
    BY <2>2 DEF Count
  <2> QED BY <2>1, <2>2
<1>4. Spec => []TypeOK
  BY RecorderTyped
<1> QED BY <1>1, <1>2, <1>3, <1>4, Sized, PTL DEF Spec

-----------------------------------------------------------------------------
(* The state recorder implements a bounded history.                        *)

Snaps == Nat \cup {NoSnap}

Slot(i) == IF ringStart + i - 1 < ringBufSize
           THEN ringStart + i - 1 ELSE ringStart + i - 1 - ringBufSize

(* What the ring holds, as a sequence of as many snapshots as Count says.  *)
HeldIsSeq ==
  /\ Held \in Seq(Snaps)
  /\ Len(Held) = Count
  /\ Count = Gap(ringHead, ringStart) /\ Count \in 0 .. ringBufSize - 1
  /\ \A i \in 1 .. Count : Held[i] = ringBuf[Slot(i)]
  /\ Cursor = IF Count = 0 THEN 0 ELSE Gap(lastState, ringStart) + 1

(* The snapshots held are a sequence, read off the ring from its start.    *)
LEMMA HeldSeq == running /\ RingTyped => HeldIsSeq
<1> SUFFICES ASSUME running, RingTyped PROVE HeldIsSeq
  OBVIOUS
<1>1. Count = Gap(ringHead, ringStart) /\ Count \in 0 .. ringBufSize - 1
  BY CountGap
<1>2. /\ ringBufSize \in Nat \ {0} /\ ringStart \in 0 .. ringBufSize - 1
      /\ ringBuf \in [0 .. ringBufSize - 1 -> Snaps]
      /\ lastState \in 0 .. ringBufSize - 1
  BY DEF RingTyped, Snaps
<1>3. ASSUME NEW i \in 1 .. Count
      PROVE  Held[i] = ringBuf[Slot(i)] /\ Held[i] \in Snaps
  <2>1. i \in 1 .. ringBufSize - 1
    BY <1>1, <1>2
  <2>2. Slot(i) \in 0 .. ringBufSize - 1
    BY <1>2, <2>1 DEF Slot
  <2> QED BY <1>2, <2>1, <2>2, HeldSlot DEF Held, Slot
<1>4. Held \in Seq(Snaps) /\ Len(Held) = Count
  <2>1. Count \in Nat
    BY <1>1, <1>2
  <2>2. Held \in [1 .. Count -> Snaps]
    BY <1>3 DEF Held
  <2> QED BY <2>1, <2>2
<1>5. (lastState - ringStart) % ringBufSize = Gap(lastState, ringStart)
  BY <1>2, Distance DEF Gap
<1> QED BY <1>1, <1>3, <1>4, <1>5 DEF HeldIsSeq, Cursor

(* Playing on from an earlier snapshot forgets the later ones.             *)
LEMMA ResumeMaps ==
  ASSUME running, RingTyped, RingKept, Resume,
         running' = running, UNCHANGED configVars, RingTyped',
         currFrameCounter' \in Nat
  PROVE  H!Resume
<1>1. HeldIsSeq /\ HeldIsSeq'
  <2>1. (running /\ RingTyped => HeldIsSeq)'
    BY HeldSeq, PTL
  <2> QED BY <2>1, HeldSeq
<1>2. /\ ringBufSize \in Nat \ {0} /\ ringBufSize' = ringBufSize
      /\ ringHead \in 0 .. ringBufSize - 1
      /\ ringStart \in 0 .. ringBufSize - 1
      /\ lastState \in 0 .. ringBufSize - 1
      /\ ringHead' \in 0 .. ringBufSize - 1
  BY DEF RingTyped, configVars
<1>3. /\ ringStart' = ringStart /\ lastState' = lastState
      /\ ringBuf' = ringBuf /\ InRing(lastState)
      /\ loadIndexReset /\ ~loadIndexReset'
  BY DEF Resume, RingKept
<1>4. ringHead' = IF lastState + 1 = ringBufSize THEN 0 ELSE lastState + 1
  BY <1>2, After DEF Resume
<1>5. Cursor = Gap(lastState, ringStart) + 1 /\ Cursor \in 1 .. Count
  BY <1>1, <1>2, <1>3 DEF HeldIsSeq, InRing, Gap
<1>6. Count' = Cursor
  BY <1>1, <1>2, <1>3, <1>4, <1>5 DEF HeldIsSeq, Gap
<1>7. Cursor' = Cursor
  BY <1>1, <1>2, <1>3, <1>5, <1>6 DEF HeldIsSeq, Gap
<1>8. Held' = SubSeq(Held, 1, Cursor)
  <2>1. /\ SubSeq(Held, 1, Cursor) \in Seq(Snaps)
        /\ Len(SubSeq(Held, 1, Cursor)) = Cursor
        /\ \A i \in 1 .. Cursor : SubSeq(Held, 1, Cursor)[i] = Held[i]
    <3>1. Cursor \in Int /\ Cursor - 1 + 1 = Cursor /\ 1 <= Cursor
      BY <1>1, <1>5 DEF HeldIsSeq
    <3>2. \A i \in 1 .. Cursor : Held[i] \in Snaps /\ 1 + i - 1 = i
      BY <1>1, <1>5, ElementOfSeq DEF HeldIsSeq
    <3> QED BY <3>1, <3>2, SubSeqProperties
  <2>2. Held' \in Seq(Snaps) /\ Len(Held') = Cursor
    BY <1>1, <1>6 DEF HeldIsSeq, Snaps
  <2>3. ASSUME NEW i \in 1 .. Cursor PROVE Held'[i] = Held[i]
    <3>1. Held[i] = ringBuf[Slot(i)]
      BY <1>1, <1>5 DEF HeldIsSeq
    <3>2. Held'[i] = ringBuf'[Slot(i)']
      BY <1>1, <1>6 DEF HeldIsSeq
    <3>3. Slot(i)' = Slot(i)
      BY <1>2, <1>3 DEF Slot
    <3> QED BY <1>3, <3>1, <3>2, <3>3
  <2> QED BY <2>1, <2>2, <2>3, SeqEqual
<1> QED BY <1>2, <1>3, <1>7, <1>8 DEF H!Resume

(* The end of a sequence, from a place in it or just past it.              *)
LEMMA Suffix ==
  ASSUME NEW S, NEW s \in Seq(S), NEW m \in 1 .. Len(s) + 1
  PROVE  /\ SubSeq(s, m, Len(s)) \in Seq(S)
         /\ Len(SubSeq(s, m, Len(s))) = Len(s) - m + 1
         /\ \A i \in 1 .. Len(s) - m + 1 : SubSeq(s, m, Len(s))[i] = s[m + i - 1]
<1>1. m \in Int /\ Len(s) \in Nat
  OBVIOUS
<1>2. \A i \in m .. Len(s) : s[i] \in S
  BY ElementOfSeq
<1>3. /\ SubSeq(s, m, Len(s)) \in Seq(S)
      /\ Len(SubSeq(s, m, Len(s))) = IF m <= Len(s) THEN Len(s) - m + 1 ELSE 0
      /\ \A i \in 1 .. Len(s) - m + 1 : SubSeq(s, m, Len(s))[i] = s[m + i - 1]
  BY <1>1, <1>2, SubSeqProperties
<1> QED BY <1>1, <1>3

(* A snapshot is appended, and the oldest one dropped from a full ring.    *)
LEMMA SnapMaps ==
  ASSUME running, RingTyped, Snap,
         running' = running, UNCHANGED configVars, RingTyped',
         currFrameCounter \in Nat, currFrameCounter' \in Nat
  PROVE  H!Record
<1> DEFINE App == Append(Held, currFrameCounter)
           m == IF Count + 1 > ringBufSize - 1 THEN 2 ELSE 1
           New == SubSeq(App, m, Count + 1)
<1>1. HeldIsSeq /\ HeldIsSeq'
  <2>1. (running /\ RingTyped => HeldIsSeq)'
    BY HeldSeq, PTL
  <2> QED BY <2>1, HeldSeq
<1>2. /\ ringBufSize \in Nat \ {0} /\ ringBufSize' = ringBufSize
      /\ ringHead \in 0 .. ringBufSize - 1
      /\ ringStart \in 0 .. ringBufSize - 1
      /\ ringBuf \in [0 .. ringBufSize - 1 -> Snaps]
      /\ Count \in 0 .. ringBufSize - 1
  BY <1>1 DEF RingTyped, configVars, HeldIsSeq, Snaps
<1>3. /\ lastState' = ringHead /\ ~loadIndexReset /\ ~loadIndexReset'
      /\ ringBuf' = [ringBuf EXCEPT ![ringHead] = currFrameCounter]
  BY DEF Snap
<1>4. /\ ringHead' = IF ringHead + 1 = ringBufSize THEN 0 ELSE ringHead + 1
      /\ ringStart' =
           IF ringStart # ringHead' THEN ringStart
           ELSE IF ringHead' + 1 = ringBufSize THEN 0 ELSE ringHead' + 1
  BY SnapMoves
<1>5. /\ App \in Seq(Snaps) /\ Len(App) = Count + 1
      /\ \A j \in 1 .. Count : App[j] = Held[j]
      /\ App[Count + 1] = currFrameCounter
  BY <1>1 DEF HeldIsSeq, Snaps
<1>6. Count' = Count + 1 - m + 1
  BY <1>1, <1>2, <1>4 DEF HeldIsSeq, Gap
<1>7. Cursor' = Count'
  BY <1>1, <1>2, <1>3, <1>4, <1>6, SMTT(30) DEF HeldIsSeq, Gap
<1>8. /\ New \in Seq(Snaps) /\ Len(New) = Count'
      /\ \A i \in 1 .. Count' : New[i] = App[m + i - 1]
  <2>1. m \in 1 .. Len(App) + 1 /\ New = SubSeq(App, m, Len(App))
    BY <1>2, <1>5
  <2>2. /\ New \in Seq(Snaps) /\ Len(New) = Len(App) - m + 1
        /\ \A i \in 1 .. Len(App) - m + 1 : New[i] = App[m + i - 1]
    <3> HIDE DEF m, App, New
    <3> QED BY <1>5, <2>1, Suffix
  <2>3. Len(App) - m + 1 = Count'
    BY <1>2, <1>5, <1>6
  <2> HIDE DEF m, App, New
  <2> QED BY <2>2, <2>3
<1>9. ASSUME NEW i \in 1 .. Count' PROVE Held'[i] = New[i]
  <2>1. Held'[i] = ringBuf'[Slot(i)']
    BY <1>1 DEF HeldIsSeq
  <2>2. Slot(i)' = Slot(m + i - 1) /\ m + i - 1 \in 1 .. Count + 1
    BY <1>1, <1>2, <1>4, <1>6 DEF Slot, HeldIsSeq, Gap
  <2>3. CASE m + i - 1 = Count + 1
    <3>1. Slot(m + i - 1) = ringHead
      BY <1>1, <1>2, <2>3 DEF Slot, HeldIsSeq, Gap
    <3> QED BY <1>2, <1>3, <1>5, <1>8, <2>1, <2>2, <2>3, <3>1
  <2>4. CASE m + i - 1 # Count + 1
    <3>1. m + i - 1 \in 1 .. Count
      BY <1>2, <2>2, <2>4
    <3>2. Slot(m + i - 1) # ringHead /\ Slot(m + i - 1) \in 0 .. ringBufSize - 1
      BY <1>1, <1>2, <3>1 DEF Slot, HeldIsSeq, Gap
    <3>3. App[m + i - 1] = ringBuf[Slot(m + i - 1)]
      BY <1>1, <1>5, <3>1 DEF HeldIsSeq
    <3> QED BY <1>2, <1>3, <1>8, <2>1, <2>2, <3>2, <3>3
  <2> QED BY <2>3, <2>4
<1>10. Held' = New
  BY <1>1, <1>8, <1>9, SeqEqual DEF HeldIsSeq, Snaps
<1>11. New = H!Newest(App, ringBufSize - 1)
  BY <1>2, <1>5 DEF H!Newest
<1> QED BY <1>1, <1>2, <1>3, <1>7, <1>10, <1>11 DEF H!Record, HeldIsSeq

(* A held slot is loaded, with the frame it was taken at.                  *)
LEMMA LoadMaps ==
  ASSUME running, RingTyped, RingKept,
         NEW k \in 0 .. ringBufSize - 1, InRing(k), LoadStateByIndex(k)
  PROVE  H!LoadAt(Gap(k, ringStart) + 1)
<1>1. HeldIsSeq
  BY HeldSeq
<1>2. /\ ringBufSize \in Nat \ {0} /\ ringBufSize' = ringBufSize
      /\ ringHead' = ringHead /\ ringStart' = ringStart
      /\ ringBuf' = ringBuf /\ lastState' = k /\ running' /\ loadIndexReset'
      /\ ringHead \in 0 .. ringBufSize - 1
      /\ ringStart \in 0 .. ringBufSize - 1
  BY DEF LoadStateByIndex, configVars, RingTyped
<1>3. currFrameCounter' = ringBuf[k]
  BY DEF LoadStateByIndex, RingKept
<1>4. Count' = Count /\ Held' = Held
  BY <1>2 DEF Count, Held
<1>5. Gap(k, ringStart) + 1 \in 1 .. Count
  BY <1>1, <1>2 DEF HeldIsSeq, InRing, Gap
<1>6. Cursor' = Gap(k, ringStart) + 1
  <2>1. (k - ringStart) % ringBufSize = Gap(k, ringStart)
    BY <1>2, Distance DEF Gap
  <2>2. Count # 0
    BY <1>1, <1>5 DEF HeldIsSeq
  <2> QED BY <1>2, <1>4, <2>1, <2>2 DEF Cursor
<1>7. Held[Gap(k, ringStart) + 1] = ringBuf[k]
  <2>1. Slot(Gap(k, ringStart) + 1) = k
    BY <1>2 DEF Slot, Gap
  <2> QED BY <1>1, <1>5, <2>1 DEF HeldIsSeq
<1>8. Gap(k, ringStart) + 1 \in 1 .. Len(Held)
  BY <1>1, <1>5 DEF HeldIsSeq
<1> QED BY <1>2, <1>3, <1>4, <1>6, <1>7, <1>8 DEF H!LoadAt

(* Previous and Next ask for a neighbour of the last state, or for itself. *)
LEMMA IndicesNear ==
  ASSUME running, RingTyped, RingKept, lastState # ringHead
  PROVE  /\ Gap(PrevIndex, ringStart) + 1 \in {Cursor - 1, Cursor}
         /\ Gap(NextIndex, ringStart) + 1 \in {Cursor, Cursor + 1}
<1>1. HeldIsSeq /\ InRing(lastState)
  BY HeldSeq DEF RingKept
<1>2. /\ ringBufSize \in Nat \ {0} /\ lastState \in 0 .. ringBufSize - 1
      /\ ringHead \in 0 .. ringBufSize - 1
      /\ ringStart \in 0 .. ringBufSize - 1
  BY DEF RingTyped
<1>3. /\ (lastState - 1) % ringBufSize
           = IF lastState = 0 THEN ringBufSize - 1 ELSE lastState - 1
      /\ (lastState + 1) % ringBufSize
           = IF lastState + 1 = ringBufSize THEN 0 ELSE lastState + 1
  BY <1>2, Before, After
<1>4. Cursor = Gap(lastState, ringStart) + 1
  BY <1>1, <1>2 DEF HeldIsSeq, InRing, Gap
<1>5. Gap(PrevIndex, ringStart) + 1 \in {Cursor - 1, Cursor}
  BY <1>2, <1>3, <1>4 DEF PrevIndex, Gap
<1>6. Gap(NextIndex, ringStart) + 1 \in {Cursor, Cursor + 1}
  BY <1>1, <1>2, <1>3, <1>4 DEF NextIndex, Gap, InRing
<1> QED BY <1>5, <1>6

(* The two commands take the neighbours they are named for.                *)
LEMMA LoadsMap ==
  ASSUME TypeOK, Kept, ~NextWhenEmpty
  PROVE  /\ LoadPrevState => H!Previous
         /\ LoadNextState => H!Following
<1>1. ASSUME LoadPrevState PROVE H!Previous
  <2>1. running /\ RingTyped /\ RingKept /\ lastState # ringHead
    BY <1>1 DEF LoadPrevState, TypeOK, Kept
  <2>2. PrevIndex \in 0 .. ringBufSize - 1 /\ InRing(PrevIndex)
    BY <2>1, IndicesHeld
  <2>3. H!LoadAt(Gap(PrevIndex, ringStart) + 1)
    BY <1>1, <2>1, <2>2, LoadMaps DEF LoadPrevState
  <2> QED BY <2>1, <2>3, IndicesNear DEF H!Previous
<1>2. ASSUME LoadNextState PROVE H!Following
  <2>1. running /\ RingTyped /\ RingKept /\ lastState # ringHead
    BY <1>2 DEF LoadNextState, TypeOK, Kept
  <2>2. NextIndex \in 0 .. ringBufSize - 1 /\ InRing(NextIndex)
    BY <2>1, IndicesHeld
  <2>3. H!LoadAt(Gap(NextIndex, ringStart) + 1)
    BY <1>2, <2>1, <2>2, LoadMaps DEF LoadNextState
  <2> QED BY <2>1, <2>3, IndicesNear DEF H!Following
<1> QED BY <1>1, <1>2

(* Without a recorder there is no history.                                 *)
LEMMA Stopped == ~running => Held = << >> /\ Cursor = 0
  BY DEF Held, Cursor, Count

(* A new recorder holds no snapshot.                                       *)
LEMMA NewEmpty ==
  ASSUME SizedRings, NEW c \in Configs, NewRecorder(c)
  PROVE  /\ running' /\ RingTyped' /\ ~loadIndexReset'
         /\ HeldIsSeq' /\ Count' = 0 /\ Cursor' = 0
<1>1. running' /\ RingTyped' /\ ~loadIndexReset'
  BY NewTyped DEF NewRecorder
<1>2. HeldIsSeq'
  <2>1. (running /\ RingTyped => HeldIsSeq)'
    BY HeldSeq, PTL
  <2> QED BY <1>1, <2>1
<1>3. ringHead' = 0 /\ ringStart' = 0
  BY DEF NewRecorder
<1>4. Count' = 0
  BY <1>2, <1>3 DEF HeldIsSeq, Gap
<1>5. Cursor' = 0
  BY <1>2, <1>4 DEF HeldIsSeq
<1> QED BY <1>1, <1>2, <1>4, <1>5

(* A new recorder starts with an empty history.                            *)
LEMMA NewMaps ==
  ASSUME SizedRings, NEW c \in Configs, NewRecorder(c),
         UNCHANGED currFrameCounter
  PROVE  H!Restart
<1>1. /\ running' /\ RingTyped' /\ ~loadIndexReset'
      /\ HeldIsSeq' /\ Count' = 0 /\ Cursor' = 0
  BY NewEmpty
<1>5. Held' = << >>
  BY <1>1, EmptySeq DEF HeldIsSeq, Snaps
<1>7. ringBufSize' \in Nat /\ ringBufSize' # 0
  BY <1>1 DEF RingTyped
<1>8. (IF running THEN ringBufSize - 1 ELSE 0)' \in Nat
  <2>1. \A n \in Nat : n # 0 => n - 1 \in Nat
    OBVIOUS
  <2>2. ringBufSize' - 1 \in Nat
    BY <1>7, <2>1
  <2> QED BY <1>1, <2>2
<1> QED BY <1>1, <1>5, <1>8 DEF H!Restart

(* A step that leaves the recorder alone only moves the run.               *)
LEMMA PlayMaps ==
  ASSUME UNCHANGED <<running, ringVars>>, currFrameCounter' \in Nat
  PROVE  H!Play
  BY DEF ringVars, indexVars, configVars, H!Play, Held, Cursor, Count

(* What happens before a frame, together with the frame.                   *)
LEMMA FrameMaps ==
  ASSUME TypeOK, TypeOK', Kept, Frame
  PROVE  H!Next
<1>1. currFrameCounter \in Nat /\ currFrameCounter' \in Nat
  BY DEF TypeOK
<1>2. CASE ~running
  BY <1>1, <1>2, PlayMaps DEF Frame, Update, H!Next
<1>3. CASE running
  <2>1. /\ running' = running /\ UNCHANGED configVars
        /\ RingTyped /\ RingTyped' /\ RingKept
    BY <1>3 DEF Frame, TypeOK, Kept
  <2>2. CASE Resume
    BY <1>1, <1>3, <2>1, <2>2, ResumeMaps DEF H!Next
  <2>3. CASE Snap
    BY <1>1, <1>3, <2>1, <2>3, SnapMaps DEF H!Next
  <2>4. CASE NoSnapDue
    <3>1. H!Play
      BY <1>1, <2>1, <2>4
      DEF NoSnapDue, indexVars, configVars, H!Play, Held, Cursor, Count
    <3> QED BY <3>1 DEF H!Next
  <2> QED BY <1>3, <2>2, <2>3, <2>4 DEF Frame, Update
<1> QED BY <1>2, <1>3

(* Every step of the recorder is a step of the bounded history.            *)
LEMMA MapsStep ==
  ASSUME SizedRings, Restarts, ~NextWhenEmpty,
         TypeOK, TypeOK', SizeOfConfig, Kept, [Next]_vars
  PROVE  [H!Next]_H!vars
<1>1. currFrameCounter' \in Nat
  BY DEF TypeOK
<1>2. ASSUME UNCHANGED <<running, ringVars>> PROVE H!Next
  BY <1>1, <1>2, PlayMaps DEF H!Next
<1>3. CASE Start
  <2>1. stateRecorderConfig \in Configs
    BY DEF TypeOK
  <2> QED BY <1>3, <2>1, NewMaps DEF Start, machineVars, H!Next
<1>4. CASE Stop
  <2>1. ~running' /\ currFrameCounter' = currFrameCounter
    BY <1>4 DEF Stop, machineVars
  <2>2. Held' = << >> /\ Cursor' = 0
    <3>1. (~running => Held = << >> /\ Cursor = 0)'
      BY Stopped, PTL
    <3> QED BY <2>1, <3>1
  <2> QED BY <2>1, <2>2 DEF H!Next, H!Restart
<1>5. ASSUME NEW c \in Configs, ApplyWhileStopped(c) PROVE H!Next
  BY <1>2, <1>5 DEF ApplyWhileStopped
<1>6. ASSUME NEW c \in Configs, ApplyAndRestart(c) PROVE H!Next
  BY <1>6, NewMaps DEF ApplyAndRestart, machineVars, H!Next
<1>7. ASSUME NEW c \in Configs, ApplyWithoutRestart(c) PROVE H!Next
  <2>1. H!Play
    BY <1>1, <1>7, SizeKept DEF H!Play, Held, Cursor, Count, indexVars
  <2> QED BY <2>1 DEF H!Next
<1>8. CASE Frame
  BY <1>8, FrameMaps
<1>9. CASE FrameAdvance
  BY <1>2, <1>9 DEF FrameAdvance
<1>10. CASE ToggleEmulationPause
  BY <1>2, <1>10 DEF ToggleEmulationPause
<1>11. CASE OutsideLoad
  BY <1>2, <1>11 DEF OutsideLoad
<1>12. CASE LoadPrevState
  BY <1>12, LoadsMap DEF H!Next
<1>13. CASE LoadNextState
  BY <1>13, LoadsMap DEF H!Next
<1>14. CASE UNCHANGED vars
  BY <1>2, <1>14 DEF vars
<1> QED BY <1>3, <1>4, <1>5, <1>6, <1>7, <1>8, <1>9, <1>10, <1>11, <1>12,
           <1>13, <1>14 DEF Next

(* KeepsHistory: the recorder implements a bounded history.  A full ring   *)
(* drops its oldest snapshot, playing on from an earlier one forgets the   *)
(* later ones, and a load takes the last snapshot or a neighbour.          *)
THEOREM RecorderRefines ==
  ASSUME SizedRings, Restarts, ~NextWhenEmpty
  PROVE  Spec => KeepsHistory
<1>1. Init => H!Init
  <2> SUFFICES ASSUME Init PROVE H!Init
    OBVIOUS
  <2>1. ~running /\ currFrameCounter = 0
    BY DEF Init
  <2> QED BY <2>1, Stopped DEF H!Init
<1>2. Init => Kept
  BY DEF Init, Kept
<1>3. TypeOK /\ SizeOfConfig /\ Kept /\ [Next]_vars => Kept'
  BY KeptStep
<1>4. TypeOK /\ TypeOK' /\ SizeOfConfig /\ Kept /\ [Next]_vars
      => [H!Next]_H!vars
  BY MapsStep
<1>5. Spec => []TypeOK
  BY RecorderTyped
<1> QED BY <1>1, <1>2, <1>3, <1>4, <1>5, Sized, PTL
        DEF Spec, KeepsHistory, H!Spec

(* Directions: loadPrevState never goes forward in the history and         *)
(* loadNextState never back.                                               *)
THEOREM RecorderDirections ==
  ASSUME SizedRings, Restarts, ~NextWhenEmpty
  PROVE  Spec => Directions
<1> DEFINE Kind == /\ LoadPrevState => H!Previous
                   /\ LoadNextState => H!Following
<1>1. Init => Kept
  BY DEF Init, Kept
<1>2. TypeOK /\ SizeOfConfig /\ Kept /\ [Next]_vars => Kept'
  BY KeptStep
<1>3. TypeOK /\ Kept => Kind
  BY LoadsMap
<1>4. Spec => []TypeOK
  BY RecorderTyped
<1> HIDE DEF Kind
<1>5. Spec => [][Kind]_vars
  BY <1>1, <1>2, <1>3, <1>4, Sized, PTL DEF Spec
<1> QED BY <1>5 DEF Directions, Kind

-----------------------------------------------------------------------------
(* The order of the snapshots.                                             *)

(* Unless one was loaded, the last snapshot is the newest one held.        *)
AtEnd == running /\ ~loadIndexReset => Cursor = Count

(* What is held of a running recorder: frames, of which the cursor points  *)
(* to one, if there are any.                                               *)
LEMMA HeldFrames ==
  ASSUME TypeOK, Kept, running
  PROVE  /\ HeldIsSeq /\ Count \in Nat
         /\ \A i \in 1 .. Count : Held[i] \in Nat
         /\ Count # 0 => Cursor \in 1 .. Count
         /\ Count = 0 => Cursor = 0
<1>1. HeldIsSeq /\ RingTyped /\ RingKept
  BY HeldSeq DEF TypeOK, Kept
<1>2. ASSUME NEW i \in 1 .. Count PROVE Held[i] \in Nat
  <2>1. (ringStart + i - 1) % ringBufSize \in 0 .. ringBufSize - 1
        /\ InRing((ringStart + i - 1) % ringBufSize)
    BY <1>1, HeldInRing
  <2>2. Held[i] = ringBuf[(ringStart + i - 1) % ringBufSize]
    BY DEF Held
  <2> QED BY <1>1, <2>1, <2>2 DEF RingTyped, RingKept
<1>3. Count # 0 => Cursor \in 1 .. Count
  <2>1. Count # 0 => ringHead # ringStart
    BY <1>1 DEF RingTyped, HeldIsSeq, Gap
  <2>2. Count # 0 => InRing(lastState)
    BY <1>1, <2>1 DEF RingKept
  <2> QED BY <1>1, <2>2 DEF RingTyped, HeldIsSeq, InRing, Gap
<1> QED BY <1>1, <1>2, <1>3 DEF HeldIsSeq, RingTyped

(* Where the recorder is left alone and the run goes on, the order stays.  *)
LEMMA PlayOrdered ==
  ASSUME Ordered, UNCHANGED <<Held, Count, Cursor>>,
         Count # 0 => Held[Cursor] \in Nat,
         frameCounter \in Nat, currFrameCounter \in Nat,
         frameCounter' \in Nat, currFrameCounter' \in Nat,
         currFrameCounter' >= currFrameCounter,
         frameCounter' \in {frameCounter, currFrameCounter}
  PROVE  Ordered'
<1>1. \A i, j \in 1 .. Count' : i < j => Held'[i] < Held'[j]
  BY DEF Ordered
<1>2. Count' # 0 => Held'[Cursor'] <= frameCounter' /\ frameCounter' <= currFrameCounter'
  BY DEF Ordered
<1> QED BY <1>1, <1>2 DEF Ordered

(* An empty history is in order.                                           *)
LEMMA EmptyOrdered ==
  ASSUME Count' = 0
  PROVE  Ordered'
  BY DEF Ordered

(* Resuming keeps a front part of the history, and the run goes on from    *)
(* its last snapshot.                                                      *)
LEMMA ResumeOrdered ==
  ASSUME TypeOK, TypeOK', Kept, Kept', Frame, running, Resume
  PROVE  AtEnd' /\ (Ordered => Ordered')
<1>1. /\ running' /\ UNCHANGED configVars /\ RingTyped /\ RingTyped' /\ RingKept
      /\ running' = running
      /\ currFrameCounter \in Nat /\ currFrameCounter' = currFrameCounter + 1
      /\ frameCounter \in Nat /\ frameCounter' = currFrameCounter
      /\ currFrameCounter' \in Nat
  BY DEF TypeOK, Kept, Frame, NextFrame, Resume
<1>2. Held' = SubSeq(Held, 1, Cursor) /\ Cursor' = Cursor
  BY <1>1, ResumeMaps DEF H!Resume
<1>3. /\ HeldIsSeq /\ Count \in Nat /\ \A i \in 1 .. Count : Held[i] \in Nat
      /\ Count # 0 => Cursor \in 1 .. Count
      /\ Count = 0 => Cursor = 0
  BY HeldFrames
<1>4. HeldIsSeq'
  <2>1. (running /\ RingTyped => HeldIsSeq)'
    BY HeldSeq, PTL
  <2> QED BY <1>1, <2>1
<1>5. /\ Len(SubSeq(Held, 1, Cursor)) = Cursor
      /\ \A i \in 1 .. Cursor : SubSeq(Held, 1, Cursor)[i] = Held[i]
  BY <1>3 DEF HeldIsSeq
<1>6. Count' = Cursor
  BY <1>2, <1>4, <1>5 DEF HeldIsSeq
<1>7. ASSUME Ordered PROVE Ordered'
  <2>1. \A i, j \in 1 .. Count' : i < j => Held'[i] < Held'[j]
    BY <1>2, <1>3, <1>5, <1>6, <1>7 DEF Ordered
  <2>2. Count' # 0 =>
          Held'[Cursor'] <= frameCounter' /\ frameCounter' <= currFrameCounter'
    BY <1>1, <1>2, <1>3, <1>5, <1>6, <1>7 DEF Ordered
  <2> QED BY <2>1, <2>2 DEF Ordered
<1> QED BY <1>2, <1>6, <1>7 DEF AtEnd

(* A snapshot that is due is later than all those held.                    *)
LEMMA SnapOrdered ==
  ASSUME TypeOK, TypeOK', Kept, AtEnd, Frame, running, Snap
  PROVE  AtEnd' /\ (Ordered => Ordered')
<1> DEFINE App == Append(Held, currFrameCounter)
           n == ringBufSize - 1
           m == IF Len(App) > n THEN Len(App) - n + 1 ELSE 1
<1>1. /\ running' = running /\ UNCHANGED configVars /\ RingTyped /\ RingTyped'
      /\ currFrameCounter \in Nat /\ currFrameCounter' = currFrameCounter + 1
      /\ frameCounter \in Nat /\ frameCounter' = currFrameCounter
      /\ currFrameCounter > frameCounter /\ ~loadIndexReset
      /\ currFrameCounter' \in Nat
  BY DEF TypeOK, Frame, NextFrame, Snap, DueSnap
<1>2. Held' = SubSeq(App, m, Len(App)) /\ Cursor' = Len(Held')
  BY <1>1, SnapMaps DEF H!Record, H!Newest
<1>3. /\ HeldIsSeq /\ Count \in Nat /\ \A i \in 1 .. Count : Held[i] \in Nat
      /\ Count # 0 => Cursor \in 1 .. Count
      /\ Cursor = Count
  BY <1>1, HeldFrames DEF AtEnd
<1>4. HeldIsSeq'
  <2>1. (running /\ RingTyped => HeldIsSeq)'
    BY HeldSeq, PTL
  <2> QED BY <1>1, <2>1
<1>5. /\ App \in Seq(Nat) /\ Len(App) = Count + 1
      /\ \A j \in 1 .. Count : App[j] = Held[j]
      /\ App[Count + 1] = currFrameCounter
  <2>1. Held \in Seq(Nat)
    BY <1>3, SeqDef DEF HeldIsSeq
  <2> QED BY <1>1, <1>3, <2>1 DEF HeldIsSeq
<1>6. n \in Nat /\ m \in 1 .. Len(App) + 1
  BY <1>1, <1>3, <1>5 DEF RingTyped
<1>7. /\ Len(Held') = Len(App) - m + 1
      /\ \A i \in 1 .. Len(App) - m + 1 : Held'[i] = App[m + i - 1]
  <2> HIDE DEF App, m
  <2> QED BY <1>2, <1>5, <1>6, Suffix
<1>8. Count' = Len(App) - m + 1
  BY <1>4, <1>7 DEF HeldIsSeq
<1>9. ASSUME Ordered PROVE Ordered'
  <2>1. \A i \in 1 .. Count : Held[i] < currFrameCounter
    <3> TAKE i \in 1 .. Count
    <3>1. Held[i] \in Nat /\ Held[Count] \in Nat /\ Held[Count] <= frameCounter
      BY <1>3, <1>9 DEF Ordered
    <3>2. CASE i = Count
      BY <1>1, <3>1, <3>2
    <3>3. CASE i # Count
      <4>1. Held[i] < Held[Count]
        BY <1>3, <1>9, <3>3 DEF Ordered
      <4> QED BY <1>1, <3>1, <4>1
    <3> QED BY <3>2, <3>3
  <2>2. \A i, j \in 1 .. Count + 1 : i < j => App[i] < App[j]
    <3> SUFFICES ASSUME NEW i \in 1 .. Count + 1, NEW j \in 1 .. Count + 1, i < j
                 PROVE  App[i] < App[j]
      OBVIOUS
    <3>1. i \in 1 .. Count
      BY <1>3
    <3>2. CASE j = Count + 1
      <4>1. App[i] = Held[i] /\ App[j] = currFrameCounter
        BY <1>5, <3>1, <3>2
      <4> QED BY <2>1, <3>1, <4>1
    <3>3. CASE j # Count + 1
      <4>1. j \in 1 .. Count
        BY <1>3, <3>3
      <4>2. App[i] = Held[i] /\ App[j] = Held[j]
        BY <1>5, <3>1, <4>1
      <4> QED BY <1>9, <3>1, <4>1, <4>2 DEF Ordered
    <3> QED BY <3>2, <3>3
  <2> HIDE DEF App, m, n
  <2>3. \A i, j \in 1 .. Count' : i < j => Held'[i] < Held'[j]
    <3> SUFFICES ASSUME NEW i \in 1 .. Count', NEW j \in 1 .. Count', i < j
                 PROVE  Held'[i] < Held'[j]
      OBVIOUS
    <3>1. /\ m + i - 1 \in 1 .. Count + 1 /\ m + j - 1 \in 1 .. Count + 1
          /\ m + i - 1 < m + j - 1
      BY <1>3, <1>5, <1>6, <1>8
    <3> QED BY <1>7, <1>8, <2>2, <3>1
  <2>4. ASSUME Count' # 0 PROVE Held'[Cursor'] = currFrameCounter
    <3>1. Cursor' = Len(App) - m + 1 /\ Cursor' \in 1 .. Len(App) - m + 1
      BY <1>2, <1>5, <1>6, <1>7, <1>8, <2>4
    <3>2. m + Cursor' - 1 = Count + 1
      BY <1>3, <1>5, <1>6, <3>1
    <3> QED BY <1>5, <1>7, <3>1, <3>2
  <2> QED BY <1>1, <2>3, <2>4 DEF Ordered
<1>10. AtEnd'
  BY <1>2, <1>7, <1>8 DEF AtEnd
<1> QED BY <1>9, <1>10

(* Loading a snapshot takes the run to it and leaves the others.           *)
LEMMA LoadOrdered ==
  ASSUME TypeOK, TypeOK', Kept, Kept', running, NEW k, LoadStateByIndex(k),
         NEW i, H!LoadAt(i), Ordered
  PROVE  Ordered'
<1>1. /\ Cursor' = i /\ Held' = Held
      /\ currFrameCounter' = Held[i]
  BY DEF H!LoadAt
<1>2. frameCounter' = currFrameCounter' /\ currFrameCounter' \in Nat
      /\ Count' = Count
  BY DEF LoadStateByIndex, TypeOK, Count, configVars
<1>3. \A a, b \in 1 .. Count' : a < b => Held'[a] < Held'[b]
  BY <1>1, <1>2 DEF Ordered
<1>4. Held'[Cursor'] = frameCounter'
  BY <1>1, <1>2
<1> QED BY <1>2, <1>3, <1>4 DEF Ordered

(* Every step leaves the last snapshot at the end unless it loads one, and *)
(* keeps the order unless something else moves the frame counter.          *)
LEMMA OrderStep ==
  ASSUME SizedRings, Restarts, ~NextWhenEmpty, TypeOK, TypeOK', SizeOfConfig,
         Kept, Kept', AtEnd, [Next]_vars
  PROVE  AtEnd' /\ (Ordered => Ordered' \/ OutsideLoad)
<1>1. /\ frameCounter \in Nat /\ currFrameCounter \in Nat
      /\ frameCounter' \in Nat /\ currFrameCounter' \in Nat
      /\ stateRecorderConfig \in Configs
  BY DEF TypeOK
<1>2. Count # 0 => Held[Cursor] \in Nat
  <2>1. CASE running
    BY <2>1, HeldFrames
  <2>2. CASE ~running
    BY <2>2 DEF Count
  <2> QED BY <2>1, <2>2
<1>3. ASSUME UNCHANGED <<running, ringBuf, ringBufSize, ringHead, ringStart,
                         lastState, loadIndexReset>>
      PROVE  AtEnd' /\ UNCHANGED <<Held, Count, Cursor>>
  BY <1>3 DEF AtEnd, Held, Count, Cursor
<1>4. ASSUME UNCHANGED <<running, ringVars>>, currFrameCounter' >= currFrameCounter
      PROVE  AtEnd' /\ (Ordered => Ordered')
  <2>1. AtEnd' /\ UNCHANGED <<Held, Count, Cursor>> /\ frameCounter' = frameCounter
    BY <1>3, <1>4 DEF ringVars, indexVars, configVars
  <2> QED BY <1>1, <1>2, <1>4, <2>1, PlayOrdered
<1>5. currFrameCounter' = currFrameCounter + 1 => currFrameCounter' >= currFrameCounter
  BY <1>1
<1>6. ASSUME NEW c \in Configs, NewRecorder(c) PROVE AtEnd' /\ Ordered'
  <2>1. Count' = 0 /\ Cursor' = 0
    BY <1>6, NewEmpty
  <2> QED BY <2>1, EmptyOrdered DEF AtEnd
<1>7. CASE Start
  BY <1>1, <1>6, <1>7 DEF Start
<1>8. CASE Stop
  <2>1. ~running'
    BY <1>8 DEF Stop
  <2>2. Count' = 0
    BY <2>1 DEF Count
  <2> QED BY <2>1, <2>2, EmptyOrdered DEF AtEnd
<1>9. ASSUME NEW c \in Configs, ApplyWhileStopped(c)
      PROVE  AtEnd' /\ (Ordered => Ordered')
  BY <1>1, <1>4, <1>9 DEF ApplyWhileStopped, machineVars
<1>10. ASSUME NEW c \in Configs, ApplyAndRestart(c)
       PROVE  AtEnd' /\ (Ordered => Ordered')
  BY <1>6, <1>10 DEF ApplyAndRestart
<1>11. ASSUME NEW c \in Configs, ApplyWithoutRestart(c)
       PROVE  AtEnd' /\ (Ordered => Ordered')
  <2>1. /\ UNCHANGED <<running, ringBuf, ringBufSize, ringHead, ringStart,
                       lastState, loadIndexReset, frameCounter, currFrameCounter>>
    BY <1>11, SizeKept DEF indexVars
  <2> QED BY <1>1, <1>2, <1>3, <2>1, PlayOrdered
<1>12. CASE Frame
  <2>1. currFrameCounter' = currFrameCounter + 1 /\ UNCHANGED <<running, configVars>>
    BY <1>12 DEF Frame, NextFrame
  <2>2. CASE ~running
    <3>1. UNCHANGED ringVars
      BY <1>12, <2>2 DEF Frame, Update
    <3> QED BY <1>4, <1>5, <2>1, <3>1
  <2>3. CASE running /\ Resume
    BY <1>12, <2>3, ResumeOrdered
  <2>4. CASE running /\ Snap
    BY <1>12, <2>4, SnapOrdered
  <2>5. CASE running /\ NoSnapDue
    <3>1. /\ AtEnd' /\ UNCHANGED <<Held, Count, Cursor>>
          /\ frameCounter' \in {frameCounter, currFrameCounter}
      BY <1>3, <2>1, <2>5 DEF NoSnapDue, indexVars, configVars
    <3> QED BY <1>1, <1>2, <1>5, <2>1, <3>1, PlayOrdered
  <2> QED BY <1>12, <2>2, <2>3, <2>4, <2>5 DEF Frame, Update
<1>13. CASE FrameAdvance
  BY <1>4, <1>5, <1>13 DEF FrameAdvance, NextFrame
<1>14. CASE ToggleEmulationPause
  BY <1>1, <1>4, <1>14 DEF ToggleEmulationPause
<1>15. CASE OutsideLoad
  BY <1>3, <1>15 DEF OutsideLoad, ringVars, indexVars, configVars
<1>16. ASSUME NEW k, NEW i, running, LoadStateByIndex(k), H!LoadAt(i)
       PROVE  AtEnd' /\ (Ordered => Ordered')
  <2>1. loadIndexReset'
    BY <1>16 DEF LoadStateByIndex
  <2> QED BY <1>16, <2>1, LoadOrdered DEF AtEnd
<1>17. CASE LoadPrevState
  <2>1. running /\ RingTyped /\ RingKept /\ lastState # ringHead
    BY <1>17 DEF LoadPrevState, TypeOK, Kept
  <2>2. PrevIndex \in 0 .. ringBufSize - 1 /\ InRing(PrevIndex)
    BY <2>1, IndicesHeld
  <2>3. H!LoadAt(Gap(PrevIndex, ringStart) + 1)
    BY <1>17, <2>1, <2>2, LoadMaps DEF LoadPrevState
  <2> QED BY <1>16, <1>17, <2>1, <2>3 DEF LoadPrevState
<1>18. CASE LoadNextState
  <2>1. running /\ RingTyped /\ RingKept /\ lastState # ringHead
    BY <1>18 DEF LoadNextState, TypeOK, Kept
  <2>2. NextIndex \in 0 .. ringBufSize - 1 /\ InRing(NextIndex)
    BY <2>1, IndicesHeld
  <2>3. H!LoadAt(Gap(NextIndex, ringStart) + 1)
    BY <1>18, <2>1, <2>2, LoadMaps DEF LoadNextState
  <2> QED BY <1>16, <1>18, <2>1, <2>3 DEF LoadNextState
<1>19. CASE UNCHANGED vars
  BY <1>1, <1>4, <1>19 DEF vars, machineVars
<1> QED BY <1>7, <1>8, <1>9, <1>10, <1>11, <1>12, <1>13, <1>14, <1>15, <1>17,
           <1>18, <1>19 DEF Next

(* OrderedSteps: rewinding goes back in time, however often the ring was   *)
(* rewound, played on and overwritten; only a savestate or a reset that    *)
(* moves the frame counter loses the order of the snapshots.               *)
THEOREM RecorderOrdered ==
  ASSUME SizedRings, Restarts, ~NextWhenEmpty
  PROVE  Spec => OrderedSteps
<1> DEFINE Kind == \/ Ordered'
                   \/ OutsideLoad
                   \/ running /\ running' /\ ringBufSize' # ringBufSize
<1>1. Init => Kept /\ AtEnd
  BY DEF Init, Kept, AtEnd
<1>2. TypeOK /\ SizeOfConfig /\ Kept /\ [Next]_vars => Kept'
  BY KeptStep
<1>3. TypeOK /\ TypeOK' /\ SizeOfConfig /\ Kept /\ Kept' /\ AtEnd /\ [Next]_vars
      => AtEnd' /\ [Ordered => Kind]_vars
  BY OrderStep
<1>4. Spec => []TypeOK
  BY RecorderTyped
<1> HIDE DEF Kind
<1>5. Spec => [][Ordered => Kind]_vars
  BY <1>1, <1>2, <1>3, <1>4, Sized, PTL DEF Spec
<1> QED BY <1>5 DEF OrderedSteps, Kind

(* In a run that nothing else moves, the snapshots are its past in its     *)
(* order in every state.                                                   *)
THEOREM RecorderAlwaysOrdered ==
  ASSUME SizedRings, Restarts, ~NextWhenEmpty, ~OutsideLoads
  PROVE  Spec => []Ordered
<1>1. Init => Kept /\ AtEnd /\ Ordered
  BY DEF Init, Kept, AtEnd, Ordered, Count
<1>2. TypeOK /\ SizeOfConfig /\ Kept /\ [Next]_vars => Kept'
  BY KeptStep
<1>3. TypeOK /\ TypeOK' /\ SizeOfConfig /\ Kept /\ Kept' /\ AtEnd /\ Ordered /\ [Next]_vars
      => AtEnd' /\ Ordered'
  BY OrderStep DEF OutsideLoad
<1>4. Spec => []TypeOK
  BY RecorderTyped
<1> QED BY <1>1, <1>2, <1>3, <1>4, Sized, PTL DEF Spec

=============================================================================
