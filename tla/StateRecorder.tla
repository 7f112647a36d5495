---------------------------- MODULE StateRecorder -----------------------------
(***************************************************************************)
(* The state recorder of state.cpp: a ring of snapshots of the emulated    *)
(* machine taken every framesPerSnap frames, behind the rewind commands    *)
(* and the State Recorder dialog.  A snapshot is the frame it was taken    *)
(* at.  Every operation runs under the lock of the emulator thread, so     *)
(* each is one step.                                                       *)
(*                                                                         *)
(* loadStateRelativeToEnd and FCEU_StateRecorderLoadState have no caller   *)
(* and no action here.                                                     *)
(***************************************************************************)
EXTENDS Integers, Sequences

CONSTANTS
  Configs,        \* settings the dialog can hold
  Answers,        \* whether the user agrees to a restart of the recorder
  NextWhenEmpty,  \* whether the next state is asked for before any snapshot
  OutsideLoads,   \* whether savestates and resets move the frame counter
  ReloadWindow,   \* frames after a load within which Previous steps back
  NoSnap,         \* the content of a slot not written yet
  MaxFrame        \* bound on currFrameCounter

PauseTypes == {"none", "temporary", "full"}

(* Durations in frames.  A time between snapshots of zero makes the number *)
(* of snapshots infinite, and its conversion to int is undefined.          *)
Config == [history : Nat \ {0}, framesBetween : Nat, timeBetween : Nat \ {0},
           timed : BOOLEAN, pauseOnLoad : PauseTypes]

ASSUME RecorderAssumption ==
  /\ Configs \subseteq Config
  /\ Answers \subseteq BOOLEAN
  /\ NextWhenEmpty \in BOOLEAN /\ OutsideLoads \in BOOLEAN
  /\ ReloadWindow \in Nat /\ MaxFrame \in Nat
  /\ NoSnap \notin Nat

VARIABLES
  stateRecorderConfig,
  running,          \* whether stateRecorder exists
  ringBuf,          \* its slots, numbered from 0
  ringBufSize, framesPerSnap, pauseOnLoad,
  ringHead, ringStart, lastState,
  frameCounter, lastLoadFrame, loadIndexReset,
  currFrameCounter,
  EmulationPaused   \* "no", "timer" or "paused"

indexVars == <<ringHead, ringStart, lastState, loadIndexReset>>
configVars == <<ringBufSize, framesPerSnap, pauseOnLoad>>
ringVars == <<ringBuf, indexVars, configVars, frameCounter, lastLoadFrame>>
machineVars == <<currFrameCounter, EmulationPaused>>
vars == <<stateRecorderConfig, running, ringVars, machineVars>>

-----------------------------------------------------------------------------
(* The settings.                                                           *)

(* History is made no shorter than the time between two snapshots, even    *)
(* where the frames between them count; the quotient is rounded.           *)
FramesPerSnap(c) ==
  IF c.timed THEN c.timeBetween
             ELSE IF c.framesBetween < 1 THEN 1 ELSE c.framesBetween

History(c) == IF c.timeBetween > c.history THEN c.timeBetween ELSE c.history

RingBufSize(c) ==
  (2 * History(c) + FramesPerSnap(c)) \div (2 * FramesPerSnap(c))

LoadConfig(c) ==
  /\ ringBufSize' = RingBufSize(c)
  /\ framesPerSnap' = FramesPerSnap(c)
  /\ pauseOnLoad' = c.pauseOnLoad

-----------------------------------------------------------------------------
(* Start, stop and settings.                                               *)

NewRecorder(c) ==
  /\ running' = TRUE
  /\ LoadConfig(c)
  /\ ringBuf' = [i \in 0 .. RingBufSize(c) - 1 |-> NoSnap]
  /\ ringHead' = 0 /\ ringStart' = 0 /\ lastState' = 0
  /\ frameCounter' = 0 /\ lastLoadFrame' = 0
  /\ loadIndexReset' = FALSE

Start ==
  /\ ~running
  /\ NewRecorder(stateRecorderConfig)
  /\ UNCHANGED <<stateRecorderConfig, machineVars>>

(* The recorder goes with its fields; lastState is static and stays.       *)
Stop ==
  /\ running
  /\ running' = FALSE
  /\ ringBuf' = <<>>
  /\ ringBufSize' = 0 /\ framesPerSnap' = 0 /\ pauseOnLoad' = "none"
  /\ ringHead' = 0 /\ ringStart' = 0
  /\ frameCounter' = 0 /\ lastLoadFrame' = 0 /\ loadIndexReset' = FALSE
  /\ UNCHANGED <<stateRecorderConfig, lastState, machineVars>>

(* The dialog applies its settings at once to a running recorder, and then *)
(* asks whether to restart it.                                             *)
ApplyWhileStopped(c) ==
  /\ ~running
  /\ stateRecorderConfig' = c
  /\ UNCHANGED <<running, ringVars, machineVars>>

ApplyAndRestart(c) ==
  /\ running
  /\ TRUE \in Answers
  /\ stateRecorderConfig' = c
  /\ NewRecorder(c)
  /\ UNCHANGED machineVars

ApplyWithoutRestart(c) ==
  /\ running
  /\ FALSE \in Answers
  /\ stateRecorderConfig' = c
  /\ LoadConfig(c)
  /\ UNCHANGED <<running, ringBuf, indexVars, frameCounter, lastLoadFrame,
                 machineVars>>

-----------------------------------------------------------------------------
(* StateRecorder::update, called before each frame that is not paused.     *)

(* Mutants of the next definition: the later snapshots are kept; the index *)
(* is not wrapped.                                                         *)
KeepFuture ==
  /\ loadIndexReset
  /\ loadIndexReset' = FALSE
  /\ frameCounter' = currFrameCounter
  /\ UNCHANGED <<ringBuf, ringHead, ringStart, lastState, lastLoadFrame>>

ResumeUnwrapped ==
  /\ loadIndexReset
  /\ ringHead' = lastState + 1
  /\ frameCounter' = currFrameCounter
  /\ loadIndexReset' = FALSE
  /\ UNCHANGED <<ringBuf, ringStart, lastState, lastLoadFrame>>

(* The first frame after a load: the next snapshot follows the loaded one. *)
Resume ==
  /\ loadIndexReset
  /\ ringHead' = (lastState + 1) % ringBufSize
  /\ frameCounter' = currFrameCounter
  /\ loadIndexReset' = FALSE
  /\ UNCHANGED <<ringBuf, ringStart, lastState, lastLoadFrame>>

DueSnap ==
  currFrameCounter > frameCounter /\ currFrameCounter % framesPerSnap = 0

(* Mutant of the next definition: a full ring keeps its start.             *)
StartKept ==
  /\ ~loadIndexReset /\ DueSnap
  /\ ringHead \in DOMAIN ringBuf
  /\ frameCounter' = currFrameCounter
  /\ ringBuf' = [ringBuf EXCEPT ![ringHead] = currFrameCounter]
  /\ lastState' = ringHead
  /\ ringHead' = (ringHead + 1) % ringBufSize
  /\ UNCHANGED <<ringStart, loadIndexReset, lastLoadFrame>>

(* A slot is written, and the oldest one dropped when the ring is full.    *)
Snap ==
  /\ ~loadIndexReset /\ DueSnap
  /\ ringHead \in DOMAIN ringBuf
  /\ frameCounter' = currFrameCounter
  /\ ringBuf' = [ringBuf EXCEPT ![ringHead] = currFrameCounter]
  /\ lastState' = ringHead
  /\ ringHead' = (ringHead + 1) % ringBufSize
  /\ ringStart' = IF ringStart = ringHead' THEN (ringHead' + 1) % ringBufSize
                                           ELSE ringStart
  /\ UNCHANGED <<loadIndexReset, lastLoadFrame>>

NoSnapDue ==
  /\ ~loadIndexReset /\ ~DueSnap
  /\ frameCounter' = IF currFrameCounter > frameCounter THEN currFrameCounter
                                                        ELSE frameCounter
  /\ UNCHANGED <<ringBuf, indexVars, lastLoadFrame>>

Update ==
  IF running THEN Resume \/ Snap \/ NoSnapDue ELSE UNCHANGED ringVars

NextFrame ==
  /\ currFrameCounter < MaxFrame
  /\ currFrameCounter' = currFrameCounter + 1

(* A frame; a temporary pause has run out by then.                         *)
Frame ==
  /\ EmulationPaused # "paused"
  /\ EmulationPaused' = "no"
  /\ Update
  /\ NextFrame
  /\ UNCHANGED <<stateRecorderConfig, running, configVars>>

(* A frame of Frame Advance: its flag counts as a pause for the recorder,  *)
(* and the emulation is paused after it.                                   *)
FrameAdvance ==
  /\ NextFrame
  /\ EmulationPaused' = "paused"
  /\ UNCHANGED <<stateRecorderConfig, running, ringVars>>

ToggleEmulationPause ==
  /\ EmulationPaused' = IF EmulationPaused = "paused" THEN "no" ELSE "paused"
  /\ UNCHANGED <<stateRecorderConfig, running, ringVars, currFrameCounter>>

(* A savestate is loaded, the machine is reset, or a movie starts.         *)
OutsideLoad ==
  /\ OutsideLoads
  /\ currFrameCounter' \in 0 .. MaxFrame
  /\ UNCHANGED <<stateRecorderConfig, running, ringVars, EmulationPaused>>

-----------------------------------------------------------------------------
(* Rewind.                                                                 *)

PausedAfterLoad ==
  IF pauseOnLoad = "full" THEN "paused"
  ELSE IF pauseOnLoad = "temporary" /\ EmulationPaused # "paused" THEN "timer"
  ELSE EmulationPaused

(* A slot that was never written is refused by FCEUSS_LoadFP.              *)
LoadStateByIndex(snapIdx) ==
  /\ snapIdx \in DOMAIN ringBuf
  /\ currFrameCounter' =
       IF ringBuf[snapIdx] = NoSnap THEN currFrameCounter ELSE ringBuf[snapIdx]
  /\ frameCounter' = currFrameCounter'
  /\ lastLoadFrame' = currFrameCounter'
  /\ lastState' = snapIdx
  /\ loadIndexReset' = TRUE
  /\ EmulationPaused' = PausedAfterLoad
  /\ UNCHANGED <<stateRecorderConfig, running, ringBuf, configVars, ringHead,
                 ringStart>>

(* Mutant of the next definition: it steps the other way.                  *)
PrevForward ==
  IF lastState # ringStart /\ lastLoadFrame + ReloadWindow > frameCounter
  THEN (lastState + 1) % ringBufSize
  ELSE lastState

(* Soon after a load Previous steps back; later it loads the last again.   *)
PrevIndex ==
  IF lastState # ringStart /\ lastLoadFrame + ReloadWindow > frameCounter
  THEN (lastState - 1) % ringBufSize
  ELSE lastState

LoadPrevState ==
  /\ running
  /\ lastState # ringHead
  /\ LoadStateByIndex(PrevIndex)

(* Mutant of the next definition: Next runs onto the free slot.            *)
NextUnchecked == (lastState + 1) % ringBufSize

NextIndex ==
  LET nextIdx == (lastState + 1) % ringBufSize
  IN  IF nextIdx # ringHead THEN nextIdx ELSE lastState

LoadNextState ==
  /\ running
  /\ NextWhenEmpty \/ lastState # ringHead
  /\ LoadStateByIndex(NextIndex)

-----------------------------------------------------------------------------
Init ==
  /\ stateRecorderConfig \in Configs
  /\ running = FALSE
  /\ ringBuf = <<>>
  /\ ringBufSize = 0 /\ framesPerSnap = 0 /\ pauseOnLoad = "none"
  /\ ringHead = 0 /\ ringStart = 0 /\ lastState = 0
  /\ frameCounter = 0 /\ lastLoadFrame = 0 /\ loadIndexReset = FALSE
  /\ currFrameCounter = 0
  /\ EmulationPaused = "no"

Next ==
  \/ Start
  \/ Stop
  \/ \E c \in Configs : \/ ApplyWhileStopped(c)
                        \/ ApplyAndRestart(c)
                        \/ ApplyWithoutRestart(c)
  \/ Frame
  \/ FrameAdvance
  \/ ToggleEmulationPause
  \/ OutsideLoad
  \/ LoadPrevState
  \/ LoadNextState

Spec == Init /\ [][Next]_vars

-----------------------------------------------------------------------------
(* The snapshots held, oldest first, and the position of lastState.        *)
Count == IF running THEN (ringHead - ringStart) % ringBufSize ELSE 0

Held == [i \in 1 .. Count |-> ringBuf[(ringStart + i - 1) % ringBufSize]]

Cursor ==
  IF Count = 0 THEN 0 ELSE ((lastState - ringStart) % ringBufSize) + 1

RingTyped ==
  /\ ringBufSize \in Nat \ {0} /\ framesPerSnap \in Nat \ {0}
  /\ ringBuf \in [0 .. ringBufSize - 1 -> Nat \cup {NoSnap}]
  /\ ringHead \in 0 .. ringBufSize - 1
  /\ ringStart \in 0 .. ringBufSize - 1
  /\ lastState \in 0 .. ringBufSize - 1

(* Type invariant; the indices of a running recorder are slots of its ring.*)
TypeOK ==
  /\ stateRecorderConfig \in Configs
  /\ running \in BOOLEAN /\ loadIndexReset \in BOOLEAN
  /\ pauseOnLoad \in PauseTypes
  /\ frameCounter \in Nat /\ lastLoadFrame \in Nat
  /\ currFrameCounter \in Nat
  /\ EmulationPaused \in {"no", "timer", "paused"}
  /\ running => RingTyped

(* Every snapshot that FCEU_StateRecorderGetNumSnapsSaved counts has been  *)
(* taken, however often the ring was rewound, resumed and overwritten.     *)
SlotsSaved == \A i \in 1 .. Count : Held[i] # NoSnap

(* The snapshots are the past of the run in its order, and a new one is    *)
(* due only after the last: rewinding goes back in time.                   *)
Ordered ==
  /\ \A i, j \in 1 .. Count : i < j => Held[i] < Held[j]
  /\ Count # 0 =>
       Held[Cursor] <= frameCounter /\ frameCounter <= currFrameCounter

(* Every step of the recorder keeps that order; it is lost only to a       *)
(* savestate or reset that moves the frame counter behind its back, and to *)
(* settings that change the size of a ring in use.                         *)
OrderedSteps ==
  [][Ordered => \/ Ordered'
                \/ OutsideLoad
                \/ running /\ running' /\ ringBufSize' # ringBufSize]_vars

(* The ring is a bounded history: a full ring drops its oldest snapshot,   *)
(* playing on from an earlier one forgets the later ones, and a load takes *)
(* the last snapshot or a neighbour in the order of the snapshots.         *)
H == INSTANCE BoundedHistory
       WITH hist <- Held, cur <- Cursor, rewound <- running /\ loadIndexReset,
            capacity <- IF running THEN ringBufSize - 1 ELSE 0,
            frame <- currFrameCounter

KeepsHistory == H!Spec

(* Previous never goes forward and Next never back, wherever the ring has  *)
(* wrapped and the last load has left the cursor; and they move nothing    *)
(* else of the history.                                                    *)
Directions ==
  [][/\ LoadPrevState => H!Previous
     /\ LoadNextState => H!Following]_vars

=============================================================================
